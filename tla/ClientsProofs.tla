---------------------------- MODULE ClientsProofs ----------------------------
(***************************************************************************)
(* ClientsInvariant's invariant, and the two properties of Clients that    *)
(* follow from it.  A turn of the loop is followed through what it tells   *)
(* everybody: every event, and every row of events, is learnt by who knew  *)
(* what the daemon knew before it, and tells what the daemon knows after   *)
(* it.                                                                     *)
(***************************************************************************)
EXTENDS ClientsInvariant, SequenceTheorems, WellFoundedInduction, TLAPS

-----------------------------------------------------------------------------
(* Forms.                                                                  *)

\* What the loop's events become on the wire.
LEMMA WireForms ==
  /\ WireForm("device_inventory_snapshot") = "device_inventory"
  /\ WireForm("source_availability") = "source_availability"
  /\ WireForm("library_scan_finished") = "library_scan_finished"
  /\ \A kind \in SyncEvents \cup {"sync_accepted"} : WireForm(kind) = kind
BY DEF WireForm, Forms, MutationForms, SnapshotForms, PreviewForms, Joined, SyncEvents

\* No answer to a command becomes an event that changes what a client believes.
LEMMA QuietForms ==
  \A kind \in Quiet :
    WireForm(kind) \notin SyncEvents \cup {"device_inventory", "sync_accepted", "source_availability"}
BY DEF WireForm, Forms, MutationForms, SnapshotForms, PreviewForms, Joined, SyncEvents, Quiet

\* An event is written with its fields, under the kind of its form.
LEMMA WrittenForm ==
  ASSUME NEW e, "kind" \in DOMAIN e
  PROVE  /\ Written(e) = [e EXCEPT !.kind = WireForm(e.kind)]
         /\ Written(e).kind = WireForm(e.kind)
         /\ DOMAIN Written(e) = DOMAIN e
         /\ \A f \in DOMAIN e \ {"kind"} : Written(e)[f] = e[f]
BY DEF Written

-----------------------------------------------------------------------------
(* What a client learns.                                                   *)

\* A client that reads an event learns what the event says, whatever else it
\* shows.
LEMMA LearnSeen ==
  ASSUME NEW v \in Views, NEW e, e.kind \notin Formless, Serializes(Written(e))
  PROVE  Belief(Seen(v, Written(e))) = Learn(Belief(v), e)
<1> DEFINE m == Written(e)
<1>1. Seen(v, m) = Learnt(v, m)
  BY DEF Seen, DesktopAdmits, Serializes
<1>2. Learn(Belief(v), e) = LearnForm(Belief(v), m)
  BY DEF Learn
<1> SUFFICES Belief(Learnt(v, m)) = LearnForm(Belief(v), m)
  BY <1>1, <1>2
<1> HIDE DEF m
<1>3. CASE m.kind = "device_inventory"
  <2>1. Learnt(v, m) = UpdateActiveSessions(v, m) BY <1>3 DEF Learnt, SyncEvents
  <2>2. LearnForm(Belief(v), m) = LearnInventory(Belief(v), m) BY <1>3 DEF LearnForm, SyncEvents
  <2>3. Belief(UpdateActiveSessions(v, m)) = LearnInventory(Belief(v), m)
    BY DEF UpdateActiveSessions, LearnInventory, Belief, Views
  <2> QED BY <2>1, <2>2, <2>3
<1>4. CASE m.kind = "sync_accepted"
  <2>1. Learnt(v, m) = [v EXCEPT !.route[m.device] = m.session] BY <1>4 DEF Learnt, SyncEvents
  <2>2. LearnForm(Belief(v), m) = [Belief(v) EXCEPT !.route[m.device] = m.session]
    BY <1>4 DEF LearnForm, SyncEvents
  <2> QED BY <2>1, <2>2 DEF Belief, Views
<1>5. CASE m.kind = "source_availability"
  <2>1. Learnt(v, m) = [v EXCEPT !.source = m.state] BY <1>5 DEF Learnt, SyncEvents
  <2>2. LearnForm(Belief(v), m) = [Belief(v) EXCEPT !.source = m.state]
    BY <1>5 DEF LearnForm, SyncEvents
  <2> QED BY <2>1, <2>2 DEF Belief, Views
<1>6. CASE m.kind \in SyncEvents
  <2>1. Learnt(v, m) = Shown(v, m) BY <1>6 DEF Learnt, SyncEvents
  <2>2. LearnForm(Belief(v), m) = LearnProgress(Belief(v), m) BY <1>6 DEF LearnForm, SyncEvents
  <2>3. Belief(Shown(v, m)) = LearnProgress(Belief(v), m)
    <3>1. CASE v.route[m.device] # m.session
      BY <3>1 DEF Shown, LearnProgress, Belief
    <3>2. CASE v.route[m.device] = m.session
      <4> DEFINE unasked == [v EXCEPT !.shown = NoView.shown, !.answered = FALSE]
      <4>0. Belief(v).route[m.device] = m.session BY <3>2 DEF Belief
      <4>1. CASE m.kind = "prompt"
        BY <3>2, <4>0, <4>1 DEF Shown, LearnProgress, Belief, Views, Notice
      <4>2. CASE m.kind = "sync_log"
        BY <3>2, <4>0, <4>2 DEF Shown, LearnProgress, Belief, Views, Notice
      <4>3. CASE m.kind \in {"sync_paused", "sync_cancelled"}
        <5>1. Shown(v, m) = [unasked EXCEPT !.awaiting = @ \cup {m.device}]
          BY <3>2, <4>3 DEF Shown
        <5>2. LearnProgress(Belief(v), m) = [Belief(v) EXCEPT !.awaiting = @ \cup {m.device}]
          BY <4>0, <4>3 DEF LearnProgress, Notice
        <5> QED BY <5>1, <5>2 DEF Belief, Views
      <4>4. CASE m.kind = "sync_finished"
        <5>1. Shown(v, m) = [unasked EXCEPT !.awaiting = @ \ {m.device},
                                            !.route[m.device] = NoSession]
          BY <3>2, <4>4 DEF Shown
        <5>2. LearnProgress(Belief(v), m) = [Belief(v) EXCEPT !.awaiting = @ \ {m.device},
                                                  !.route[m.device] = NoSession]
          BY <4>0, <4>4 DEF LearnProgress, Notice
        <5> QED BY <5>1, <5>2 DEF Belief, Views
      <4>5. CASE m.kind \notin {"prompt", "sync_log", "sync_paused", "sync_cancelled", "sync_finished"}
        <5>1. Shown(v, m) = unasked BY <3>2, <4>5 DEF Shown
        <5>2. LearnProgress(Belief(v), m) = Belief(v) BY <4>0, <4>5 DEF LearnProgress, Notice
        <5> QED BY <5>1, <5>2 DEF Belief, Views
      <4> QED BY <4>1, <4>2, <4>3, <4>4, <4>5
    <3> QED BY <3>1, <3>2
  <2> QED BY <2>1, <2>2, <2>3
<1>7. CASE m.kind \notin {"device_inventory", "sync_accepted", "source_availability"} \cup SyncEvents
  <2>1. LearnForm(Belief(v), m) = Belief(v) BY <1>7 DEF LearnForm, SyncEvents
  <2>2. Learnt(v, m) \in {v, [v EXCEPT !.answered = FALSE]} BY <1>7 DEF Learnt, SyncEvents
  <2>3. Belief([v EXCEPT !.answered = FALSE]) = Belief(v) BY DEF Belief, Views
  <2> QED BY <2>1, <2>2, <2>3
<1> QED BY <1>3, <1>4, <1>5, <1>6, <1>7

\* An answer to its own command tells a client nothing of the sessions.
LEMMA ResponseSeen ==
  ASSUME NEW v \in Views, NEW e \in Responses
  PROVE  /\ Belief(Seen(v, Written(e))) = Belief(v)
         /\ Seen(v, Written(e)) \in Views
<1> DEFINE m == Written(e)
<1>1. m.kind = WireForm(e.kind) /\ e.kind \in Quiet
  BY WrittenForm DEF Responses
<1>2. m.kind \notin SyncEvents \cup {"device_inventory", "sync_accepted", "source_availability"}
  BY <1>1, QuietForms
<1> HIDE DEF m
<1>3. Seen(v, m) \in {v, [v EXCEPT !.answered = FALSE]}
  BY <1>2 DEF Seen, Learnt, SyncEvents
<1>4. [v EXCEPT !.answered = FALSE] \in Views BY DEF Views
<1>5. Belief([v EXCEPT !.answered = FALSE]) = Belief(v) BY DEF Belief, Views
<1> QED BY <1>3, <1>4, <1>5 DEF m

\* What a view makes of progress is a view.
LEMMA ShownView ==
  ASSUME NEW v \in Views, NEW m, m.device \in Devices, m.session \in Nat,
         m.kind = "prompt" => m.prompt \in Nat
  PROVE  Shown(v, m) \in Views
<1> DEFINE unasked == [v EXCEPT !.shown = NoView.shown, !.answered = FALSE]
<1>1. NoView.shown \in [session : Nat, prompt : Nat] BY DEF NoView, NoSession
<1>2. unasked \in Views BY <1>1 DEF Views
<1>3. [unasked EXCEPT !.awaiting = @ \cup {m.device}] \in Views BY <1>2 DEF Views
<1>4. [unasked EXCEPT !.awaiting = @ \ {m.device}, !.route[m.device] = NoSession] \in Views
  <2> HIDE DEF unasked
  <2> QED BY <1>2 DEF Views, NoSession
<1>5. [v EXCEPT !.answered = FALSE] \in Views BY DEF Views
<1>6. m.kind = "prompt" =>
        [v EXCEPT !.shown = [session |-> m.session, prompt |-> m.prompt], !.answered = FALSE] \in Views
  <2> SUFFICES ASSUME m.prompt \in Nat
               PROVE  [v EXCEPT !.shown = [session |-> m.session, prompt |-> m.prompt],
                                !.answered = FALSE] \in Views
    OBVIOUS
  <2> DEFINE s == [session |-> m.session, prompt |-> m.prompt]
  <2>1. s \in [session : Nat, prompt : Nat] OBVIOUS
  <2> HIDE DEF s
  <2>2. [v EXCEPT !.shown = s, !.answered = FALSE] \in Views BY <2>1 DEF Views
  <2> QED BY <2>2 DEF s
<1> HIDE DEF unasked
<1>7. CASE v.route[m.device] # m.session
  BY <1>7 DEF Shown
<1>8. CASE v.route[m.device] = m.session
  <2>1. CASE m.kind = "prompt"
    <3>1. Shown(v, m) = [v EXCEPT !.shown = [session |-> m.session, prompt |-> m.prompt],
                                  !.answered = FALSE]
      BY <1>8, <2>1 DEF Shown
    <3> QED BY <3>1, <1>6, <2>1
  <2>2. CASE m.kind = "sync_log" BY <1>8, <2>2, <1>5 DEF Shown
  <2>3. CASE m.kind \in {"sync_paused", "sync_cancelled"}
    BY <1>8, <2>3, <1>3 DEF Shown, unasked
  <2>4. CASE m.kind = "sync_finished" BY <1>8, <2>4, <1>4 DEF Shown, unasked
  <2>5. CASE m.kind \notin {"prompt", "sync_log", "sync_paused", "sync_cancelled", "sync_finished"}
    BY <1>8, <2>5, <1>2 DEF Shown, unasked
  <2> QED BY <2>1, <2>2, <2>3, <2>4, <2>5
<1> QED BY <1>7, <1>8

\* What is read keeps a view a view.
LEMMA SeenView ==
  ASSUME NEW v \in Views, NEW e \in Events
  PROVE  Seen(v, Written(e)) \in Views
<1> DEFINE m == Written(e)
<1> SUFFICES Learnt(v, m) \in Views
  BY DEF Seen
<1>1. CASE e \in [kind : {"status_update"}]
  <2>1. m.kind = WireForm("status_update") BY <1>1, WrittenForm
  <2>2. WireForm("status_update") = "status_update"
    BY DEF WireForm, Forms, MutationForms, SnapshotForms, PreviewForms, Joined
  <2> HIDE DEF m
  <2> QED BY <2>1, <2>2 DEF Learnt, SyncEvents
<1>2. CASE e \in [kind : {"device_inventory_snapshot"}, revision : Nat,
                  devices : [Devices -> Snapshots]]
  <2>1. m.kind = "device_inventory" /\ m.revision \in Nat /\ m.devices \in [Devices -> Snapshots]
    BY <1>2, WrittenForm, WireForms
  <2> HIDE DEF m
  <2>2. \A d \in Devices : m.devices[d].session \in Nat BY <2>1 DEF Snapshots
  <2>3. Learnt(v, m) = UpdateActiveSessions(v, m) BY <2>1 DEF Learnt, SyncEvents
  <2> DEFINE route == [d \in Devices |->
               IF m.devices[d].session # NoSession THEN m.devices[d].session
               ELSE IF d \in v.awaiting THEN v.route[d] ELSE NoSession]
             awaiting == {d \in v.awaiting : m.devices[d].session = NoSession}
  <2>4. route \in [Devices -> Nat] /\ awaiting \in SUBSET Devices
    BY <2>2 DEF Views, NoSession
  <2>5. Learnt(v, m) \in {v, [v EXCEPT !.revision = m.revision, !.route = route, !.awaiting = awaiting]}
    BY <2>3 DEF UpdateActiveSessions
  <2> HIDE DEF route, awaiting
  <2>6. [v EXCEPT !.revision = m.revision, !.route = route, !.awaiting = awaiting] \in Views
    BY <2>1, <2>4 DEF Views
  <2> QED BY <2>5, <2>6
<1>3. CASE e \in [kind : {"source_availability"}, state : Sources, rooted : BOOLEAN]
  <2>1. m.kind = "source_availability" /\ m.state \in Sources
    BY <1>3, WrittenForm, WireForms
  <2> HIDE DEF m
  <2>3. Learnt(v, m) = [v EXCEPT !.source = m.state] BY <2>1 DEF Learnt, SyncEvents
  <2> QED BY <2>1, <2>3 DEF Views
<1>4. CASE e \in [kind : (SyncEvents \ {"prompt"}) \cup {"sync_accepted"}, device : Devices, session : Nat]
  <2>1. m.kind \in (SyncEvents \ {"prompt"}) \cup {"sync_accepted"} /\ m.device \in Devices /\ m.session \in Nat
    BY <1>4, WrittenForm, WireForms
  <2> HIDE DEF m
  <2>2. CASE m.kind = "sync_accepted"
    BY <2>1, <2>2 DEF Learnt, Views, SyncEvents
  <2>3. CASE m.kind # "sync_accepted"
    <3>1. Learnt(v, m) = Shown(v, m) /\ m.kind # "prompt" BY <2>1, <2>3 DEF Learnt, SyncEvents
    <3> QED BY <2>1, <3>1, ShownView
  <2> QED BY <2>2, <2>3
<1>5. CASE e \in [kind : {"prompt"}, device : Devices, session : Nat, prompt : Nat, options : Nat]
  <2>1. m.kind = "prompt" /\ m.device \in Devices /\ m.session \in Nat /\ m.prompt \in Nat
    BY <1>5, WrittenForm, WireForms DEF SyncEvents
  <2> HIDE DEF m
  <2>2. Learnt(v, m) = Shown(v, m) BY <2>1 DEF Learnt, SyncEvents
  <2> QED BY <2>1, <2>2, ShownView
<1>6. CASE e \in [kind : {"library_scan_finished"}, device : {NoDevice}, session : Nat]
  <2>1. m.kind = "library_scan_finished" BY <1>6, WrittenForm, WireForms
  <2> HIDE DEF m
  <2> QED BY <2>1 DEF Learnt, SyncEvents
<1> QED BY <1>1, <1>2, <1>3, <1>4, <1>5, <1>6 DEF Events

-----------------------------------------------------------------------------
(* Traces.                                                                 *)

\* A view's belief is a belief.
LEMMA BeliefType == \A v \in Views : Belief(v) \in Beliefs
BY DEF Views, Belief, Beliefs

\* With nothing to read one goes on believing what one believes.
LEMMA LeadsNothing ==
  ASSUME NEW b \in Beliefs
  PROVE  /\ Leads(b, <<>>, b)
         /\ \A w : Leads(b, <<>>, w) => w = b
<1>1. <<>> \in Seq(Events) /\ Len(<<>>) = 0 OBVIOUS
<1>2. Leads(b, <<>>, b)
  <2> DEFINE t == [i \in 0..0 |-> b]
  <2>1. t \in [0..Len(<<>>) -> Beliefs] /\ t[0] = b /\ t[Len(<<>>)] = b BY <1>1
  <2> HIDE DEF t
  <2>2. \A i \in 1..Len(<<>>) : Legal(<<>>[i]) /\ t[i] = Learn(t[i - 1], <<>>[i]) BY <1>1
  <2> QED BY <1>1, <2>1, <2>2 DEF Leads
<1>3. \A w : Leads(b, <<>>, w) => w = b BY <1>1 DEF Leads
<1> QED BY <1>2, <1>3

\* One event.
LEMMA LeadsOne ==
  ASSUME NEW b \in Beliefs, NEW e \in Events, Legal(e), Learn(b, e) \in Beliefs
  PROVE  Leads(b, <<e>>, Learn(b, e))
<1> DEFINE t == [i \in 0..1 |-> IF i = 0 THEN b ELSE Learn(b, e)]
<1>1. <<e>> \in Seq(Events) /\ Len(<<e>>) = 1 /\ <<e>>[1] = e OBVIOUS
<1>2. t \in [0..Len(<<e>>) -> Beliefs] /\ t[0] = b /\ t[Len(<<e>>)] = Learn(b, e) BY <1>1
<1>3. \A i \in 1..Len(<<e>>) : Legal(<<e>>[i]) /\ t[i] = Learn(t[i - 1], <<e>>[i])
  <2> SUFFICES ASSUME NEW i \in 1..1 PROVE Legal(<<e>>[i]) /\ t[i] = Learn(t[i - 1], <<e>>[i])
    BY <1>1
  <2>1. i = 1 OBVIOUS
  <2>2. t[1] = Learn(b, e) /\ t[0] = b OBVIOUS
  <2> HIDE DEF t
  <2> QED BY <1>1, <2>1, <2>2
<1> HIDE DEF t
<1> QED BY <1>1, <1>2, <1>3 DEF Leads

\* What is told later is learnt after what is still to be read.
LEMMA LeadsConcat ==
  ASSUME NEW b, NEW w, NEW u, NEW q, NEW r, Leads(b, q, w), Leads(w, r, u)
  PROVE  Leads(b, q \o r, u)
<1>1. q \in Seq(Events) /\ r \in Seq(Events) BY DEF Leads
<1>2. PICK t \in [0..Len(q) -> Beliefs] :
        /\ t[0] = b /\ t[Len(q)] = w
        /\ \A i \in 1..Len(q) : Legal(q[i]) /\ t[i] = Learn(t[i - 1], q[i])
  BY DEF Leads
<1>3. PICK s \in [0..Len(r) -> Beliefs] :
        /\ s[0] = w /\ s[Len(r)] = u
        /\ \A i \in 1..Len(r) : Legal(r[i]) /\ s[i] = Learn(s[i - 1], r[i])
  BY DEF Leads
<1> DEFINE all == q \o r
           n == Len(q)
           x == [i \in 0..Len(all) |-> IF i <= n THEN t[i] ELSE s[i - n]]
<1>4. /\ all \in Seq(Events) /\ Len(all) = n + Len(r) /\ n \in Nat /\ Len(r) \in Nat
      /\ \A i \in 1..Len(all) : all[i] = IF i <= n THEN q[i] ELSE r[i - n]
  BY <1>1, ConcatProperties, LenProperties
<1>5. \A i \in 0..Len(all) : x[i] = IF i <= n THEN t[i] ELSE s[i - n] OBVIOUS
<1>6. x \in [0..Len(all) -> Beliefs]
  <2> SUFFICES ASSUME NEW i \in 0..Len(all) PROVE (IF i <= n THEN t[i] ELSE s[i - n]) \in Beliefs
    OBVIOUS
  <2>1. i <= n => i \in 0..n BY <1>4
  <2>2. ~(i <= n) => i - n \in 0..Len(r) BY <1>4
  <2> QED BY <1>2, <1>3, <2>1, <2>2
<1> HIDE DEF all, n, x
<1>7. x[0] = b /\ x[Len(all)] = u
  <2>1. x[0] = t[0] BY <1>4, <1>5
  <2>2. CASE Len(r) = 0 BY <2>1, <2>2, <1>2, <1>3, <1>4, <1>5 DEF n
  <2>3. CASE Len(r) # 0
    <3>1. Len(all) \in 0..Len(all) /\ ~(Len(all) <= n) /\ Len(all) - n = Len(r) BY <1>4, <2>3
    <3> QED BY <2>1, <3>1, <1>2, <1>3, <1>5
  <2> QED BY <2>2, <2>3
<1>8. ASSUME NEW i \in 1..Len(all)
      PROVE  Legal(all[i]) /\ x[i] = Learn(x[i - 1], all[i])
  <2>1. CASE i <= n
    <3>1. i \in 1..n /\ i \in 0..Len(all) /\ i - 1 \in 0..Len(all) /\ i - 1 <= n BY <1>4, <2>1
    <3>2. all[i] = q[i] /\ x[i] = t[i] /\ x[i - 1] = t[i - 1] BY <1>4, <1>5, <2>1, <3>1
    <3> QED BY <1>2, <3>1, <3>2 DEF n
  <2>2. CASE ~(i <= n)
    <3>1. i - n \in 1..Len(r) /\ i \in 0..Len(all) /\ i - 1 \in 0..Len(all) BY <1>4, <2>2
    <3>2. all[i] = r[i - n] /\ x[i] = s[i - n] BY <1>4, <1>5, <2>2, <3>1
    <3>3. x[i - 1] = s[(i - n) - 1]
      <4>1. CASE i - 1 <= n
        <5>1. i - 1 = n /\ (i - n) - 1 = 0 BY <4>1, <2>2, <1>4
        <5>2. x[i - 1] = t[n] BY <5>1, <3>1, <1>5, <1>4
        <5> QED BY <5>1, <5>2, <1>2, <1>3 DEF n
      <4>2. CASE ~(i - 1 <= n)
        <5>1. (i - 1) - n = (i - n) - 1 BY <1>4
        <5> QED BY <4>2, <5>1, <3>1, <1>5
      <4> QED BY <4>1, <4>2
    <3> QED BY <1>3, <3>1, <3>2, <3>3
  <2> QED BY <2>1, <2>2
<1> QED BY <1>4, <1>6, <1>7, <1>8 DEF Leads, all

\* The next event is read.
LEMMA LeadsHead ==
  ASSUME NEW b, NEW w, NEW q, Leads(b, q, w), q # <<>>
  PROVE  /\ Legal(Head(q)) /\ Learn(b, Head(q)) \in Beliefs
         /\ Leads(Learn(b, Head(q)), Tail(q), w)
<1>1. q \in Seq(Events) BY DEF Leads
<1>2. PICK t \in [0..Len(q) -> Beliefs] :
        /\ t[0] = b /\ t[Len(q)] = w
        /\ \A i \in 1..Len(q) : Legal(q[i]) /\ t[i] = Learn(t[i - 1], q[i])
  BY DEF Leads
<1>3. /\ Tail(q) \in Seq(Events) /\ Len(Tail(q)) = Len(q) - 1 /\ Len(q) \in Nat /\ Len(q) >= 1
      /\ \A i \in 1..Len(Tail(q)) : Tail(q)[i] = q[i + 1]
      /\ Head(q) = q[1]
  BY <1>1, HeadTailProperties, EmptySeq, LenProperties
<1> DEFINE r == Tail(q)
           x == [i \in 0..Len(r) |-> t[i + 1]]
<1>4. \A i \in 0..Len(r) : x[i] = t[i + 1] /\ i + 1 \in 0..Len(q) BY <1>3
<1>5. x \in [0..Len(r) -> Beliefs] BY <1>2, <1>4
<1>6. 1 \in 1..Len(q) BY <1>3
<1>7. Legal(Head(q)) /\ t[1] = Learn(b, Head(q)) /\ t[1] \in Beliefs
  <2>1. t[1] \in Beliefs BY <1>2, <1>3
  <2>2. 1 - 1 = 0 OBVIOUS
  <2> QED BY <1>2, <1>3, <1>6, <2>1, <2>2
<1> HIDE DEF r, x
<1>8. x[0] = Learn(b, Head(q)) /\ x[Len(r)] = w
  <2>1. 0 \in 0..Len(r) /\ Len(r) \in 0..Len(r) /\ Len(r) + 1 = Len(q) /\ 0 + 1 = 1 BY <1>3 DEF r
  <2> QED BY <2>1, <1>2, <1>4, <1>7
<1>9. ASSUME NEW i \in 1..Len(r)
      PROVE  Legal(r[i]) /\ x[i] = Learn(x[i - 1], r[i])
  <2>1. i + 1 \in 1..Len(q) /\ i \in 0..Len(r) /\ i - 1 \in 0..Len(r) /\ (i - 1) + 1 = i
        /\ (i + 1) - 1 = i
    BY <1>3 DEF r
  <2>2. r[i] = q[i + 1] BY <1>3 DEF r
  <2>3. x[i] = t[i + 1] /\ x[i - 1] = t[i] BY <1>4, <2>1
  <2> QED BY <1>2, <2>1, <2>2, <2>3
<1> QED BY <1>3, <1>5, <1>7, <1>8, <1>9 DEF Leads, r

-----------------------------------------------------------------------------
(* Queues.                                                                 *)

\* What is doomed stays so when more is told.
LEMMA DoomedConcat ==
  ASSUME NEW q \in Seq(Events), NEW r \in Seq(Events), Doomed(q) \/ Doomed(r)
  PROVE  Doomed(q \o r)
<1>1. /\ Len(q \o r) = Len(q) + Len(r) /\ Len(q) \in Nat /\ Len(r) \in Nat
      /\ \A i \in 1..Len(q) + Len(r) : (q \o r)[i] = IF i <= Len(q) THEN q[i] ELSE r[i - Len(q)]
  BY ConcatProperties, LenProperties
<1>2. CASE Doomed(q)
  <2>1. PICK i \in 1..Len(q) : ~Legal(q[i]) BY <1>2 DEF Doomed
  <2>2. i \in 1..Len(q \o r) /\ (q \o r)[i] = q[i] BY <1>1
  <2> QED BY <2>1, <2>2 DEF Doomed
<1>3. CASE Doomed(r)
  <2>1. PICK i \in 1..Len(r) : ~Legal(r[i]) BY <1>3 DEF Doomed
  <2>2. Len(q) + i \in 1..Len(q \o r) /\ (q \o r)[Len(q) + i] = r[i] BY <1>1
  <2> QED BY <2>1, <2>2 DEF Doomed
<1> QED BY <1>2, <1>3

\* A legal event read does not save what is doomed.
LEMMA DoomedTail ==
  ASSUME NEW q \in Seq(Events), q # <<>>, Legal(Head(q)), Doomed(q)
  PROVE  Doomed(Tail(q))
<1>1. /\ Tail(q) \in Seq(Events) /\ Len(Tail(q)) = Len(q) - 1 /\ Len(q) \in Nat /\ Len(q) >= 1
      /\ \A i \in 1..Len(Tail(q)) : Tail(q)[i] = q[i + 1]
      /\ Head(q) = q[1]
  BY HeadTailProperties, EmptySeq, LenProperties
<1>2. PICK i \in 1..Len(q) : ~Legal(q[i]) BY DEF Doomed
<1>3. i # 1 BY <1>1, <1>2
<1>4. i - 1 \in 1..Len(Tail(q)) /\ Tail(q)[i - 1] = q[i] BY <1>1, <1>3
<1> QED BY <1>2, <1>4 DEF Doomed

\* One event that cannot be written.
LEMMA DoomedOne ==
  ASSUME NEW e \in Events, ~Legal(e)
  PROVE  Doomed(<<e>>)
<1>1. 1 \in 1..Len(<<e>>) /\ <<e>>[1] = e OBVIOUS
<1> QED BY <1>1 DEF Doomed

\* A client's queue is of events.
LEMMA UnreadType ==
  ASSUME NEW k, ClientShape(k)
  PROVE  /\ Unread(k) \in Seq(Events)
         /\ k.conn = "live" => Unread(k) = k.live
         /\ k.conn = "replaying" => /\ Unread(k) # <<>> /\ Head(Unread(k)) = Head(k.batch)
                                    /\ Tail(Unread(k)) = Tail(k.batch) \o k.live
<1>1. k.batch \in Seq(Events) /\ k.live \in Seq(Events) BY DEF ClientShape
<1>2. Unread(k) \in Seq(Events) BY <1>1, ConcatProperties DEF Unread
<1>3. k.conn = "live" => Unread(k) = k.live
  <2>1. k.conn = "live" => k.batch = <<>> BY DEF ClientShape
  <2> QED BY <1>1, <2>1, ConcatEmptySeq DEF Unread
<1>4. ASSUME k.conn = "replaying"
      PROVE  /\ Unread(k) # <<>> /\ Head(Unread(k)) = Head(k.batch)
             /\ Tail(Unread(k)) = Tail(k.batch) \o k.live
  <2> DEFINE b == k.batch
             l == k.live
  <2>1. b # <<>> BY <1>4 DEF ClientShape
  <2> HIDE DEF b, l
  <2>2. b \in Seq(Events) /\ l \in Seq(Events) BY <1>1 DEF b, l
  <2>3. /\ b \o l \in Seq(Events) /\ Len(b \o l) = Len(b) + Len(l)
        /\ \A i \in 1 .. Len(b) + Len(l) : (b \o l)[i] = IF i <= Len(b) THEN b[i] ELSE l[i - Len(b)]
    BY <2>2, ConcatProperties
  <2>4. Len(b) \in Nat \ {0} /\ Len(l) \in Nat BY <2>1, <2>2, EmptySeq, LenProperties
  <2>5. b \o l # <<>> BY <2>3, <2>4, EmptySeq
  <2>6. Head(b \o l) = Head(b)
    <3>1. Head(b \o l) = (b \o l)[1] /\ Head(b) = b[1]
      BY <2>1, <2>2, <2>3, <2>5, EmptySeq, HeadTailProperties
    <3> QED BY <3>1, <2>3, <2>4
  <2>7. Tail(b \o l) = Tail(b) \o l
    <3>1. /\ Tail(b \o l) \in Seq(Events) /\ Len(Tail(b \o l)) = Len(b) + Len(l) - 1
          /\ \A i \in 1..Len(b) + Len(l) - 1 : Tail(b \o l)[i] = (b \o l)[i + 1]
      BY <2>3, <2>5, HeadTailProperties
    <3>2. /\ Tail(b) \in Seq(Events) /\ Len(Tail(b)) = Len(b) - 1
          /\ \A i \in 1..Len(b) - 1 : Tail(b)[i] = b[i + 1]
      BY <2>1, <2>2, HeadTailProperties
    <3>3. /\ Tail(b) \o l \in Seq(Events) /\ Len(Tail(b) \o l) = Len(b) - 1 + Len(l)
          /\ \A i \in 1..Len(b) - 1 + Len(l) :
               (Tail(b) \o l)[i] = IF i <= Len(b) - 1 THEN Tail(b)[i] ELSE l[i - (Len(b) - 1)]
      BY <2>2, <3>2, ConcatProperties
    <3>4. Len(Tail(b \o l)) = Len(Tail(b) \o l) BY <2>4, <3>1, <3>3
    <3>5. ASSUME NEW i \in 1..Len(Tail(b \o l)) PROVE Tail(b \o l)[i] = (Tail(b) \o l)[i]
      <4>1. i \in 1..Len(b) + Len(l) - 1 /\ i \in 1..Len(b) - 1 + Len(l) /\ i + 1 \in 1..Len(b) + Len(l)
        BY <2>4, <3>1, <3>5
      <4>2. CASE i <= Len(b) - 1
        <5>1. i \in 1..Len(b) - 1 /\ i + 1 <= Len(b) BY <2>4, <4>1, <4>2
        <5> QED BY <2>3, <3>1, <3>2, <3>3, <4>1, <4>2, <5>1
      <4>3. CASE ~(i <= Len(b) - 1)
        <5>1. ~(i + 1 <= Len(b)) /\ i + 1 - Len(b) = i - (Len(b) - 1) BY <2>4, <4>1, <4>3
        <5> QED BY <2>3, <3>1, <3>3, <4>1, <4>3, <5>1
      <4> QED BY <4>2, <4>3
    <3> QED BY <3>1, <3>3, <3>4, <3>5, SeqEqual
  <2> QED BY <2>5, <2>6, <2>7 DEF Unread, b, l
<1> QED BY <1>2, <1>3, <1>4

\* A broadcast adds to the queue, or the client has lost an event.
LEMMA OvertakenIs ==
  ASSUME NEW k, ClientShape(k), Subscribed(k), NEW events \in Seq(Events)
  PROVE  LET l == Overtaken(k, events) IN
         /\ ClientShape(l)
         /\ l.conn = k.conn /\ l.batch = k.batch /\ l.replies = k.replies /\ l.view = k.view
         /\ ~l.lagged => ~k.lagged /\ Unread(l) = Unread(k) \o events
<1> DEFINE all == k.live \o events
           cut == SubSeq(all, Len(all) - Capacity + 1, Len(all))
           l == Overtaken(k, events)
<1>1. k.live \in Seq(Events) /\ k.batch \in Seq(Events) BY DEF ClientShape
<1>2. all \in Seq(Events) /\ Len(all) \in Nat BY <1>1, ConcatProperties, LenProperties
<1>3. k.batch \o all = Unread(k) \o events
  <2> DEFINE b == k.batch
             q == k.live
  <2>1. b \in Seq(Events) /\ q \in Seq(Events) BY <1>1
  <2> HIDE DEF b, q
  <2>2. (b \o q) \o events = b \o (q \o events) BY <2>1, ConcatAssociative
  <2> QED BY <2>2 DEF Unread, b, q
<1> HIDE DEF all, cut
<1>4. CASE Len(all) > Capacity
  <2>1. Capacity \in Nat \ {0} BY ClientsAssumption
  <2>2. \A i \in (Len(all) - Capacity + 1)..Len(all) : i \in 1..Len(all) BY <1>2, <1>4, <2>1
  <2>3. \A i \in (Len(all) - Capacity + 1)..Len(all) : all[i] \in Events
    BY <1>2, <2>2, ElementOfSeq
  <2>4. Len(all) - Capacity + 1 \in Int /\ Len(all) \in Int BY <1>2, <2>1
  <2>5. cut \in Seq(Events) BY <2>3, <2>4, SubSeqProperties DEF cut
  <2>6. l = [k EXCEPT !.live = cut, !.lagged = TRUE] BY <1>4 DEF Overtaken, all, cut
  <2> HIDE DEF l
  <2>7. /\ l.conn = k.conn /\ l.batch = k.batch /\ l.replies = k.replies /\ l.view = k.view
        /\ l.live = cut /\ l.lagged = TRUE /\ DOMAIN l = DOMAIN k
    BY <2>6 DEF ClientShape, NoClient
  <2>8. ClientShape(l) BY <2>5, <2>7 DEF ClientShape, Subscribed
  <2> QED BY <2>7, <2>8 DEF l
<1>5. CASE ~(Len(all) > Capacity)
  <2>6. l = [k EXCEPT !.live = all] BY <1>5 DEF Overtaken, all
  <2> HIDE DEF l
  <2>7. /\ l.conn = k.conn /\ l.batch = k.batch /\ l.replies = k.replies /\ l.view = k.view
        /\ l.live = all /\ l.lagged = k.lagged /\ DOMAIN l = DOMAIN k
    BY <2>6 DEF ClientShape, NoClient
  <2>8. ClientShape(l) BY <1>2, <2>7 DEF ClientShape, Subscribed
  <2>9. Unread(l) = Unread(k) \o events BY <1>3, <2>7 DEF Unread, all
  <2> QED BY <2>7, <2>8, <2>9 DEF l
<1> QED BY <1>4, <1>5

-----------------------------------------------------------------------------
(* What is broadcast.                                                      *)

\* Whoever has lost nothing has the events after what it had to read.
More(events) ==
  \A c \in Clients :
    Subscribed(client'[c]) /\ ~client'[c].lagged =>
      /\ Subscribed(client[c]) /\ ~client[c].lagged
      /\ Unread(client'[c]) = Unread(client[c]) \o events
      /\ Belief(client'[c].view) = Belief(client[c].view)

\* The clients are of their shape.
ClientsShape == DOMAIN client = Clients /\ \A c \in Clients : ClientShape(client[c])

\* What everybody is told leaves clients of their shape, each with what it
\* had to read and the events after it.
LEMMA ToldIs ==
  ASSUME ClientsShape, NEW events \in Seq(Events), client' = Told(client, events)
  PROVE  ClientsShape' /\ More(events)
<1>1. DOMAIN client' = Clients
      /\ \A c \in Clients : client'[c] = IF Subscribed(client[c]) THEN Overtaken(client[c], events)
                                         ELSE client[c]
  BY DEF Told
<1>2. ASSUME NEW c \in Clients
      PROVE  /\ ClientShape(client'[c])
             /\ Subscribed(client'[c]) /\ ~client'[c].lagged =>
                  /\ Subscribed(client[c]) /\ ~client[c].lagged
                  /\ Unread(client'[c]) = Unread(client[c]) \o events
                  /\ Belief(client'[c].view) = Belief(client[c].view)
  <2> DEFINE k == client[c]
  <2>1. ClientShape(k) BY DEF ClientsShape
  <2>2. client'[c] = IF Subscribed(k) THEN Overtaken(k, events) ELSE k BY <1>1
  <2> HIDE DEF k
  <2>3. CASE Subscribed(k)
    <3> DEFINE l == Overtaken(k, events)
    <3>1. /\ ClientShape(l) /\ l.view = k.view
          /\ ~l.lagged => ~k.lagged /\ Unread(l) = Unread(k) \o events
      BY <2>1, <2>3, OvertakenIs
    <3>2. client'[c] = l BY <2>2, <2>3
    <3> HIDE DEF l
    <3> QED BY <3>1, <3>2, <2>3 DEF k
  <2>4. CASE ~Subscribed(k) BY <2>1, <2>2, <2>4 DEF k
  <2> QED BY <2>3, <2>4
<1>3. ClientsShape' BY <1>1, <1>2 DEF ClientsShape
<1>4. More(events) BY <1>2 DEF More
<1> QED BY <1>3, <1>4

\* Clients that are left alone have read no less.
LEMMA NothingTold ==
  ASSUME ClientsShape, client' = client
  PROVE  ClientsShape' /\ More(<<>>)
<1>1. \A c \in Clients : Unread(client[c]) \o <<>> = Unread(client[c])
  BY UnreadType, ConcatEmptySeq DEF ClientsShape
<1>2. ClientsShape' BY DEF ClientsShape
<1> QED BY <1>1, <1>2 DEF More

\* If whoever knows what the daemon knows will know it again after the
\* events, nobody is misled.
LEMMA BeliefKept ==
  ASSUME ClientsShape, BeliefInv, NEW events \in Seq(Events), More(events),
         \A w \in Beliefs : Knows(w) =>
           Doomed(events) \/ \E u \in Beliefs : Leads(w, events, u) /\ Knows(u)'
  PROVE  BeliefInv'
<1> SUFFICES ASSUME NEW c \in Clients, Subscribed(client'[c]), ~client'[c].lagged
             PROVE  \/ Doomed(Unread(client'[c]))
                    \/ \E u \in Beliefs : Leads(Belief(client'[c].view), Unread(client'[c]), u) /\ Knows(u)'
  BY DEF BeliefInv, Informed
<1> DEFINE q == Unread(client[c])
           b == Belief(client[c].view)
<1>1. /\ Subscribed(client[c]) /\ ~client[c].lagged
      /\ Unread(client'[c]) = q \o events /\ Belief(client'[c].view) = b
  BY DEF More
<1>2. q \in Seq(Events) BY UnreadType DEF ClientsShape
<1>3. Doomed(q) \/ \E w \in Beliefs : Leads(b, q, w) /\ Knows(w)
  BY <1>1 DEF BeliefInv, Informed
<1> HIDE DEF q, b
<1>4. CASE Doomed(q) BY <1>1, <1>2, <1>4, DoomedConcat
<1>5. CASE \E w \in Beliefs : Leads(b, q, w) /\ Knows(w)
  <2>1. PICK w \in Beliefs : Leads(b, q, w) /\ Knows(w) BY <1>5
  <2>2. CASE Doomed(events) BY <1>1, <1>2, <2>2, DoomedConcat
  <2>3. CASE ~Doomed(events)
    <3>1. PICK u \in Beliefs : Leads(w, events, u) /\ Knows(u)' BY <2>1, <2>3
    <3>2. Leads(b, q \o events, u) BY <2>1, <3>1, LeadsConcat
    <3> QED BY <1>1, <3>1, <3>2
  <2> QED BY <2>2, <2>3
<1> QED BY <1>3, <1>4, <1>5

\* If nothing is told, what is known must be so still.
LEMMA BeliefStays ==
  ASSUME ClientsShape, BeliefInv, More(<<>>), \A w \in Beliefs : Knows(w) => Knows(w)'
  PROVE  BeliefInv'
<1>1. \A w \in Beliefs : Leads(w, <<>>, w) BY LeadsNothing
<1>2. <<>> \in Seq(Events) OBVIOUS
<1> QED BY <1>1, <1>2, BeliefKept

\* One event for everybody.
LEMMA BeliefTold ==
  ASSUME ClientsShape, BeliefInv, NEW e \in Events, More(<<e>>),
         \A w \in Beliefs : Knows(w) /\ Legal(e) => Learn(w, e) \in Beliefs /\ Knows(Learn(w, e))'
  PROVE  BeliefInv'
<1>1. <<e>> \in Seq(Events) OBVIOUS
<1>2. ASSUME NEW w \in Beliefs, Knows(w)
      PROVE  Doomed(<<e>>) \/ \E u \in Beliefs : Leads(w, <<e>>, u) /\ Knows(u)'
  <2>1. CASE Legal(e)
    <3>1. PICK u \in Beliefs : u = Learn(w, e) /\ Knows(u)' BY <1>2, <2>1
    <3>2. Leads(w, <<e>>, u) BY <2>1, <3>1, LeadsOne
    <3> QED BY <3>1, <3>2
  <2>2. CASE ~Legal(e) BY <2>2, DoomedOne
  <2> QED BY <2>1, <2>2
<1> QED BY <1>1, <1>2, BeliefKept

\* A client that has read one event is as well informed as before.
LEMMA ReadsOne ==
  ASSUME NEW k, NEW l, ClientShape(k), Unread(k) # <<>>, Legal(Head(Unread(k))),
         Unread(l) = Tail(Unread(k)), Belief(l.view) = Learn(Belief(k.view), Head(Unread(k))),
         Informed(k)
  PROVE  Informed(l)
<1>1. Unread(k) \in Seq(Events) BY UnreadType
<1>2. CASE Doomed(Unread(k)) BY <1>1, <1>2, DoomedTail DEF Informed
<1>3. CASE \E w \in Beliefs : Leads(Belief(k.view), Unread(k), w) /\ Knows(w)
  BY <1>3, LeadsHead DEF Informed
<1> QED BY <1>2, <1>3 DEF Informed

-----------------------------------------------------------------------------
(* What is said.                                                           *)

\* The source's state is an event, and what a client learns from it.
LEMMA SourceSaid ==
  ASSUME NEW s \in Sources, NEW w \in Beliefs
  PROVE  /\ SourceIs(s) \in Events
         /\ Learn(w, SourceIs(s)) = [w EXCEPT !.source = s]
         /\ [w EXCEPT !.source = s] \in Beliefs
<1> DEFINE e == SourceIs(s)
           m == Written(e)
<1>1. e \in Events BY DEF SourceIs, Events
<1>2. e.kind = "source_availability" /\ "kind" \in DOMAIN e /\ "state" \in DOMAIN e /\ e.state = s
  BY DEF SourceIs
<1> HIDE DEF e
<1>3. m.kind = "source_availability" /\ m.state = s BY <1>2, WrittenForm, WireForms
<1>4. Learn(w, e) = LearnForm(w, m) BY <1>2 DEF Learn, Formless
<1> HIDE DEF m
<1>5. LearnForm(w, m) = [w EXCEPT !.source = s] BY <1>3 DEF LearnForm, SyncEvents
<1>6. [w EXCEPT !.source = s] \in Beliefs BY DEF Beliefs
<1> QED BY <1>1, <1>4, <1>5, <1>6 DEF e

\* So is the announcement of a session.
LEMMA AcceptedSaid ==
  ASSUME NEW route \in Routes, route.device \in Devices, NEW w \in Beliefs
  PROVE  LET e == Routed("sync_accepted", route) IN
         /\ e \in Events
         /\ Learn(w, e) = [w EXCEPT !.route[route.device] = route.session]
         /\ [w EXCEPT !.route[route.device] = route.session] \in Beliefs
<1> DEFINE e == Routed("sync_accepted", route)
           m == Written(e)
<1>0. route.session \in Nat BY DEF Routes
<1>1. e \in Events BY <1>0 DEF Routed, Events
<1>2. /\ e.kind = "sync_accepted" /\ {"kind", "device", "session"} \subseteq DOMAIN e
      /\ e.device = route.device /\ e.session = route.session
  BY DEF Routed
<1> HIDE DEF e
<1>3. m.kind = "sync_accepted" /\ m.device = route.device /\ m.session = route.session
  BY <1>2, WrittenForm, WireForms
<1>4. Learn(w, e) = LearnForm(w, m) BY <1>2 DEF Learn, Formless
<1> HIDE DEF m
<1>5. LearnForm(w, m) = [w EXCEPT !.route[route.device] = route.session]
  BY <1>3 DEF LearnForm, SyncEvents
<1>6. [w EXCEPT !.route[route.device] = route.session] \in Beliefs BY <1>0 DEF Beliefs
<1> QED BY <1>1, <1>4, <1>5, <1>6 DEF e

\* A worker's progress is an event, and teaches what LearnProgress says.
LEMMA ProgressSaid ==
  ASSUME NEW e, NEW w \in Beliefs, e.kind \in SyncEvents, {"kind", "device", "session"} \subseteq DOMAIN e,
         e.device \in Devices
  PROVE  /\ Learn(w, e) = LearnProgress(w, e)
         /\ LearnProgress(w, e) \in Beliefs
<1> DEFINE m == Written(e)
<1>1. m.kind = e.kind /\ m.device = e.device /\ m.session = e.session
  BY WrittenForm, WireForms
<1>2. Learn(w, e) = LearnForm(w, m) BY DEF Learn, Formless, SyncEvents
<1> HIDE DEF m
<1>3. LearnForm(w, m) = LearnProgress(w, m) BY <1>1 DEF LearnForm, SyncEvents
<1>4. LearnProgress(w, m) = LearnProgress(w, e) BY <1>1 DEF LearnProgress
<1>5. [w EXCEPT !.awaiting = @ \cup {e.device}] \in Beliefs BY DEF Beliefs
<1>6. [w EXCEPT !.awaiting = @ \ {e.device}, !.route[e.device] = NoSession] \in Beliefs
  BY DEF Beliefs, NoSession
<1>7. LearnProgress(w, e) \in Beliefs BY <1>5, <1>6 DEF LearnProgress
<1> QED BY <1>2, <1>3, <1>4, <1>7

\* The end of a scan teaches nothing of the devices.
LEMMA ScanSaid ==
  ASSUME NEW e, NEW w \in Beliefs, e.kind = "library_scan_finished", "kind" \in DOMAIN e
  PROVE  Learn(w, e) = w
<1> DEFINE m == Written(e)
<1>1. m.kind = "library_scan_finished" BY WrittenForm, WireForms
<1>2. Learn(w, e) = LearnForm(w, m) BY DEF Learn, Formless
<1> HIDE DEF m
<1> QED BY <1>1, <1>2 DEF LearnForm, SyncEvents

\* The inventory is an event and names each device's session.
LEMMA InventorySaid ==
  ASSUME DaemonShape(daemon), NEW n \in Nat, NEW w \in Beliefs, w.revision <= n
  PROVE  /\ Inventory(n) \in Events
         /\ LET u == Learn(w, Inventory(n)) IN
            /\ u \in Beliefs /\ u.revision = n /\ u.source = w.source
            /\ \A d \in Devices :
                 u.route[d] = IF SessionOf(d) # NoSession THEN SessionOf(d)
                              ELSE IF d \in w.awaiting THEN w.route[d] ELSE NoSession
            /\ u.awaiting = {d \in w.awaiting : SessionOf(d) = NoSession}
<1> DEFINE e == Inventory(n)
           m == Written(e)
<1>1. \A d \in Devices : Snapshot(d) \in Snapshots
  <2>1. \A d \in Devices : Phase(d) \in {"disconnected", "syncing", "idle"} BY DEF Phase
  <2>2. daemon.active.session \in Nat BY DEF DaemonShape, Routes
  <2> QED BY <2>1, <2>2 DEF Snapshot, Snapshots, NoSession
<1>2. e \in Events BY <1>1 DEF Inventory, Events
<1>3. /\ e.kind = "device_inventory_snapshot" /\ {"kind", "revision", "devices"} \subseteq DOMAIN e
      /\ e.revision = n /\ e.devices = [d \in Devices |-> Snapshot(d)]
  BY DEF Inventory
<1> HIDE DEF e
<1>4. m.kind = "device_inventory" /\ m.revision = n /\ m.devices = [d \in Devices |-> Snapshot(d)]
  BY <1>3, WrittenForm, WireForms
<1>5. Learn(w, e) = LearnForm(w, m) BY <1>3 DEF Learn, Formless
<1> HIDE DEF m
<1>6. LearnForm(w, m) = LearnInventory(w, m) BY <1>4 DEF LearnForm, SyncEvents
<1>7. \A d \in Devices : m.devices[d].session = SessionOf(d)
  BY <1>4 DEF Snapshot, SessionOf
<1> DEFINE route == [d \in Devices |->
             IF m.devices[d].session # NoSession THEN m.devices[d].session
             ELSE IF d \in w.awaiting THEN w.route[d] ELSE NoSession]
           awaiting == {d \in w.awaiting : m.devices[d].session = NoSession}
<1>8. LearnInventory(w, m) = [w EXCEPT !.revision = n, !.route = route, !.awaiting = awaiting]
  <2>1. ~(m.revision < w.revision) BY <1>4 DEF Beliefs
  <2> QED BY <1>4, <2>1 DEF LearnInventory
<1>9. \A d \in Devices : SessionOf(d) \in Nat
  BY DEF SessionOf, DaemonShape, Routes, NoSession
<1>10. route \in [Devices -> Nat] /\ awaiting \in SUBSET Devices
  BY <1>7, <1>9 DEF Beliefs, NoSession
<1>11. \A d \in Devices :
         route[d] = IF SessionOf(d) # NoSession THEN SessionOf(d)
                    ELSE IF d \in w.awaiting THEN w.route[d] ELSE NoSession
  BY <1>7
<1>12. awaiting = {d \in w.awaiting : SessionOf(d) = NoSession}
  BY <1>7 DEF Beliefs
<1> HIDE DEF route, awaiting
<1> DEFINE u == [w EXCEPT !.revision = n, !.route = route, !.awaiting = awaiting]
<1>13. u \in Beliefs /\ u.revision = n /\ u.source = w.source /\ u.route = route /\ u.awaiting = awaiting
  BY <1>10 DEF Beliefs
<1>14. Learn(w, e) = u BY <1>5, <1>6, <1>8
<1> HIDE DEF u
<1> QED BY <1>2, <1>11, <1>12, <1>13, <1>14 DEF e

-----------------------------------------------------------------------------
(* What the daemon knows after a turn of the loop.                         *)

\* The active session of a turn that ends: the one it began with, none, or a
\* new one.
Admits ==
  \/ daemon'.active = daemon.active /\ daemon'.next = daemon.next
  \/ daemon'.active = Idle /\ daemon'.next = daemon.next
  \/ daemon'.active.session = daemon.next /\ daemon'.next = daemon.next + 1

\* Between the turn and the inventory it publishes, a client that knew knows.
LEMMA TurnKnows ==
  ASSUME Shapes, daemon.pc = "loop", daemon'.pc = "publish", daemon'.revision = daemon.revision,
         past'.abandoned = past.abandoned, Admits,
         NEW w \in Beliefs, Knows(w), NEW u \in Beliefs,
         u.revision = w.revision, u.awaiting = w.awaiting, u.source = daemon'.source,
         \/ u.route = w.route
         \/ /\ daemon'.active.device \in Devices /\ daemon'.active.session = daemon.next
            /\ daemon'.next = daemon.next + 1
            /\ u.route = [w.route EXCEPT ![daemon'.active.device] = daemon.next]
  PROVE  Knows(u)'
<1>1. daemon.next \in Nat \ {0} /\ daemon.revision \in Nat BY DEF Shapes, DaemonShape
<1>2. w.route \in [Devices -> Nat] /\ u.route \in [Devices -> Nat] BY DEF Beliefs
<1>3. ASSUME NEW d \in Devices
      PROVE  /\ w.route[d] < daemon.next
             /\ w.route[d] = daemon.active.session => w.route[d] = 0 \/ d = daemon.active.device
             /\ d \in w.awaiting => w.route[d] \in past.abandoned
  BY DEF Knows, KnowsDevice
<1>4. Idle.session = 0 BY DEF Idle, Route, NoSession
<1>5. ASSUME NEW d \in Devices
      PROVE  /\ u.route[d] < daemon'.next
             /\ u.route[d] = daemon'.active.session => u.route[d] = 0 \/ d = daemon'.active.device
             /\ d \in u.awaiting =>
                  \/ u.route[d] \in past'.abandoned
                  \/ u.route[d] # 0 /\ daemon'.active.device = d /\ u.route[d] = daemon'.active.session
  <2> DEFINE x == u.route[d]
             y == w.route[d]
  <2>1. x \in Nat /\ y \in Nat BY <1>2
  <2>2. CASE x = y
    <3>1. x < daemon.next BY <1>3, <2>2
    <3>2. daemon'.next = daemon.next \/ daemon'.next = daemon.next + 1 BY DEF Admits
    <3>3. x < daemon'.next BY <1>1, <2>1, <3>1, <3>2
    <3>4. x = daemon'.active.session => x = 0 \/ d = daemon'.active.device
      BY <1>1, <1>3, <1>4, <2>1, <2>2, <3>1 DEF Admits
    <3> QED BY <1>3, <2>2, <3>3, <3>4
  <2>3. CASE x # y
    <3>1. /\ d = daemon'.active.device /\ x = daemon.next /\ daemon'.active.session = daemon.next
          /\ daemon'.next = daemon.next + 1
      BY <1>2, <2>3
    <3> QED BY <1>1, <3>1
  <2> QED BY <2>2, <2>3
<1>6. u.revision <= daemon'.revision BY DEF Knows
<1> QED BY <1>5, <1>6 DEF Knows, KnowsDevice, SessionOf, NoSession

\* What a turn broadcasts: the source, if it has changed, then a session.
TurnTells(news, ann) ==
  /\ \/ news = <<>> /\ daemon'.source = daemon.source
     \/ news = <<SourceIs(daemon'.source)>>
  /\ \/ ann = <<>>
     \/ /\ ann = <<Routed("sync_accepted", daemon'.active)>>
        /\ daemon'.active.device \in Devices /\ daemon'.active.session = daemon.next
        /\ daemon'.next = daemon.next + 1
  /\ More(news \o ann)

\* After a turn of the loop whoever was informed before it is informed.
LEMMA TurnBelief ==
  ASSUME Shapes, BeliefInv, DaemonShape(daemon'), daemon.pc = "loop", daemon'.pc = "publish",
         daemon'.revision = daemon.revision, past'.abandoned = past.abandoned, Admits,
         NEW news, NEW ann, TurnTells(news, ann)
  PROVE  BeliefInv'
<1>1. daemon'.source \in Sources /\ daemon'.active \in Routes BY DEF DaemonShape
<1>2. ClientsShape BY DEF Shapes, ClientsShape
<1>3. news \in Seq(Events)
  <2>2. SourceIs(daemon'.source) \in Events BY <1>1 DEF SourceIs, Events
  <2>3. <<>> \in Seq(Events) /\ <<SourceIs(daemon'.source)>> \in Seq(Events) BY <2>2
  <2> QED BY <2>3 DEF TurnTells
<1>4. ann \in Seq(Events)
  <2>1. CASE ann = <<>> BY <2>1
  <2>2. CASE ann # <<>>
    <3>1. /\ ann = <<Routed("sync_accepted", daemon'.active)>>
          /\ daemon'.active.device \in Devices /\ daemon'.active.session \in Nat
      BY <1>1, <2>2 DEF TurnTells, Routes
    <3>2. Routed("sync_accepted", daemon'.active) \in Events BY <3>1 DEF Routed, Events
    <3> QED BY <3>1, <3>2
  <2> QED BY <2>1, <2>2
<1>5. ASSUME NEW w \in Beliefs, Knows(w)
      PROVE  Doomed(news \o ann) \/ \E u \in Beliefs : Leads(w, news \o ann, u) /\ Knows(u)'
  <2>0. PICK v \in Beliefs : v = [w EXCEPT !.source = daemon'.source]
    BY <1>1, SourceSaid
  <2>1. v.revision = w.revision /\ v.awaiting = w.awaiting /\ v.route = w.route
        /\ v.source = daemon'.source
    BY <2>0 DEF Beliefs
  <2>2. Doomed(news) \/ Leads(w, news, v)
    <3>1. CASE news = <<>> /\ daemon'.source = daemon.source
      <4>1. v = w BY <1>5, <2>0, <3>1 DEF Knows, Beliefs
      <4> QED BY <3>1, <4>1, LeadsNothing
    <3>2. CASE news = <<SourceIs(daemon'.source)>>
      <4>1. SourceIs(daemon'.source) \in Events /\ Learn(w, SourceIs(daemon'.source)) = v
        BY <1>1, <2>0, SourceSaid
      <4>2. CASE Legal(SourceIs(daemon'.source)) BY <2>1, <3>2, <4>1, <4>2, LeadsOne
      <4>3. CASE ~Legal(SourceIs(daemon'.source)) BY <3>2, <4>1, <4>3, DoomedOne
      <4> QED BY <4>2, <4>3
    <3> QED BY <3>1, <3>2 DEF TurnTells
  <2>3. Doomed(ann) \/ \E u \in Beliefs : Leads(v, ann, u) /\ Knows(u)'
    <3>1. CASE ann = <<>>
      <4>1. Knows(v)' BY <1>5, <2>1, TurnKnows
      <4> QED BY <2>1, <3>1, <4>1, LeadsNothing
    <3>2. CASE /\ ann = <<Routed("sync_accepted", daemon'.active)>>
               /\ daemon'.active.device \in Devices /\ daemon'.active.session = daemon.next
               /\ daemon'.next = daemon.next + 1
      <4> DEFINE e == Routed("sync_accepted", daemon'.active)
      <4>0. PICK u \in Beliefs : u = [v EXCEPT !.route[daemon'.active.device] = daemon'.active.session]
        BY <1>1, <3>2, AcceptedSaid
      <4>1. e \in Events /\ Learn(v, e) = u
        BY <1>1, <3>2, <4>0, AcceptedSaid
      <4>2. /\ u.revision = v.revision /\ u.awaiting = v.awaiting /\ u.source = v.source
            /\ u.route = [v.route EXCEPT ![daemon'.active.device] = daemon.next]
        BY <4>0, <3>2 DEF Beliefs
      <4> HIDE DEF e
      <4>3. Knows(u)' BY <1>5, <2>1, <3>2, <4>1, <4>2, TurnKnows
      <4>4. CASE Legal(e) 
        <5>1. Leads(v, <<e>>, u) BY <4>1, <4>4, LeadsOne
        <5> QED BY <5>1, <4>1, <4>3, <3>2 DEF e
      <4>5. CASE ~Legal(e) BY <3>2, <4>1, <4>5, DoomedOne DEF e
      <4> QED BY <4>4, <4>5
    <3> QED BY <3>1, <3>2 DEF TurnTells
  <2>4. CASE Doomed(news) \/ Doomed(ann) BY <1>3, <1>4, <2>4, DoomedConcat
  <2>5. CASE ~(Doomed(news) \/ Doomed(ann))
    <3>1. PICK u \in Beliefs : Leads(v, ann, u) /\ Knows(u)' BY <2>3, <2>5
    <3>2. Leads(w, news \o ann, u) BY <2>2, <2>5, <3>1, LeadsConcat
    <3> QED BY <3>1, <3>2
  <2> QED BY <2>4, <2>5
<1>6. news \o ann \in Seq(Events) BY <1>3, <1>4, ConcatProperties
<1>7. More(news \o ann) BY DEF TurnTells
<1> DEFINE all == news \o ann
<1> HIDE DEF all
<1>8. BeliefInv'
  <2>1. all \in Seq(Events) /\ More(all) BY <1>6, <1>7 DEF all
  <2>2. \A w \in Beliefs : Knows(w) => Doomed(all) \/ \E u \in Beliefs : Leads(w, all, u) /\ Knows(u)'
    BY <1>5 DEF all
  <2> QED BY <1>2, <2>1, <2>2, BeliefKept
<1> QED BY <1>8

-----------------------------------------------------------------------------
(* A turn of the loop.                                                     *)

\* A new session has started, in a process that has said nothing.
Fresh(d) ==
  /\ d.active = Idle
  /\ daemon'.active \in Routes /\ daemon'.active.session = d.next /\ daemon'.next = d.next + 1
  /\ run' = [NoRun EXCEPT !.route = daemon'.active, !.phase = "starting"]

\* The session is the one there was.
Same(d) ==
  /\ daemon'.active = d.active /\ daemon'.next = d.next
  /\ RunShape(run')
  /\ run'.phase = run.phase /\ run'.route = run.route /\ run'.finished = run.finished

\* The handler that went on with d is done.
GoesOn(d) ==
  /\ DaemonShape(daemon') /\ daemon'.pc = "publish" /\ daemon'.revision = d.revision
  /\ daemon'.commands = d.commands /\ daemon'.completed = d.completed
  /\ Same(d) \/ Fresh(d)

\* The announcement of a session is of the one that has just begun.
Accepted(d, ann) ==
  \/ ann = <<>>
  \/ /\ ann = <<Routed("sync_accepted", daemon'.active)>>
     /\ daemon'.active.device \in Devices /\ daemon'.active.session = d.next
     /\ daemon'.next = d.next + 1

\* A process that has just started.
LEMMA FreshRun ==
  ASSUME NEW route \in Routes
  PROVE  LET r == [NoRun EXCEPT !.route = route, !.phase = "starting"] IN
         /\ RunShape(r) /\ r.route = route /\ r.phase = "starting" /\ r.in = <<>>
         /\ r.finished = FALSE /\ RunShape(NoRun)
BY DEF NoRun, RunShape, Phases, Idle, Route, Routes, NoSession

\* What a launch leaves.
LEMMA LaunchedIs ==
  ASSUME NEW d, DaemonShape(d), d.active = Idle, NEW route \in Routes, route.session = d.next,
         Launched(d, route)
  PROVE  GoesOn(d) /\ daemon'.source = d.source /\ daemon'.active = route
         /\ daemon'.next = d.next + 1
<1>1. daemon' = [d EXCEPT !.active = route, !.next = @ + 1, !.pc = "publish"]
      /\ run' = [NoRun EXCEPT !.route = route, !.phase = "starting"]
  BY DEF Launched
<1>2. /\ DOMAIN daemon' = DOMAIN d /\ daemon'.active = route /\ daemon'.next = d.next + 1
      /\ daemon'.pc = "publish" /\ daemon'.revision = d.revision /\ daemon'.source = d.source
      /\ daemon'.connected = d.connected /\ daemon'.sync = d.sync /\ daemon'.after = d.after
      /\ daemon'.commands = d.commands /\ daemon'.completed = d.completed
  BY <1>1 DEF DaemonShape
<1>3. DaemonShape(daemon') BY <1>2 DEF DaemonShape
<1> QED BY <1>1, <1>2, <1>3 DEF GoesOn, Fresh

\* A handler that only comes to its end.
LEMMA EndsTurn ==
  ASSUME NEW d, DaemonShape(d), RunShape(run), daemon' = [d EXCEPT !.pc = "publish"],
         RunShape(run'), run'.phase = run.phase, run'.route = run.route, run'.finished = run.finished
  PROVE  GoesOn(d) /\ daemon'.source = d.source
<1>2. /\ DOMAIN daemon' = DOMAIN d /\ daemon'.active = d.active /\ daemon'.next = d.next
      /\ daemon'.pc = "publish" /\ daemon'.revision = d.revision /\ daemon'.source = d.source
      /\ daemon'.connected = d.connected /\ daemon'.sync = d.sync /\ daemon'.after = d.after
      /\ daemon'.commands = d.commands /\ daemon'.completed = d.completed
  BY DEF DaemonShape
<1>3. DaemonShape(daemon') BY <1>2 DEF DaemonShape
<1> QED BY <1>2, <1>3 DEF GoesOn, Same

\* A sync that starts at once.
LEMMA StartSyncIs ==
  ASSUME ClientsShape, NEW d, DaemonShape(d), d.next = daemon.next, d.active = Idle,
         NEW device \in Devices, NEW asked, NEW before \in Seq(Events),
         StartSync(d, device, asked, before)
  PROVE  /\ GoesOn(d) /\ daemon'.source = d.source /\ ClientsShape'
         /\ \E ann : Accepted(d, ann) /\ More(before \o ann)
<1> DEFINE route == Route(device, daemon.next)
           ann == Announced(device, daemon.next, asked)
<1>1. route \in Routes /\ route.session = d.next /\ route.device = device
  BY DEF Route, Routes, DaemonShape
<1>2. Launched(d, route) /\ client' = Told(client, before \o ann)
  BY DEF StartSync
<1>3. GoesOn(d) /\ daemon'.source = d.source /\ daemon'.active = route /\ daemon'.next = d.next + 1
  BY <1>1, <1>2, LaunchedIs
<1>4. ann = <<>> \/ ann = <<Routed("sync_accepted", daemon'.active)>>
  BY <1>3 DEF Announced
<1>5. Routed("sync_accepted", daemon'.active) \in Events
  BY <1>1, <1>3 DEF Routed, Events, Routes
<1>6. <<>> \in Seq(Events) /\ <<Routed("sync_accepted", daemon'.active)>> \in Seq(Events)
  BY <1>5
<1> HIDE DEF ann, route
<1>7. ann \in Seq(Events) BY <1>4, <1>6
<1>8. before \o ann \in Seq(Events) BY <1>7, ConcatProperties
<1>9. ClientsShape' /\ More(before \o ann) BY <1>2, <1>8, ToldIs
<1>10. Accepted(d, ann) BY <1>1, <1>3, <1>4 DEF Accepted
<1> QED BY <1>3, <1>9, <1>10

\* What waited for the source.
LEMMA StartWaitingIs ==
  ASSUME ClientsShape, NEW d, DaemonShape(d), RunShape(run), d.next = daemon.next,
         NEW before \in Seq(Events), StartWaiting(d, before)
  PROVE  /\ GoesOn(d) /\ daemon'.source = d.source /\ ClientsShape'
         /\ \E ann : Accepted(d, ann) /\ More(before \o ann)
<1>1. CASE d.active # Idle \/ (~d.scan /\ d.sync = {})
  <2>1. daemon' = [d EXCEPT !.pc = "publish"] /\ client' = Told(client, before) /\ run' = run
    BY <1>1 DEF StartWaiting
  <2>2. GoesOn(d) /\ daemon'.source = d.source BY <2>1, EndsTurn
  <2>3. before \o <<>> = before BY ConcatEmptySeq
  <2>4. ClientsShape' /\ More(before \o <<>>) BY <2>1, <2>3, ToldIs
  <2> QED BY <2>2, <2>4 DEF Accepted
<1>2. CASE ~(d.active # Idle \/ (~d.scan /\ d.sync = {})) /\ d.scan
  <2> DEFINE e == [d EXCEPT !.scan = FALSE,
                            !.after = IF @ = {} THEN d.sync ELSE @,
                            !.sync = IF d.after = {} THEN {} ELSE @]
  <2>1. StartScan(e, before) BY <1>2 DEF StartWaiting
  <2>2. /\ DOMAIN e = DOMAIN d /\ e.active = d.active /\ e.next = d.next
        /\ e.pc = d.pc /\ e.revision = d.revision /\ e.source = d.source
        /\ e.connected = d.connected /\ e.sync \subseteq Waiting /\ e.after \subseteq Waiting
        /\ e.commands = d.commands /\ e.completed = d.completed
    BY DEF DaemonShape
  <2> HIDE DEF e
  <2>3. DaemonShape(e) BY <2>2 DEF DaemonShape
  <2> DEFINE route == Route(NoDevice, daemon.next)
  <2>4. route \in Routes /\ route.session = e.next BY <2>2 DEF Route, Routes, DaemonShape
  <2>5. Launched(e, route) /\ client' = Told(client, before) BY <2>1 DEF StartScan
  <2> HIDE DEF route
  <2>6. GoesOn(e) /\ daemon'.source = e.source BY <1>2, <2>2, <2>3, <2>4, <2>5, LaunchedIs
  <2>7. GoesOn(d) /\ daemon'.source = d.source BY <2>2, <2>6 DEF GoesOn, Same, Fresh
  <2>8. before \o <<>> = before BY ConcatEmptySeq
  <2>9. ClientsShape' /\ More(before \o <<>>) BY <2>5, <2>8, ToldIs
  <2> QED BY <2>7, <2>9 DEF Accepted
<1>3. CASE ~(d.active # Idle \/ (~d.scan /\ d.sync = {})) /\ ~d.scan
  <2>1. PICK s \in d.sync : StartSync([d EXCEPT !.sync = {}], s.device, s.asked, before)
    BY <1>3 DEF StartWaiting
  <2> DEFINE e == [d EXCEPT !.sync = {}]
  <2>2. /\ DOMAIN e = DOMAIN d /\ e.active = d.active /\ e.next = d.next
        /\ e.pc = d.pc /\ e.revision = d.revision /\ e.source = d.source
        /\ e.connected = d.connected /\ e.sync \subseteq Waiting /\ e.after = d.after
        /\ e.commands = d.commands /\ e.completed = d.completed
    BY DEF DaemonShape
  <2>3. s.device \in Devices BY DEF DaemonShape, Waiting
  <2>4. StartSync(e, s.device, s.asked, before) BY <2>1
  <2> HIDE DEF e
  <2>5. DaemonShape(e) BY <2>2 DEF DaemonShape
  <2>6. /\ GoesOn(e) /\ daemon'.source = e.source /\ ClientsShape'
        /\ \E ann : Accepted(e, ann) /\ More(before \o ann)
    BY <1>3, <2>2, <2>3, <2>4, <2>5, StartSyncIs
  <2>7. GoesOn(d) /\ daemon'.source = d.source BY <2>2, <2>6 DEF GoesOn, Same, Fresh
  <2>8. \A ann : Accepted(e, ann) => Accepted(d, ann) BY <2>2 DEF Accepted
  <2> QED BY <2>6, <2>7, <2>8
<1> QED BY <1>1, <1>2, <1>3

\* A request that needs the source.
LEMMA SourceAskedIs ==
  ASSUME ClientsShape, NEW d, DaemonShape(d), RunShape(run), d.pc = "publish", SourceAsked(d, client),
         RunShape(run'), run'.phase = run.phase, run'.route = run.route, run'.finished = run.finished
  PROVE  /\ GoesOn(d) /\ ClientsShape'
         /\ \E news : /\ \/ news = <<>> /\ daemon'.source = d.source
                         \/ news = <<SourceIs(daemon'.source)>>
                      /\ More(news \o <<>>)
<1>1. CASE d.trying
  <2>1. daemon' = d /\ client' = client BY <1>1 DEF SourceAsked
  <2>2. GoesOn(d) BY <2>1 DEF GoesOn, Same
  <2>3. ClientsShape' /\ More(<<>>) BY <2>1, NothingTold
  <2>4. <<>> \o <<>> = <<>> OBVIOUS
  <2> QED BY <2>1, <2>2, <2>3, <2>4
<1>2. CASE ~d.trying
  <2>1. daemon' = [d EXCEPT !.trying = TRUE, !.source = "remounting"]
        /\ client' = Told(client, <<SourceIs("remounting")>>)
    BY <1>2 DEF SourceAsked
  <2>2. /\ DOMAIN daemon' = DOMAIN d /\ daemon'.active = d.active /\ daemon'.next = d.next
        /\ daemon'.pc = d.pc /\ daemon'.revision = d.revision /\ daemon'.source = "remounting"
        /\ daemon'.connected = d.connected /\ daemon'.sync = d.sync /\ daemon'.after = d.after
        /\ daemon'.commands = d.commands /\ daemon'.completed = d.completed
    BY <2>1 DEF DaemonShape
  <2>3. DaemonShape(daemon') BY <2>2 DEF DaemonShape, Sources
  <2>4. GoesOn(d) BY <2>2, <2>3 DEF GoesOn, Same
  <2>5. SourceIs("remounting") \in Events BY DEF SourceIs, Events, Sources
  <2> DEFINE news == <<SourceIs("remounting")>>
  <2>6. news \in Seq(Events) BY <2>5
  <2>7. news = <<SourceIs(daemon'.source)>> BY <2>2
  <2> HIDE DEF news
  <2>8. ClientsShape' /\ More(news) BY <2>1, <2>6, ToldIs DEF news
  <2>9. news \o <<>> = news BY <2>6, ConcatEmptySeq
  <2> QED BY <2>4, <2>7, <2>8, <2>9
<1> QED BY <1>1, <1>2

\* What a turn of the loop keeps.
LEMMA TurnKeeps ==
  ASSUME IInv, daemon.pc = "loop", NEW d, DaemonShape(d), d.revision = daemon.revision,
         d.next = daemon.next, GoesOn(d), ClientsShape', PastShape',
         past'.abandoned = past.abandoned, past'.answers = past.answers,
         past'.resolved = past.resolved,
         NEW news, NEW ann, TurnTells(news, ann),
         \/ d.active = daemon.active /\ d.completed = daemon.completed
         \/ d.active = Idle /\ d.completed = <<>> /\ run.phase = "none",
         \A i \in DOMAIN d.commands : Given(d.commands[i]),
         \A i \in DOMAIN run'.in : Given(run'.in[i])
  PROVE  IInv'
<1> USE DEF IInv
<1>1. CASE Same(d)
  <2>1. Shapes' BY <1>1 DEF Shapes, ClientsShape, GoesOn, Same
  <2>2. SessionInv'
    <3>1. daemon.next \in Nat \ {0} BY DEF Shapes, DaemonShape
    <3> QED BY <1>1, <3>1 DEF SessionInv, GoesOn, Same
  <2>3. AnswerInv' BY <1>1 DEF AnswerInv, GoesOn, Given, AnswersReachTheirPrompt
  <2>4. Admits BY <1>1 DEF Same, Admits
  <2>5. BeliefInv' BY <2>4, TurnBelief DEF GoesOn
  <2> QED BY <2>1, <2>2, <2>3, <2>5
<1>2. CASE Fresh(d)
  <2> DEFINE r == [NoRun EXCEPT !.route = daemon'.active, !.phase = "starting"]
  <2>0. run' = r /\ daemon'.active \in Routes BY <1>2 DEF Fresh
  <2>1. RunShape(r) /\ r.route = daemon'.active /\ r.phase = "starting" /\ r.in = <<>>
        /\ r.finished = FALSE
    BY <2>0, FreshRun
  <2> HIDE DEF r
  <2>2. Shapes' BY <2>0, <2>1 DEF Shapes, ClientsShape, GoesOn
  <2>3. SessionInv'
    <3>1. daemon.next \in Nat \ {0} BY DEF Shapes, DaemonShape
    <3>2. daemon'.active.session = daemon.next /\ daemon'.next = daemon.next + 1 BY <1>2 DEF Fresh
    <3>3. daemon'.active # Idle BY <3>1, <3>2 DEF Idle, Route, NoSession
    <3>4. daemon'.completed = <<>> BY <1>2 DEF Fresh, GoesOn, SessionInv
    <3>5. daemon'.active.session \in 1..(daemon'.next - 1) BY <3>1, <3>2
    <3>6. past'.abandoned \subseteq 1..(daemon'.next - 1)
      BY <3>1, <3>2 DEF SessionInv
    <3>7. daemon'.active.session \notin past'.abandoned
      BY <3>1, <3>2 DEF SessionInv
    <3> QED BY <2>0, <2>1, <3>3, <3>4, <3>5, <3>6, <3>7 DEF SessionInv
  <2>4. AnswerInv' BY <2>0, <2>1 DEF AnswerInv, GoesOn, Given, AnswersReachTheirPrompt
  <2>5. Admits BY <1>2 DEF Fresh, Admits
  <2>6. BeliefInv' BY <2>5, TurnBelief DEF GoesOn
  <2> QED BY <2>2, <2>3, <2>4, <2>6
<1> QED BY <1>1, <1>2 DEF GoesOn

-----------------------------------------------------------------------------
(* The loop.                                                               *)

\* The initial state: nobody is connected.
LEMMA InitIInv == Init => IInv
<1> SUFFICES ASSUME Init PROVE IInv OBVIOUS
<1>1. PICK d \in Devices :
        daemon = [pc |-> "loop", active |-> Idle, next |-> 1, revision |-> 1,
                  connected |-> Devices, source |-> "remounting", trying |-> TRUE,
                  scan |-> FALSE, sync |-> {[device |-> d, asked |-> FALSE]},
                  after |-> {}, commands |-> <<>>, completed |-> <<>>]
  BY DEF Init
<1>2. run = NoRun /\ client = [c \in Clients |-> NoClient]
      /\ past = [answers |-> {}, resolved |-> {}, abandoned |-> {}, starts |-> 0, steers |-> 0,
                 connects |-> 0, faults |-> 0, cut |-> {}]
  BY DEF Init
<1>3. DaemonShape(daemon)
  BY <1>1 DEF DaemonShape, Idle, Route, Routes, NoSession, Sources, Waiting
<1>4. RunShape(run) BY <1>2 DEF RunShape, NoRun, Phases, Idle, Route, Routes, NoSession
<1>5. PastShape BY <1>2 DEF PastShape
<1>6. ClientShape(NoClient)
  BY DEF ClientShape, NoClient, Subscribed, Views, NoView, NoSession, Sources
<1>7. Shapes BY <1>2, <1>3, <1>4, <1>5, <1>6 DEF Shapes
<1>8. SessionInv BY <1>1, <1>2 DEF SessionInv, NoRun
<1>9. AnswerInv BY <1>1, <1>2 DEF AnswerInv, NoRun, AnswersReachTheirPrompt
<1>10. BeliefInv BY <1>2 DEF BeliefInv, Subscribed, NoClient
<1> QED BY <1>7, <1>8, <1>9, <1>10 DEF IInv

\* The source is found, or it is not.
LEMMA SourceResolvedKeeps ==
  ASSUME IInv, NEW found \in BOOLEAN, SourceResolved(found)
  PROVE  IInv'
<1> DEFINE state == IF found THEN "available" ELSE "unavailable"
           d == [daemon EXCEPT !.trying = FALSE, !.source = state]
           news == <<SourceIs(state)>>
<1>1. /\ daemon.pc = "loop" /\ past' = past
      /\ IF found THEN StartWaiting(d, news)
         ELSE daemon' = [d EXCEPT !.pc = "publish"] /\ client' = Told(client, news) /\ run' = run
  BY DEF SourceResolved
<1>2. ClientsShape /\ DaemonShape(daemon) /\ RunShape(run) BY DEF IInv, Shapes, ClientsShape
<1>3. state \in Sources BY DEF Sources
<1>4. /\ DOMAIN d = DOMAIN daemon /\ d.active = daemon.active /\ d.next = daemon.next
      /\ d.pc = daemon.pc /\ d.revision = daemon.revision /\ d.source = state
      /\ d.connected = daemon.connected /\ d.sync = daemon.sync /\ d.after = daemon.after
      /\ d.commands = daemon.commands /\ d.completed = daemon.completed
  BY <1>2 DEF DaemonShape
<1> HIDE DEF d, state
<1>5. DaemonShape(d) BY <1>2, <1>3, <1>4 DEF DaemonShape
<1>6. SourceIs(state) \in Events BY <1>3 DEF SourceIs, Events
<1>7. news \in Seq(Events) BY <1>6
<1> HIDE DEF news
<1>8. /\ GoesOn(d) /\ daemon'.source = d.source /\ ClientsShape'
      /\ \E ann : Accepted(d, ann) /\ More(news \o ann)
  <2>1. CASE found BY <1>1, <1>2, <1>4, <1>5, <1>7, <2>1, StartWaitingIs
  <2>2. CASE ~found
    <3>1. daemon' = [d EXCEPT !.pc = "publish"] /\ client' = Told(client, news) /\ run' = run
      BY <1>1, <2>2
    <3>2. GoesOn(d) /\ daemon'.source = d.source BY <1>2, <1>5, <3>1, EndsTurn
    <3>3. news \o <<>> = news BY <1>7, ConcatEmptySeq
    <3>4. ClientsShape' /\ More(news \o <<>>) BY <1>2, <1>7, <3>1, <3>3, ToldIs
    <3> QED BY <3>2, <3>4 DEF Accepted
  <2> QED BY <2>1, <2>2
<1>9. PICK ann : Accepted(d, ann) /\ More(news \o ann) BY <1>8
<1>10. TurnTells(news, ann) BY <1>4, <1>8, <1>9 DEF TurnTells, Accepted, news
<1>11. PastShape' BY <1>1 DEF IInv, Shapes, PastShape
<1>12. run'.in = run.in \/ run'.in = <<>>
  BY <1>1, <1>8, FreshRun DEF GoesOn, Same, Fresh, StartWaiting, StartScan, StartSync, Launched, NoRun
<1>13. \A i \in DOMAIN run'.in : Given(run'.in[i]) BY <1>12 DEF IInv, AnswerInv
<1>14. \A i \in DOMAIN d.commands : Given(d.commands[i]) BY <1>4 DEF IInv, AnswerInv
<1> QED BY <1>1, <1>4, <1>5, <1>8, <1>10, <1>11, <1>13, <1>14, TurnKeeps

\* A turn that starts what waited changes the process's input only by starting it anew.
LEMMA StartsEmpty ==
  ASSUME NEW d, NEW before, StartWaiting(d, before), \A i \in DOMAIN run.in : Given(run.in[i])
  PROVE  \A i \in DOMAIN run'.in : Given(run'.in[i])
<1>1. run'.in = run.in \/ run'.in = <<>>
  BY DEF StartWaiting, StartScan, StartSync, Launched, NoRun
<1> QED BY <1>1

\* A session ends once its worker has drained.
LEMMA CompleteKeeps ==
  ASSUME IInv, Complete
  PROVE  IInv'
<1> DEFINE d == [daemon EXCEPT
                   !.completed = Tail(@), !.active = Idle,
                   !.sync = IF @ = {} /\ daemon.active.device = NoDevice
                            THEN daemon.after ELSE @,
                   !.after = IF daemon.active.device = NoDevice THEN {} ELSE @]
<1>1. /\ daemon.pc = "loop" /\ past' = past /\ daemon.completed # <<>>
      /\ IF daemon.source = "available" THEN StartWaiting(d, <<>>)
         ELSE daemon' = [d EXCEPT !.pc = "publish"] /\ client' = client /\ run' = run
  BY DEF Complete
<1>2. ClientsShape /\ DaemonShape(daemon) /\ RunShape(run) BY DEF IInv, Shapes, ClientsShape
<1>3. run.phase = "none" /\ Len(daemon.completed) = 1 BY <1>1 DEF IInv, SessionInv
<1>4. Tail(daemon.completed) = <<>>
  <2>1. daemon.completed \in Seq(Nat) BY <1>2 DEF DaemonShape
  <2>2. Tail(daemon.completed) \in Seq(Nat) /\ Len(Tail(daemon.completed)) = 0
    BY <1>1, <1>3, <2>1, HeadTailProperties
  <2> QED BY <2>2, EmptySeq
<1>5. /\ DOMAIN d = DOMAIN daemon /\ d.active = Idle /\ d.next = daemon.next
      /\ d.pc = daemon.pc /\ d.revision = daemon.revision /\ d.source = daemon.source
      /\ d.connected = daemon.connected /\ d.sync \subseteq Waiting /\ d.after \subseteq Waiting
      /\ d.commands = daemon.commands /\ d.completed = <<>>
  BY <1>2, <1>4 DEF DaemonShape
<1> HIDE DEF d
<1>6. DaemonShape(d) 
  <2>1. Idle \in Routes BY DEF Idle, Route, Routes, NoSession
  <2> QED BY <1>2, <1>5, <2>1 DEF DaemonShape
<1>7. /\ GoesOn(d) /\ daemon'.source = d.source /\ ClientsShape'
      /\ \E ann : Accepted(d, ann) /\ More(<<>> \o ann)
  <2>1. CASE daemon.source = "available"
    <3>1. <<>> \in Seq(Events) OBVIOUS
    <3> QED BY <1>1, <1>2, <1>5, <1>6, <2>1, <3>1, StartWaitingIs
  <2>2. CASE daemon.source # "available"
    <3>1. daemon' = [d EXCEPT !.pc = "publish"] /\ client' = client /\ run' = run
      BY <1>1, <2>2
    <3>2. GoesOn(d) /\ daemon'.source = d.source BY <1>2, <1>6, <3>1, EndsTurn
    <3>3. ClientsShape' /\ More(<<>>) BY <1>2, <3>1, NothingTold
    <3>4. <<>> \o <<>> = <<>> OBVIOUS
    <3> QED BY <3>2, <3>3, <3>4 DEF Accepted
  <2> QED BY <2>1, <2>2
<1>8. PICK ann : Accepted(d, ann) /\ More(<<>> \o ann) BY <1>7
<1>9. TurnTells(<<>>, ann) BY <1>5, <1>7, <1>8 DEF TurnTells, Accepted
<1>10. PastShape' BY <1>1 DEF IInv, Shapes, PastShape
<1>11. \A i \in DOMAIN run'.in : Given(run'.in[i])
  BY <1>1, StartsEmpty DEF IInv, AnswerInv
<1>12. \A i \in DOMAIN d.commands : Given(d.commands[i]) BY <1>5 DEF IInv, AnswerInv
<1> QED BY <1>1, <1>3, <1>5, <1>6, <1>7, <1>9, <1>10, <1>11, <1>12, TurnKeeps

\* A fault leaves what was said and done.
LEMMA FaultIs ==
  ASSUME PastShape, Fault
  PROVE  /\ PastShape' /\ past'.abandoned = past.abandoned /\ past'.answers = past.answers
         /\ past'.resolved = past.resolved
BY DEF PastShape, Fault

\* A device that goes ends nothing by itself.
LEMMA UnplugKeeps ==
  ASSUME IInv, NEW dev \in Devices, Unplug(dev)
  PROVE  IInv'
<1> DEFINE d == [daemon EXCEPT !.connected = @ \ {dev}]
<1>1. /\ daemon.pc = "loop" /\ Fault /\ client' = client
      /\ daemon' = [daemon EXCEPT !.connected = @ \ {dev}, !.pc = "publish"]
      /\ \/ run' = run
         \/ run' = [run EXCEPT !.stops = @ \cup {"cancel_sync"}]
  BY DEF Unplug
<1>2. ClientsShape /\ DaemonShape(daemon) /\ RunShape(run) /\ PastShape
  BY DEF IInv, Shapes, ClientsShape
<1>3. RunShape(run') /\ run'.phase = run.phase /\ run'.route = run.route
      /\ run'.finished = run.finished /\ run'.in = run.in
  BY <1>1, <1>2 DEF RunShape, NoRun, Steering
<1>4. /\ DOMAIN d = DOMAIN daemon /\ d.active = daemon.active /\ d.next = daemon.next
      /\ d.pc = daemon.pc /\ d.revision = daemon.revision /\ d.source = daemon.source
      /\ d.connected \subseteq Devices /\ d.sync = daemon.sync /\ d.after = daemon.after
      /\ d.commands = daemon.commands /\ d.completed = daemon.completed
  BY <1>2 DEF DaemonShape
<1>5. daemon' = [d EXCEPT !.pc = "publish"] BY <1>1
<1> HIDE DEF d
<1>6. DaemonShape(d) BY <1>2, <1>4 DEF DaemonShape
<1>7. GoesOn(d) /\ daemon'.source = d.source BY <1>2, <1>3, <1>5, <1>6, EndsTurn
<1>8. ClientsShape' /\ More(<<>>) BY <1>1, <1>2, NothingTold
<1>9. TurnTells(<<>>, <<>>)
  <2>1. <<>> \o <<>> = <<>> OBVIOUS
  <2> QED BY <1>4, <1>7, <1>8, <2>1 DEF TurnTells
<1>10. /\ PastShape' /\ past'.abandoned = past.abandoned /\ past'.answers = past.answers
       /\ past'.resolved = past.resolved
  BY <1>1, <1>2, FaultIs
<1>11. \A i \in DOMAIN run'.in : Given(run'.in[i]) BY <1>3 DEF IInv, AnswerInv
<1>12. \A i \in DOMAIN d.commands : Given(d.commands[i]) BY <1>4 DEF IInv, AnswerInv
<1> QED BY <1>1, <1>4, <1>6, <1>7, <1>8, <1>9, <1>10, <1>11, <1>12, TurnKeeps

\* A handler that asks for the source keeps the invariant.
LEMMA SourceAskedKeeps ==
  ASSUME IInv, daemon.pc = "loop", NEW d, DaemonShape(d), d.pc = "publish",
         d.revision = daemon.revision, d.next = daemon.next, d.source = daemon.source,
         d.active = daemon.active, d.completed = daemon.completed,
         \A i \in DOMAIN d.commands : Given(d.commands[i]),
         SourceAsked(d, client), run' = run, past' = past
  PROVE  IInv'
<1>1. ClientsShape /\ RunShape(run) /\ PastShape BY DEF IInv, Shapes, ClientsShape
<1>2. /\ GoesOn(d) /\ ClientsShape'
      /\ \E news : /\ \/ news = <<>> /\ daemon'.source = d.source
                      \/ news = <<SourceIs(daemon'.source)>>
                   /\ More(news \o <<>>)
  BY <1>1, SourceAskedIs
<1>3. PICK news : /\ \/ news = <<>> /\ daemon'.source = d.source
                     \/ news = <<SourceIs(daemon'.source)>>
                  /\ More(news \o <<>>)
  BY <1>2
<1>4. TurnTells(news, <<>>) BY <1>3 DEF TurnTells
<1>5. PastShape' BY <1>1 DEF PastShape
<1>6. \A i \in DOMAIN run'.in : Given(run'.in[i]) BY DEF IInv, AnswerInv
<1> QED BY <1>2, <1>4, <1>5, <1>6, TurnKeeps

\* A handler that only comes to its end does so too.
LEMMA EndKeeps ==
  ASSUME IInv, daemon.pc = "loop", NEW d, DaemonShape(d),
         d.revision = daemon.revision, d.next = daemon.next, d.source = daemon.source,
         d.active = daemon.active, d.completed = daemon.completed,
         \A i \in DOMAIN d.commands : Given(d.commands[i]),
         daemon' = [d EXCEPT !.pc = "publish"], past' = past, ClientsShape', More(<<>>),
         RunShape(run'), run'.phase = run.phase, run'.route = run.route,
         run'.finished = run.finished, \A i \in DOMAIN run'.in : Given(run'.in[i])
  PROVE  IInv'
<1>1. RunShape(run) /\ PastShape BY DEF IInv, Shapes
<1>2. GoesOn(d) /\ daemon'.source = d.source BY <1>1, EndsTurn
<1>3. TurnTells(<<>>, <<>>)
  <2>1. <<>> \o <<>> = <<>> OBVIOUS
  <2> QED BY <1>2, <2>1 DEF TurnTells
<1>4. PastShape' BY <1>1 DEF PastShape
<1> QED BY <1>2, <1>3, <1>4, TurnKeeps

\* A device that comes back may want a sync.
LEMMA PlugKeeps ==
  ASSUME IInv, NEW dev \in Devices, NEW auto \in BOOLEAN, Plug(dev, auto)
  PROVE  IInv'
<1> DEFINE back == [daemon EXCEPT !.connected = @ \cup {dev}, !.pc = "publish"]
           d == [back EXCEPT !.sync = IF @ = {} THEN {[device |-> dev, asked |-> FALSE]} ELSE @]
<1>1. /\ daemon.pc = "loop" /\ run' = run /\ past' = past
      /\ IF auto THEN SourceAsked(d, client) ELSE daemon' = back /\ client' = client
  BY DEF Plug
<1>2. ClientsShape /\ DaemonShape(daemon) /\ RunShape(run) BY DEF IInv, Shapes, ClientsShape
<1>3. /\ DOMAIN back = DOMAIN daemon /\ back.active = daemon.active /\ back.next = daemon.next
      /\ back.pc = "publish" /\ back.revision = daemon.revision /\ back.source = daemon.source
      /\ back.connected \subseteq Devices /\ back.sync = daemon.sync /\ back.after = daemon.after
      /\ back.commands = daemon.commands /\ back.completed = daemon.completed
  BY <1>2 DEF DaemonShape
<1> HIDE DEF back
<1>4. DaemonShape(back) BY <1>2, <1>3 DEF DaemonShape
<1>5. {[device |-> dev, asked |-> FALSE]} \subseteq Waiting BY DEF Waiting
<1>6. /\ DOMAIN d = DOMAIN daemon /\ d.active = daemon.active /\ d.next = daemon.next
      /\ d.pc = "publish" /\ d.revision = daemon.revision /\ d.source = daemon.source
      /\ d.connected \subseteq Devices /\ d.sync \subseteq Waiting /\ d.after = daemon.after
      /\ d.commands = daemon.commands /\ d.completed = daemon.completed
  BY <1>2, <1>3, <1>4, <1>5 DEF DaemonShape
<1> HIDE DEF d
<1>7. DaemonShape(d) BY <1>2, <1>6 DEF DaemonShape
<1>8. \A i \in DOMAIN daemon.commands : Given(daemon.commands[i]) BY DEF IInv, AnswerInv
<1>9. CASE auto BY <1>1, <1>6, <1>7, <1>8, <1>9, SourceAskedKeeps
<1>10. CASE ~auto
  <2>1. daemon' = [back EXCEPT !.pc = "publish"]
    <3>1. daemon' = back BY <1>1, <1>10
    <3>2. back = [back EXCEPT !.pc = "publish"] BY <1>3, <1>4 DEF DaemonShape, back
    <3> QED BY <3>1, <3>2
  <2>2. ClientsShape' /\ More(<<>>) BY <1>1, <1>2, <1>10, NothingTold
  <2>3. \A i \in DOMAIN run'.in : Given(run'.in[i]) BY <1>1 DEF IInv, AnswerInv
  <2> QED BY <1>1, <1>2, <1>3, <1>4, <1>8, <2>1, <2>2, <2>3, EndKeeps
<1> QED BY <1>9, <1>10

\* The inventory tells every client that hears it what the daemon knows.
LEMMA PublishKeeps ==
  ASSUME IInv, Publish
  PROVE  IInv'
<1>0. PICK n : n = daemon.revision + 1 OBVIOUS
<1>1. /\ daemon.pc = "publish" /\ daemon' = [daemon EXCEPT !.pc = "loop", !.revision = n]
      /\ client' = Told(client, <<Inventory(n)>>) /\ run' = run /\ past' = past
  BY <1>0 DEF Publish
<1>2. ClientsShape /\ DaemonShape(daemon) BY DEF IInv, Shapes, ClientsShape
<1>3. n \in Nat /\ daemon.revision \in Nat /\ n > daemon.revision BY <1>0, <1>2 DEF DaemonShape
<1>4. /\ DOMAIN daemon' = DOMAIN daemon /\ daemon'.active = daemon.active /\ daemon'.next = daemon.next
      /\ daemon'.pc = "loop" /\ daemon'.revision = n /\ daemon'.source = daemon.source
      /\ daemon'.connected = daemon.connected /\ daemon'.sync = daemon.sync
      /\ daemon'.after = daemon.after
      /\ daemon'.commands = daemon.commands /\ daemon'.completed = daemon.completed
  BY <1>1, <1>2 DEF DaemonShape
<1>5. DaemonShape(daemon') BY <1>2, <1>3, <1>4 DEF DaemonShape
<1>6. PICK e \in Events : e = Inventory(n)
  <2>1. [revision |-> 0, route |-> [d \in Devices |-> 0], awaiting |-> {}, source |-> "unknown"] \in Beliefs
    BY DEF Beliefs, Sources
  <2> QED BY <1>2, <1>3, <2>1, InventorySaid
<1>7. <<e>> \in Seq(Events) OBVIOUS
<1>8. ClientsShape' /\ More(<<e>>) BY <1>1, <1>2, <1>6, <1>7, ToldIs
<1>9. ASSUME NEW w \in Beliefs, Knows(w)
      PROVE  Learn(w, e) \in Beliefs /\ Knows(Learn(w, e))'
  <2>1. w.revision <= n BY <1>3, <1>9 DEF Knows, Beliefs
  <2>2. PICK u \in Beliefs :
          /\ u = Learn(w, e) /\ u.revision = n /\ u.source = w.source
          /\ \A d \in Devices :
               u.route[d] = IF SessionOf(d) # NoSession THEN SessionOf(d)
                            ELSE IF d \in w.awaiting THEN w.route[d] ELSE NoSession
          /\ u.awaiting = {d \in w.awaiting : SessionOf(d) = NoSession}
    BY <1>2, <1>3, <1>6, <2>1, InventorySaid
  <2>3. daemon.active.session \in Nat /\ daemon.next \in Nat \ {0}
        /\ daemon.active.session < daemon.next
    <3>1. daemon.active.session \in Nat /\ daemon.next \in Nat \ {0}
      BY <1>2 DEF DaemonShape, Routes
    <3>2. daemon.active = Idle => daemon.active.session = 0 BY DEF Idle, Route, NoSession
    <3> QED BY <3>1, <3>2 DEF IInv, SessionInv
  <2>4. ASSUME NEW d \in Devices
        PROVE  /\ u.route[d] < daemon.next
               /\ u.route[d] = daemon.active.session => u.route[d] = 0 \/ d = daemon.active.device
               /\ d \in u.awaiting => u.route[d] \in past.abandoned
               /\ \/ u.route[d] = SessionOf(d)
                  \/ SessionOf(d) = NoSession /\ u.route[d] \in past.abandoned
    <3>1. /\ w.route[d] < daemon.next
          /\ w.route[d] = daemon.active.session => w.route[d] = 0 \/ d = daemon.active.device
          /\ d \in w.awaiting =>
               \/ w.route[d] \in past.abandoned
               \/ w.route[d] # 0 /\ w.route[d] = SessionOf(d)
      BY <1>1, <1>9 DEF Knows, KnowsDevice
    <3>2. CASE SessionOf(d) # NoSession
      BY <2>2, <2>3, <3>1, <3>2 DEF SessionOf
    <3>3. CASE SessionOf(d) = NoSession /\ d \in w.awaiting
      BY <2>2, <2>3, <3>1, <3>3 DEF NoSession
    <3>4. CASE SessionOf(d) = NoSession /\ d \notin w.awaiting
      BY <2>2, <2>3, <3>1, <3>4 DEF NoSession
    <3> QED BY <3>2, <3>3, <3>4
  <2>5. u.revision <= daemon'.revision BY <1>3, <1>4, <2>2
  <2>6. u.source = daemon'.source BY <1>4, <1>9, <2>2 DEF Knows
  <2>7. Knows(u)' BY <1>1, <1>4, <2>4, <2>5, <2>6 DEF Knows, KnowsDevice, RouteAgrees, SessionOf
  <2> QED BY <2>2, <2>7
<1>11. BeliefInv' BY <1>2, <1>8, <1>9, BeliefTold DEF IInv
<1>12. Shapes' BY <1>1, <1>5, <1>8 DEF IInv, Shapes, ClientsShape, PastShape
<1>13. SessionInv' BY <1>1, <1>4 DEF IInv, SessionInv
<1>14. AnswerInv' BY <1>1, <1>4 DEF IInv, AnswerInv, Given, AnswersReachTheirPrompt
<1> QED BY <1>11, <1>12, <1>13, <1>14 DEF IInv

-----------------------------------------------------------------------------
(* Commands.                                                               *)

\* What is answered at once is answered with one response.
LEMMA AnswerForms ==
  /\ \A kind \in DOMAIN Confirmed : Confirmed[kind] \in Quiet
  /\ \A kind \in DOMAIN Replies : Replies[kind] \in Quiet
  /\ "backfill_rockbox" \in DOMAIN Becomes /\ Becomes["backfill_rockbox"] = "backfill_rockbox"
<1>1. \A kind \in DOMAIN Confirmed : Confirmed[kind] \in Quiet BY DEF Confirmed, Quiet
<1>2. \A kind \in DOMAIN Replies : Replies[kind] \in Quiet
  BY DEF Replies, SimpleReplies, DeviceReplies, HistoryReply, ConfigReply, LibraryReply,
         SelectionReply, PlaylistReplies, DeviceConfigReply, PreviewReplies, Joined, Quiet
<1>3. "backfill_rockbox" \in DOMAIN Becomes /\ Becomes["backfill_rockbox"] = "backfill_rockbox"
  BY DEF Becomes, ConfigBecomes, LibraryBecomes, SteeringBecomes, Joined
<1> QED BY <1>1, <1>2, <1>3

\* A command is answered at once with one response, or it is one that has a
\* handler, and then it is for the session that runs or finds the loop free.
LEMMA AtOnce ==
  ASSUME NEW cmd \in Requested
  PROVE  /\ ToldAtOnce(cmd) = <<>> \/ \E e \in Responses : ToldAtOnce(cmd) = <<e>>
         /\ ToldAtOnce(cmd) = <<>> =>
              /\ cmd.kind \in Steering \cup Starting \cup {"scan_library", "retry_source_mount"}
              /\ cmd.kind \in Steering => ActiveRouteMatches(cmd)
              /\ cmd.kind = "backfill_rockbox" => daemon.active = Idle
<1>1. cmd.kind \in Asked BY DEF Requested
<1> DEFINE refused == <<[kind |-> Refused(cmd), of |-> cmd.kind]>>
           confirmed == <<Plain(Confirmed[cmd.kind])>>
           replied == <<Plain(Replies[Becomes[cmd.kind]])>>
<1>2. Refused(cmd) \in {"command_failed", "sync_rejected", "none"} BY DEF Refused
<1>3. Refused(cmd) # "none" => \E e \in Responses : refused = <<e>>
  BY <1>1, <1>2 DEF Responses, Quiet
<1>4. cmd.kind \in DOMAIN Confirmed => \E e \in Responses : confirmed = <<e>>
  BY AnswerForms DEF Plain, Responses
<1>5. Becomes[cmd.kind] \in DOMAIN Replies => \E e \in Responses : replied = <<e>>
  BY AnswerForms DEF Plain, Responses
<1> DEFINE G1 == Refused(cmd) # "none"
           G2 == cmd.kind \in DOMAIN Confirmed
           G3 == Becomes[cmd.kind] \in DOMAIN Replies
<1>6. G1 \/ G2 \/ G3 =>
        \/ G1 /\ ToldAtOnce(cmd) = refused
        \/ G2 /\ ToldAtOnce(cmd) = confirmed
        \/ G3 /\ ToldAtOnce(cmd) = replied
  BY DEF ToldAtOnce
<1>7. ~(G1 \/ G2 \/ G3) => ToldAtOnce(cmd) = <<>> BY DEF ToldAtOnce
<1>8. ToldAtOnce(cmd) = <<>> \/ \E e \in Responses : ToldAtOnce(cmd) = <<e>>
  BY <1>3, <1>4, <1>5, <1>6, <1>7
<1>9. ToldAtOnce(cmd) = <<>> => ~G1 /\ ~G2 /\ ~G3
  <2>1. refused # <<>> /\ confirmed # <<>> /\ replied # <<>> OBVIOUS
  <2> QED BY <1>6, <2>1
<1>10. cmd.kind \in NotExposed => G1
  BY DEF Refused, NotExposed, Steering, TargetRejected, Starting
<1>11. cmd.kind \in Steering /\ ~ActiveRouteMatches(cmd) => G1
  BY DEF Refused, NotExposed, Steering, TargetRejected, Starting
<1>12. cmd.kind = "backfill_rockbox" /\ daemon.active # Idle => G1
  <2>1. cmd.kind = "backfill_rockbox" /\ daemon.active # Idle =>
          cmd.kind \in DOMAIN Becomes /\ TargetRejected(cmd)
    BY AnswerForms DEF TargetRejected, Starting, Targeted
  <2> QED BY <2>1 DEF Refused, NotExposed, Steering
<1>13. ~G1 /\ ~G2 /\ ~G3 => cmd.kind \notin AnsweredAtOnce
  BY <1>10 DEF AnsweredAtOnce
<1> HIDE DEF G1, G2, G3
<1> QED BY <1>1, <1>8, <1>9, <1>11, <1>12, <1>13, ClientsAssumption

\* An answer to its own command is queued for the client that asked.
LEMMA RepliedIs ==
  ASSUME ClientsShape, NEW c \in Clients \cup {Nobody}, NEW e \in Responses,
         client' = Replied(client, c, e)
  PROVE  ClientsShape' /\ More(<<>>)
<1>1. CASE client' = client BY <1>1, NothingTold
<1>2. CASE client' # client
  <2>1. c \in Clients /\ client' = [client EXCEPT ![c].replies = Append(@, e)]
    BY <1>2 DEF Replied
  <2> DEFINE k == client[c]
             l == [k EXCEPT !.replies = Append(@, e)]
  <2>2. ClientShape(k) BY <2>1 DEF ClientsShape
  <2>3. client' = [client EXCEPT ![c] = l] BY <2>1
  <2>4. /\ DOMAIN l = DOMAIN k /\ l.conn = k.conn /\ l.batch = k.batch /\ l.live = k.live
        /\ l.lagged = k.lagged /\ l.view = k.view /\ l.replies = Append(k.replies, e)
    BY <2>2 DEF ClientShape, NoClient
  <2>5. Append(k.replies, e) \in Seq(Responses) BY <2>2, AppendProperties DEF ClientShape
  <2> HIDE DEF l
  <2>6. ClientShape(l) BY <2>2, <2>4, <2>5 DEF ClientShape, Subscribed
  <2>7. DOMAIN client' = Clients /\ client'[c] = l /\ \A x \in Clients \ {c} : client'[x] = client[x]
    BY <2>1, <2>3 DEF ClientsShape
  <2>8. ClientsShape' BY <2>6, <2>7 DEF ClientsShape
  <2>9. \A x \in Clients : Unread(client[x]) \o <<>> = Unread(client[x])
    BY UnreadType, ConcatEmptySeq DEF ClientsShape
  <2>10. ASSUME NEW x \in Clients, Subscribed(client'[x]), ~client'[x].lagged
         PROVE  /\ Subscribed(client[x]) /\ ~client[x].lagged
                /\ Unread(client'[x]) = Unread(client[x])
                /\ Belief(client'[x].view) = Belief(client[x].view)
    <3>1. CASE x = c BY <2>4, <2>7, <2>10, <3>1 DEF Subscribed, Unread
    <3>2. CASE x # c BY <2>7, <2>10, <3>2
    <3> QED BY <3>1, <3>2
  <2>11. More(<<>>) BY <2>9, <2>10 DEF More
  <2> QED BY <2>8, <2>11
<1> QED BY <1>1, <1>2

\* What the relay writes for the client that steers its session.
LEMMA SteeredRun ==
  ASSUME IInv, NEW d, NEW cmd \in Requested, cmd.kind \in Steering, ActiveRouteMatches(cmd),
         Given(cmd), Steered(d, cmd)
  PROVE  /\ RunShape(run') /\ run'.phase = run.phase /\ run'.route = run.route
         /\ run'.finished = run.finished /\ \A i \in DOMAIN run'.in : Given(run'.in[i])
<1>1. RunShape(run) /\ \A i \in DOMAIN run.in : Given(run.in[i]) BY DEF IInv, Shapes, AnswerInv
<1>2. CASE run' = run BY <1>1, <1>2
<1>3. CASE run.phase # "none" /\ cmd.kind = "prompt_decision"
  <2> DEFINE m == Owned(cmd.kind, cmd.prompt)
  <2>1. run' = [run EXCEPT !.in = Append(@, m)] BY <1>3 DEF Steered
  <2>2. m \in Orders BY <1>1 DEF Owned, Orders, RunShape, Routes, Requested
  <2>3. run.route = daemon.active BY <1>3 DEF IInv, SessionInv
  <2>4. Given(m)
    BY <1>3, <2>3 DEF Given, Owned, ActiveRouteMatches, CommandRoute, Route
  <2> HIDE DEF m
  <2>5. /\ Append(run.in, m) \in Seq(Orders) /\ Len(Append(run.in, m)) = Len(run.in) + 1
        /\ \A i \in 1..Len(run.in) : Append(run.in, m)[i] = run.in[i]
        /\ Append(run.in, m)[Len(run.in) + 1] = m
    BY <1>1, <2>2, AppendProperties DEF RunShape
  <2>6. /\ DOMAIN run' = DOMAIN run /\ run'.in = Append(run.in, m) /\ run'.route = run.route
        /\ run'.phase = run.phase /\ run'.prompt = run.prompt /\ run'.asked = run.asked
        /\ run'.stops = run.stops /\ run'.finished = run.finished
    BY <1>1, <2>1 DEF RunShape, NoRun
  <2>7. RunShape(run') BY <1>1, <2>5, <2>6 DEF RunShape
  <2>8. ASSUME NEW i \in DOMAIN run'.in PROVE Given(run'.in[i])
    <3>1. DOMAIN run'.in = 1..(Len(run.in) + 1) BY <2>5, <2>6, LenProperties
    <3>2. DOMAIN run.in = 1..Len(run.in) /\ Len(run.in) \in Nat BY <1>1, LenProperties DEF RunShape
    <3>3. CASE i = Len(run.in) + 1 BY <2>4, <2>5, <2>6, <3>3
    <3>4. CASE i # Len(run.in) + 1
      <4>1. i \in 1..Len(run.in) BY <3>1, <3>2, <3>4
      <4> QED BY <1>1, <2>5, <2>6, <3>2, <4>1
    <3> QED BY <3>3, <3>4
  <2> QED BY <2>6, <2>7, <2>8
<1>4. CASE /\ cmd.kind # "prompt_decision"
            /\ run' = [run EXCEPT !.stops = @ \cup {cmd.kind}]
  <2>1. /\ DOMAIN run' = DOMAIN run /\ run'.in = run.in /\ run'.route = run.route
        /\ run'.phase = run.phase /\ run'.prompt = run.prompt /\ run'.asked = run.asked
        /\ run'.stops = run.stops \cup {cmd.kind} /\ run'.finished = run.finished
    BY <1>1, <1>4 DEF RunShape, NoRun
  <2>2. RunShape(run') BY <1>1, <1>4, <2>1 DEF RunShape
  <2> QED BY <1>1, <2>1, <2>2
<1> QED BY <1>2, <1>3, <1>4 DEF Steered

\* Whatever is asked, the loop's handler keeps the invariant.
LEMMA HandleCommandKeeps ==
  ASSUME IInv, HandleCommand
  PROVE  IInv'
<1> DEFINE cmd == Head(daemon.commands)
           d == [daemon EXCEPT !.commands = Tail(@)]
<1>1. /\ daemon.pc = "loop" /\ daemon.commands # <<>> /\ past' = past
      /\ \/ /\ ToldAtOnce(cmd) # <<>>
            /\ daemon' = [d EXCEPT !.pc = "publish"]
            /\ client' = Replied(client, cmd.from, Head(ToldAtOnce(cmd)))
            /\ run' = run
         \/ /\ ToldAtOnce(cmd) = <<>>
            /\ CASE cmd.kind \in Steering -> Steered(d, cmd)
                 [] cmd.kind = "trigger_sync" -> SyncAsked(d, cmd)
                 [] cmd.kind = "backfill_rockbox" -> BackfillAsked(d, cmd)
                 [] cmd.kind = "retry_source_mount" -> RetryAsked(d)
                 [] cmd.kind = "scan_library" -> ScanAsked(d)
  BY DEF HandleCommand
<1>2. ClientsShape /\ DaemonShape(daemon) /\ RunShape(run) /\ PastShape
  BY DEF IInv, Shapes, ClientsShape
<1>3. /\ \A i \in DOMAIN daemon.commands : Given(daemon.commands[i])
      /\ \A i \in DOMAIN run.in : Given(run.in[i])
  BY DEF IInv, AnswerInv
<1>4. /\ daemon.commands \in Seq(Requested) /\ cmd \in Requested /\ cmd = daemon.commands[1]
      /\ Tail(daemon.commands) \in Seq(Requested)
      /\ Len(Tail(daemon.commands)) = Len(daemon.commands) - 1 /\ Len(daemon.commands) \in Nat
      /\ \A i \in 1..Len(Tail(daemon.commands)) :
           Tail(daemon.commands)[i] = daemon.commands[i + 1]
      /\ 1 \in DOMAIN daemon.commands
      /\ DOMAIN daemon.commands = 1..Len(daemon.commands)
      /\ DOMAIN Tail(daemon.commands) = 1..Len(Tail(daemon.commands))
  <2>1. daemon.commands \in Seq(Requested) BY <1>2 DEF DaemonShape
  <2> DEFINE q == daemon.commands
  <2> HIDE DEF q
  <2>2. q \in Seq(Requested) /\ q # <<>> BY <1>1, <2>1 DEF q
  <2>3. Len(q) \in Nat \ {0} BY <2>2, EmptySeq
  <2>4. Head(q) = q[1] BY <2>2, HeadTailProperties, EmptySeq, LenProperties
  <2> QED BY <2>2, <2>3, <2>4, HeadTailProperties, LenProperties DEF q
<1>5. Given(cmd) BY <1>3, <1>4
<1>6. /\ DOMAIN d = DOMAIN daemon /\ d.active = daemon.active /\ d.next = daemon.next
      /\ d.pc = daemon.pc /\ d.revision = daemon.revision /\ d.source = daemon.source
      /\ d.connected = daemon.connected /\ d.sync = daemon.sync /\ d.after = daemon.after
      /\ d.commands = Tail(daemon.commands) /\ d.completed = daemon.completed
  BY <1>2 DEF DaemonShape
<1> HIDE DEF d
<1>7. DaemonShape(d) BY <1>2, <1>4, <1>6 DEF DaemonShape
<1>8. ASSUME NEW i \in DOMAIN d.commands PROVE Given(d.commands[i])
  <2>1. i \in 1..Len(Tail(daemon.commands)) BY <1>4, <1>6, <1>8
  <2>2. i + 1 \in DOMAIN daemon.commands BY <1>4, <2>1
  <2> QED BY <1>3, <1>4, <1>6, <2>1, <2>2
<1> HIDE DEF cmd
<1>9. CASE ToldAtOnce(cmd) # <<>>
  <2>1. PICK e \in Responses : ToldAtOnce(cmd) = <<e>> BY <1>4, <1>9, AtOnce
  <2>2. client' = Replied(client, cmd.from, e) /\ run' = run /\ daemon' = [d EXCEPT !.pc = "publish"]
    BY <1>1, <1>9, <2>1
  <2>3. cmd.from \in Clients \cup {Nobody} BY <1>4 DEF Requested
  <2>4. ClientsShape' /\ More(<<>>) BY <1>2, <2>2, <2>3, RepliedIs
  <2> QED BY <1>1, <1>2, <1>3, <1>6, <1>7, <1>8, <2>2, <2>4, EndKeeps
<1>10. CASE ToldAtOnce(cmd) = <<>>
  <2>1. /\ cmd.kind \in Steering \cup Starting \cup {"scan_library", "retry_source_mount"}
        /\ cmd.kind \in Steering => ActiveRouteMatches(cmd)
        /\ cmd.kind = "backfill_rockbox" => daemon.active = Idle
    BY <1>4, <1>10, AtOnce
  <2>2. CASE cmd.kind \in Steering
    <3>1. Steered(d, cmd) BY <1>1, <1>10, <2>2 DEF Steering
    <3>2. daemon' = [d EXCEPT !.pc = "publish"] /\ client' = client BY <3>1 DEF Steered
    <3>3. ClientsShape' /\ More(<<>>) BY <1>2, <3>2, NothingTold
    <3>4. /\ RunShape(run') /\ run'.phase = run.phase /\ run'.route = run.route
          /\ run'.finished = run.finished /\ \A i \in DOMAIN run'.in : Given(run'.in[i])
      BY <1>4, <1>5, <2>1, <2>2, <3>1, SteeredRun
    <3> QED BY <1>1, <1>6, <1>7, <1>8, <3>2, <3>3, <3>4, EndKeeps
  <2>3. CASE cmd.kind = "trigger_sync"
    <3> DEFINE e == [d EXCEPT !.pc = "publish",
                       !.sync = IF @ = {} THEN {[device |-> cmd.device, asked |-> TRUE]} ELSE @]
    <3>1. SyncAsked(d, cmd) BY <1>1, <1>10, <2>3 DEF Steering
    <3>2. SourceAsked(e, client) /\ run' = run BY <3>1 DEF SyncAsked
    <3>3. {[device |-> cmd.device, asked |-> TRUE]} \subseteq Waiting BY <1>4 DEF Waiting, Requested
    <3>4. /\ DOMAIN e = DOMAIN d /\ e.active = d.active /\ e.next = d.next
          /\ e.pc = "publish" /\ e.revision = d.revision /\ e.source = d.source
          /\ e.connected = d.connected /\ e.sync \subseteq Waiting /\ e.after = d.after
          /\ e.commands = d.commands /\ e.completed = d.completed
      BY <1>7, <3>3 DEF DaemonShape
    <3> HIDE DEF e
    <3>5. DaemonShape(e) BY <1>7, <3>4 DEF DaemonShape
    <3>6. \A i \in DOMAIN e.commands : Given(e.commands[i]) BY <1>8, <3>4
    <3> QED BY <1>1, <1>6, <3>2, <3>4, <3>5, <3>6, SourceAskedKeeps
  <2>4. CASE cmd.kind = "backfill_rockbox"
    <3>1. StartSync(d, cmd.device, TRUE, <<>>)
      BY <1>1, <1>10, <2>4 DEF Steering, BackfillAsked
    <3>2. cmd.device \in Devices /\ <<>> \in Seq(Events) BY <1>4 DEF Requested
    <3>3. d.active = Idle BY <1>6, <2>1, <2>4
    <3>4. /\ GoesOn(d) /\ daemon'.source = d.source /\ ClientsShape'
          /\ \E ann : Accepted(d, ann) /\ More(<<>> \o ann)
      BY <1>2, <1>6, <1>7, <3>1, <3>2, <3>3, StartSyncIs
    <3>5. PICK ann : Accepted(d, ann) /\ More(<<>> \o ann) BY <3>4
    <3>6. TurnTells(<<>>, ann) BY <1>6, <3>4, <3>5 DEF TurnTells, Accepted
    <3>7. PastShape' BY <1>1, <1>2 DEF PastShape
    <3>8. run'.in = <<>> BY <3>1 DEF StartSync, Launched, NoRun
    <3>9. \A i \in DOMAIN run'.in : Given(run'.in[i]) BY <3>8
    <3> QED BY <1>1, <1>6, <1>7, <1>8, <3>4, <3>6, <3>7, <3>9, TurnKeeps
  <2>5. CASE cmd.kind = "retry_source_mount"
    <3> DEFINE e == [d EXCEPT !.pc = "publish"]
    <3>1. RetryAsked(d) BY <1>1, <1>10, <2>5 DEF Steering
    <3>2. SourceAsked(e, client) /\ run' = run BY <3>1 DEF RetryAsked
    <3>4. /\ DOMAIN e = DOMAIN d /\ e.active = d.active /\ e.next = d.next
          /\ e.pc = "publish" /\ e.revision = d.revision /\ e.source = d.source
          /\ e.connected = d.connected /\ e.sync = d.sync /\ e.after = d.after
          /\ e.commands = d.commands /\ e.completed = d.completed
      BY <1>7 DEF DaemonShape
    <3> HIDE DEF e
    <3>5. DaemonShape(e) BY <1>7, <3>4 DEF DaemonShape
    <3>6. \A i \in DOMAIN e.commands : Given(e.commands[i]) BY <1>8, <3>4
    <3> QED BY <1>1, <1>6, <3>2, <3>4, <3>5, <3>6, SourceAskedKeeps
  <2>6. CASE cmd.kind = "scan_library"
    <3> DEFINE e == [d EXCEPT !.pc = "publish", !.scan = TRUE]
    <3>1. ScanAsked(d) BY <1>1, <1>10, <2>6 DEF Steering
    <3>2. CASE d.active = Idle
      <4>1. SourceAsked(e, client) /\ run' = run BY <3>1, <3>2 DEF ScanAsked
      <4>2. /\ DOMAIN e = DOMAIN d /\ e.active = d.active /\ e.next = d.next
            /\ e.pc = "publish" /\ e.revision = d.revision /\ e.source = d.source
            /\ e.connected = d.connected /\ e.sync = d.sync /\ e.after = d.after
            /\ e.commands = d.commands /\ e.completed = d.completed
        BY <1>7 DEF DaemonShape
      <4> HIDE DEF e
      <4>3. DaemonShape(e) BY <1>7, <4>2 DEF DaemonShape
      <4>4. \A i \in DOMAIN e.commands : Given(e.commands[i]) BY <1>8, <4>2
      <4> QED BY <1>1, <1>6, <4>1, <4>2, <4>3, <4>4, SourceAskedKeeps
    <3>3. CASE d.active # Idle
      <4>1. daemon' = [d EXCEPT !.pc = "publish"] /\ client' = client /\ run' = run
        BY <3>1, <3>3 DEF ScanAsked
      <4>2. ClientsShape' /\ More(<<>>) BY <1>2, <4>1, NothingTold
      <4> QED BY <1>1, <1>2, <1>3, <1>6, <1>7, <1>8, <4>1, <4>2, EndKeeps
    <3> QED BY <3>2, <3>3
  <2> QED BY <2>1, <2>2, <2>3, <2>4, <2>5, <2>6 DEF Starting
<1> QED BY <1>9, <1>10

-----------------------------------------------------------------------------
(* The relay and the worker.                                               *)

\* What the daemon knows does not depend on the worker's input.
LEMMA RunMoves ==
  ASSUME IInv, RunShape(run'), (run'.phase = "none") <=> (run.phase = "none"), run'.route = run.route,
         run'.finished = run.finished, run'.finished => run'.phase = "ended",
         run'.phase \in {"starting", "working", "waiting"} => run.phase \in {"starting", "working", "waiting"},
         PastShape', past'.abandoned = past.abandoned, past'.answers = past.answers,
         past'.resolved \subseteq past.answers,
         \A i \in DOMAIN run'.in : Given(run'.in[i]), daemon' = daemon, client' = client
  PROVE  IInv'
<1>1. Shapes' BY DEF IInv, Shapes
<1>2. SessionInv' BY DEF IInv, SessionInv
<1>3. AnswerInv' BY DEF IInv, AnswerInv, Given, AnswersReachTheirPrompt
<1>4. \A w \in Beliefs : Knows(w) => Knows(w)'
  BY DEF Knows, KnowsDevice, RouteAgrees, SessionOf
<1>5. ClientsShape BY DEF IInv, Shapes, ClientsShape
<1>6. BeliefInv' BY <1>4, <1>5, NothingTold, BeliefStays DEF IInv
<1> QED BY <1>1, <1>2, <1>3, <1>6 DEF IInv

\* The session is over for the relay.
LEMMA EndsKeeps ==
  ASSUME IInv, run.phase # "none", Ends, client' = client, PastShape',
         past'.abandoned = past.abandoned, past'.answers = past.answers,
         past'.resolved = past.resolved
  PROVE  IInv'
<1>1. DaemonShape(daemon) /\ RunShape(run) /\ ClientsShape BY DEF IInv, Shapes, ClientsShape
<1> DEFINE s == run.route.session
<1>2. run' = NoRun /\ daemon' = [daemon EXCEPT !.completed = Append(@, s)] BY DEF Ends
<1>3. daemon.completed = <<>> /\ daemon.active # Idle BY DEF IInv, SessionInv
<1>4. s \in Nat BY <1>1 DEF RunShape, Routes
<1> HIDE DEF s
<1>5. /\ Append(daemon.completed, s) \in Seq(Nat) /\ Append(daemon.completed, s) # <<>>
      /\ Len(Append(daemon.completed, s)) = 1
  BY <1>3, <1>4
<1>6. /\ DOMAIN daemon' = DOMAIN daemon /\ daemon'.active = daemon.active /\ daemon'.next = daemon.next
      /\ daemon'.pc = daemon.pc /\ daemon'.revision = daemon.revision
      /\ daemon'.source = daemon.source
      /\ daemon'.connected = daemon.connected /\ daemon'.sync = daemon.sync
      /\ daemon'.after = daemon.after /\ daemon'.commands = daemon.commands
      /\ daemon'.completed = Append(daemon.completed, s)
  BY <1>1, <1>2 DEF DaemonShape
<1>7. DaemonShape(daemon') BY <1>1, <1>5, <1>6 DEF DaemonShape
<1>8. RunShape(run') /\ run'.phase = "none" /\ run'.in = <<>> /\ run'.finished = FALSE
  BY <1>2 DEF RunShape, NoRun, Phases, Idle, Route, Routes, NoSession
<1>9. ClientsShape' /\ More(<<>>) BY <1>1, NothingTold
<1>10. Shapes' BY <1>7, <1>8, <1>9 DEF Shapes, ClientsShape
<1>11. SessionInv' BY <1>3, <1>5, <1>6, <1>8 DEF IInv, SessionInv
<1>12. AnswerInv' BY <1>6, <1>8 DEF IInv, AnswerInv, Given, AnswersReachTheirPrompt
<1>13. \A w \in Beliefs : Knows(w) => Knows(w)'
  BY <1>5, <1>6 DEF Knows, KnowsDevice, RouteAgrees, SessionOf
<1>14. BeliefInv' BY <1>1, <1>9, <1>13, BeliefStays DEF IInv
<1> QED BY <1>10, <1>11, <1>12, <1>14 DEF IInv

\* The events of a worker.
Said(m) ==
  /\ m.session = run.route.session /\ m.device = run.route.device
  /\ \/ m \in [kind : SyncEvents \ {"prompt"}, device : Devices, session : Nat]
     \/ m \in [kind : {"prompt"}, device : Devices, session : Nat, prompt : Nat, options : Nat]
     \/ m \in [kind : {"library_scan_finished"}, device : {NoDevice}, session : Nat]

\* What a worker says goes to every client, and a client that reads it knows
\* as much of the session as the daemon.
LEMMA SaysKeeps ==
  ASSUME IInv, run.phase \in {"working", "noticed"}, NEW m, NEW r, Said(m),
         RunShape(r), r.route = run.route, r.phase \notin {"none", "starting"},
         m.kind \in Result => r.phase = "ended",
         m.kind \in Notice => r.phase = "noticed",
         m.kind \notin Result \cup Notice => run.phase = "working",
         \A i \in DOMAIN r.in : Given(r.in[i]),
         Says(m, r)
  PROVE  IInv'
<1>1. DaemonShape(daemon) /\ RunShape(run) /\ ClientsShape /\ PastShape
  BY DEF IInv, Shapes, ClientsShape
<1>2. CASE ~AdmittedFromWorker(m, run.route)
  <2>1. Ends /\ client' = client /\ past' = past BY <1>2 DEF Says
  <2> QED BY <1>1, <2>1, EndsKeeps DEF PastShape
<1>3. CASE AdmittedFromWorker(m, run.route)
  <2> DEFINE s == run.route.session
             gone == IF m.kind \in Notice THEN past.abandoned \cup {m.session}
                     ELSE past.abandoned \ {m.session}
  <2>1. /\ run' = [r EXCEPT !.finished = m.kind \in Result] /\ daemon' = daemon
        /\ client' = Told(client, <<m>>)
        /\ past' = [past EXCEPT !.abandoned = gone]
    BY <1>3 DEF Says
  <2>2. /\ run.route = daemon.active /\ daemon.active # Idle /\ daemon.completed = <<>>
        /\ run.finished = FALSE
        /\ s \in 1..(daemon.next - 1) /\ daemon.next \in Nat \ {0}
    BY <1>1 DEF IInv, SessionInv, DaemonShape, RunShape
  <2>3. m \in Events BY DEF Said, Events
  <2>4. <<m>> \in Seq(Events) BY <2>3
  <2>5. ClientsShape' /\ More(<<m>>) BY <1>1, <2>1, <2>4, ToldIs
  <2>6. /\ DOMAIN run' = DOMAIN r /\ run'.in = r.in /\ run'.route = r.route
        /\ run'.phase = r.phase /\ run'.prompt = r.prompt /\ run'.asked = r.asked
        /\ run'.stops = r.stops /\ (run'.finished <=> m.kind \in Result)
        /\ run'.finished \in BOOLEAN
    <3>0. (m.kind \in Result) \in BOOLEAN OBVIOUS
    <3>1. PICK fin \in BOOLEAN : fin = (m.kind \in Result) BY <3>0, Zenon
    <3>2. run' = [r EXCEPT !.finished = fin] BY <2>1, <3>1
    <3>3. /\ DOMAIN run' = DOMAIN r /\ run'.in = r.in /\ run'.route = r.route
          /\ run'.phase = r.phase /\ run'.prompt = r.prompt /\ run'.asked = r.asked
          /\ run'.stops = r.stops /\ run'.finished = fin
      BY <3>2 DEF RunShape, NoRun
    <3> QED BY <3>1, <3>3
  <2>7. RunShape(run') BY <2>6 DEF RunShape
  <2>8. /\ DOMAIN past' = DOMAIN past /\ past'.answers = past.answers
        /\ past'.resolved = past.resolved /\ past'.abandoned = gone
    BY <1>1, <2>1 DEF PastShape
  <2>9. m.session = s BY DEF Said
  <2>10. Shapes'
    <3>1. PastShape' BY <1>1, <2>8 DEF PastShape
    <3> QED BY <1>1, <2>1, <2>5, <2>7, <3>1 DEF Shapes, ClientsShape
  <2>11. SessionInv'
    <3>1. past.abandoned \subseteq 1..(daemon.next - 1) BY DEF IInv, SessionInv
    <3>2. gone \subseteq 1..(daemon.next - 1) BY <2>2, <2>9, <3>1
    <3>3. run'.phase \in {"starting", "working", "waiting"} => s \notin gone
      <4>1. m.kind \in Notice => r.phase = "noticed" OBVIOUS
      <4>2. m.kind \notin Notice => s \notin gone BY <2>9
      <4> QED BY <2>6, <4>1, <4>2
    <3> QED BY <2>1, <2>2, <2>6, <2>8, <3>2, <3>3 DEF SessionInv
  <2>12. AnswerInv' BY <2>1, <2>6, <2>8 DEF IInv, AnswerInv, Given, AnswersReachTheirPrompt
  <2>13. ASSUME NEW w \in Beliefs, Knows(w)
         PROVE  Learn(w, m) \in Beliefs /\ Knows(Learn(w, m))'
    <3> DEFINE D == run.route.device
               a == past.abandoned
    <3>1. /\ w.revision <= daemon.revision /\ w.source = daemon.source
          /\ s \in Nat \ {0} /\ daemon.active.session = s /\ daemon.active.device = D
          /\ s < daemon.next
      BY <2>2, <2>13 DEF Knows
    <3>2. ASSUME NEW d \in Devices
          PROVE  /\ w.route[d] \in Nat /\ w.route[d] < daemon.next
                 /\ w.route[d] = s => d = D
                 /\ d \in w.awaiting =>
                      \/ w.route[d] \in a
                      \/ daemon.pc = "publish" /\ w.route[d] # 0 /\ w.route[d] = SessionOf(d)
                 /\ daemon.pc = "loop" =>
                      \/ w.route[d] = SessionOf(d)
                      \/ SessionOf(d) = NoSession /\ w.route[d] \in a
      BY <2>2, <2>13, <3>1 DEF Knows, KnowsDevice, RouteAgrees, Beliefs
    <3>3. D = m.device /\ m.session = s BY DEF Said
    <3>4. m.kind \in Notice \cup {"sync_finished"} =>
            /\ D \in Devices /\ m.kind \in SyncEvents
            /\ {"kind", "device", "session"} \subseteq DOMAIN m
      BY <3>3 DEF Said, Notice, SyncEvents
    <3>5. SessionOf(D) = s BY <3>1 DEF SessionOf
    <3> HIDE DEF s, D, a, gone
    <3>6. ASSUME NEW u \in Beliefs, u.revision = w.revision, u.source = w.source,
                 \A d \in Devices :
                   /\ u.route[d] < daemon.next
                   /\ u.route[d] = s => d = D
                   /\ d \in u.awaiting =>
                        \/ u.route[d] \in gone
                        \/ daemon.pc = "publish" /\ u.route[d] # 0 /\ u.route[d] = SessionOf(d)
                   /\ daemon.pc = "loop" =>
                        \/ u.route[d] = SessionOf(d)
                        \/ u.route[d] = NoSession /\ m.kind \in Result
                        \/ SessionOf(d) = NoSession /\ u.route[d] \in gone
          PROVE  Knows(u)'
      BY <2>1, <2>6, <2>8, <3>1, <3>6 DEF Knows, KnowsDevice, RouteAgrees, SessionOf
    <3>7. ASSUME Learn(w, m) = w, m.kind \in Notice \/ (\A d \in Devices : w.route[d] # s) \/ s \notin a
          PROVE  Learn(w, m) \in Beliefs /\ Knows(Learn(w, m))'
      <4>1. PICK u \in Beliefs : u = w OBVIOUS
      <4>2. \A d \in Devices : w.route[d] \in a => w.route[d] \in gone
        BY <3>3, <3>7 DEF gone, a
      <4>3. Knows(u)' BY <3>2, <3>6, <4>1, <4>2
      <4>4. Learn(w, m) = u BY <3>7, <4>1
      <4> QED BY <4>3, <4>4
    <3>8. CASE m.kind = "library_scan_finished"
      <4>1. Learn(w, m) = w BY <3>8, ScanSaid DEF Said, SyncEvents
      <4>2. D \notin Devices BY <3>3, <3>8, WireAssumption DEF Said, SyncEvents
      <4> QED BY <3>2, <3>7, <4>1, <4>2
    <3>9. CASE m.kind \in Notice
      <4>1. Learn(w, m) = LearnProgress(w, m) BY <3>3, <3>4, <3>9, ProgressSaid
      <4>2. CASE w.route[D] # s BY <3>3, <3>7, <3>9, <4>1, <4>2 DEF LearnProgress
      <4>3. CASE w.route[D] = s
        <5>1. PICK u \in Beliefs : u = [w EXCEPT !.awaiting = @ \cup {D}]
          BY <3>4, <3>9 DEF Beliefs
        <5>2. Learn(w, m) = u BY <3>3, <3>9, <4>1, <4>3, <5>1 DEF LearnProgress
        <5>3. /\ u.revision = w.revision /\ u.source = w.source /\ u.route = w.route
              /\ u.awaiting = w.awaiting \cup {D}
          BY <5>1 DEF Beliefs
        <5>4. gone = a \cup {s} BY <3>3, <3>9 DEF gone, a
        <5>5. Knows(u)' BY <3>2, <3>6, <4>3, <5>3, <5>4
        <5> QED BY <5>2, <5>5
      <4> QED BY <4>2, <4>3
    <3>10. CASE m.kind = "sync_finished"
      <4>1. Learn(w, m) = LearnProgress(w, m) BY <3>3, <3>4, <3>10, ProgressSaid
      <4>2. CASE w.route[D] # s
        <5>1. \A d \in Devices : w.route[d] # s BY <3>2, <4>2
        <5> QED BY <3>3, <3>7, <4>1, <4>2, <5>1 DEF LearnProgress
      <4>3. CASE w.route[D] = s
        <5>1. PICK u \in Beliefs :
                u = [w EXCEPT !.awaiting = @ \ {D}, !.route[D] = NoSession]
          BY <3>4, <3>10 DEF Beliefs, NoSession
        <5>2. Learn(w, m) = u BY <3>3, <3>10, <4>1, <4>3, <5>1 DEF LearnProgress, Notice
        <5>3. /\ u.revision = w.revision /\ u.source = w.source
              /\ u.route = [w.route EXCEPT ![D] = 0] /\ u.awaiting = w.awaiting \ {D}
          BY <5>1 DEF Beliefs, NoSession
        <5>4. gone = a \ {s} BY <3>3, <3>10 DEF gone, a, Notice
        <5>5. w.route \in [Devices -> Nat] /\ D \in Devices BY <3>4, <3>10 DEF Beliefs
        <5>6. ASSUME NEW d \in Devices
              PROVE  /\ u.route[d] < daemon.next
                     /\ u.route[d] = s => d = D
                     /\ d \in u.awaiting =>
                          \/ u.route[d] \in gone
                          \/ daemon.pc = "publish" /\ u.route[d] # 0 /\ u.route[d] = SessionOf(d)
                     /\ daemon.pc = "loop" =>
                          \/ u.route[d] = SessionOf(d)
                          \/ u.route[d] = NoSession /\ m.kind \in Result
                          \/ SessionOf(d) = NoSession /\ u.route[d] \in gone
          <6>1. CASE d = D
            <7>1. u.route[d] = 0 /\ d \notin u.awaiting BY <5>3, <5>5, <6>1
            <7> QED BY <3>1, <3>10, <7>1, <2>2 DEF Result, NoSession
          <6>2. CASE d # D
            <7>1. u.route[d] = w.route[d] /\ (d \in u.awaiting <=> d \in w.awaiting)
                  /\ w.route[d] # s
              BY <3>2, <5>3, <5>5, <6>2
            <7> QED BY <3>2, <5>4, <7>1
          <6> QED BY <6>1, <6>2
        <5>7. Knows(u)' BY <3>6, <5>3, <5>6
        <5> QED BY <5>2, <5>7
      <4> QED BY <4>2, <4>3
    <3>11. CASE m.kind \notin Notice \cup {"library_scan_finished", "sync_finished"}
      <4>1. /\ D \in Devices /\ m.kind \in SyncEvents
            /\ {"kind", "device", "session"} \subseteq DOMAIN m
        BY <3>3, <3>11 DEF Said, SyncEvents
      <4>2. Learn(w, m) = LearnProgress(w, m) BY <3>3, <4>1, ProgressSaid
      <4>3. LearnProgress(w, m) = w BY <3>11 DEF LearnProgress
      <4>4. run.phase = "working" BY <3>11 DEF Result
      <4>5. s \notin a BY <2>2, <4>4 DEF IInv, SessionInv, s, a
      <4> QED BY <3>7, <4>2, <4>3, <4>5
    <3> QED BY <3>8, <3>9, <3>10, <3>11
  <2>14. BeliefInv' BY <1>1, <2>3, <2>5, <2>13, BeliefTold DEF IInv
  <2> QED BY <2>10, <2>11, <2>12, <2>14 DEF IInv
<1> QED BY <1>2, <1>3

\* A set of places that is not empty has a first one.
LEMMA FirstOf ==
  ASSUME NEW S, S \subseteq Nat, S # {}
  PROVE  (CHOOSE i \in S : \A j \in S : i <= j) \in S
<1> DEFINE R == OpToRel(<, Nat)
<1>1. PICK x \in S : \A y \in S : ~ (<<y, x>> \in R)
  BY WFMin, NatLessThanWellFounded
<1>2. ASSUME NEW y \in S
      PROVE  x <= y
  <2>1. x \in Nat /\ y \in Nat OBVIOUS
  <2>2. y < x => <<y, x>> \in R
    BY <2>1 DEF OpToRel
  <2> HIDE DEF R
  <2>3. ~ (y < x) BY <1>1, <2>2
  <2> QED BY <2>1, <2>3
<1> QED BY <1>2

\* What is written to the worker's input, given to the prompt it names.
LEMMA GivenAppend ==
  ASSUME NEW in \in Seq(Orders), NEW m \in Orders, Given(m), \A i \in DOMAIN in : Given(in[i])
  PROVE  Append(in, m) \in Seq(Orders) /\ \A i \in DOMAIN Append(in, m) : Given(Append(in, m)[i])
<1>1. /\ Append(in, m) \in Seq(Orders) /\ Len(Append(in, m)) = Len(in) + 1
      /\ \A i \in 1..Len(in) : Append(in, m)[i] = in[i]
      /\ Append(in, m)[Len(in) + 1] = m
  BY AppendProperties
<1>2. /\ DOMAIN Append(in, m) = 1..(Len(in) + 1)
      /\ DOMAIN in = 1..Len(in) /\ Len(in) \in Nat
  BY <1>1, LenProperties
<1>3. ASSUME NEW i \in DOMAIN Append(in, m) PROVE Given(Append(in, m)[i])
  <2>1. CASE i = Len(in) + 1 BY <1>1, <2>1
  <2>2. CASE i # Len(in) + 1
    <3>1. i \in 1..Len(in) BY <1>2, <2>2
    <3>2. Append(in, m)[i] = in[i] /\ i \in DOMAIN in BY <1>1, <1>2, <3>1
    <3> QED BY <3>2
  <2> QED BY <2>1, <2>2
<1> QED BY <1>1, <1>3

\* What is left of an input once its head is read, or everything up to a place in it.
LEMMA GivenRest ==
  ASSUME NEW in \in Seq(Orders), \A i \in DOMAIN in : Given(in[i]), NEW j \in 1..Len(in)
  PROVE  LET rest == SubSeq(in, j + 1, Len(in)) IN
         rest \in Seq(Orders) /\ \A i \in DOMAIN rest : Given(rest[i])
<1> DEFINE rest == SubSeq(in, j + 1, Len(in))
<1>1. DOMAIN in = 1..Len(in) /\ Len(in) \in Nat /\ j \in Nat BY LenProperties
<1>2. \A i \in (j + 1)..Len(in) : in[i] \in Orders BY <1>1, ElementOfSeq
<1>3. j + 1 \in Int /\ Len(in) \in Int BY <1>1
<1>4. /\ rest \in Seq(Orders)
      /\ Len(rest) = IF j + 1 <= Len(in) THEN Len(in) - (j + 1) + 1 ELSE 0
      /\ \A i \in 1..(Len(in) - (j + 1) + 1) : rest[i] = in[(j + 1) + i - 1]
  BY <1>2, <1>3, SubSeqProperties
<1> HIDE DEF rest
<1>5. DOMAIN rest = 1..Len(rest) BY <1>4, LenProperties
<1>6. ASSUME NEW i \in DOMAIN rest PROVE Given(rest[i])
  <2> DEFINE n == Len(in)
             k == (j + 1) + i - 1
  <2>1. i \in 1..Len(rest) BY <1>5
  <2> HIDE DEF n
  <2>2. n \in Nat /\ j \in 1..n /\ Len(rest) = IF j + 1 <= n THEN n - (j + 1) + 1 ELSE 0
    BY <1>1, <1>4 DEF n
  <2>3. i \in 1..(n - (j + 1) + 1) /\ k \in 1..n BY <2>1, <2>2
  <2>4. rest[i] = in[k] BY <1>4, <2>3 DEF n
  <2> QED BY <1>1, <2>3, <2>4 DEF n
<1> QED BY <1>4, <1>6 DEF rest

\* Of the stops that wait at most one is written.
LEMMA ForwardStopKeeps ==
  ASSUME IInv, ForwardStop
  PROVE  IInv'
<1>1. PICK kind \in run.stops :
        run' = [run EXCEPT !.stops = @ \ {kind}, !.stopped = TRUE,
                  !.in = IF run.stopped THEN @ ELSE Append(@, Owned(kind, 0))]
  BY DEF ForwardStop
<1>2. RunShape(run) /\ PastShape /\ \A i \in DOMAIN run.in : Given(run.in[i])
  BY DEF IInv, Shapes, AnswerInv
<1> DEFINE m == Owned(kind, 0)
           in == IF run.stopped THEN run.in ELSE Append(run.in, m)
<1>3. m \in Orders /\ Given(m)
  BY <1>2 DEF Owned, Orders, RunShape, Routes, Steering, Given
<1> HIDE DEF m
<1>4. in \in Seq(Orders) /\ \A i \in DOMAIN in : Given(in[i])
  BY <1>2, <1>3, GivenAppend DEF RunShape
<1>5. run' = [run EXCEPT !.stops = @ \ {kind}, !.stopped = TRUE, !.in = in] BY <1>1 DEF m
<1> HIDE DEF in
<1>6. /\ DOMAIN run' = DOMAIN run /\ run'.in = in /\ run'.route = run.route
      /\ run'.phase = run.phase /\ run'.prompt = run.prompt /\ run'.asked = run.asked
      /\ run'.stops = run.stops \ {kind} /\ run'.finished = run.finished
  BY <1>2, <1>5 DEF RunShape, NoRun
<1>7. RunShape(run') BY <1>2, <1>4, <1>6 DEF RunShape
<1>8. daemon' = daemon /\ client' = client /\ past' = past BY DEF ForwardStop
<1>9. PastShape' BY <1>2, <1>8 DEF PastShape
<1>10. run.finished => run.phase = "ended" BY DEF IInv, SessionInv
<1>11. past.resolved \subseteq past.answers BY DEF IInv, AnswerInv, AnswersReachTheirPrompt
<1> QED BY <1>4, <1>6, <1>7, <1>8, <1>9, <1>10, <1>11, RunMoves

\* A worker whose output ends has ended.
LEMMA EndOfOutputKeeps ==
  ASSUME IInv, EndOfOutput
  PROVE  IInv'
<1>1. PastShape BY DEF IInv, Shapes
<1>2. run.phase # "none" /\ Ends /\ client' = client /\ past' = past BY DEF EndOfOutput
<1>3. PastShape' BY <1>1, <1>2 DEF PastShape
<1> QED BY <1>2, <1>3, EndsKeeps

\* So has one that is not greeted as a worker.
LEMMA WorkerStartsKeeps ==
  ASSUME IInv, WorkerStarts
  PROVE  IInv'
<1>1. RunShape(run) /\ PastShape /\ \A i \in DOMAIN run.in : Given(run.in[i])
  BY DEF IInv, Shapes, AnswerInv
<1>2. run.phase = "starting" /\ client' = client /\ past' = past BY DEF WorkerStarts
<1>3. PastShape' BY <1>1, <1>2 DEF PastShape
<1>4. CASE Ends BY <1>2, <1>3, <1>4, EndsKeeps
<1>5. CASE run' = [run EXCEPT !.phase = "working"] /\ daemon' = daemon
  <2>1. /\ DOMAIN run' = DOMAIN run /\ run'.in = run.in /\ run'.route = run.route
        /\ run'.phase = "working" /\ run'.prompt = run.prompt /\ run'.asked = run.asked
        /\ run'.stops = run.stops /\ run'.finished = run.finished
    BY <1>1, <1>5 DEF RunShape, NoRun
  <2>2. RunShape(run') BY <1>1, <2>1 DEF RunShape, Phases
  <2>3. run.finished => run.phase = "ended" BY DEF IInv, SessionInv
  <2>4. past.resolved \subseteq past.answers BY DEF IInv, AnswerInv, AnswersReachTheirPrompt
  <2> QED BY <1>1, <1>2, <1>3, <1>5, <2>1, <2>2, <2>3, <2>4, RunMoves
<1> QED BY <1>4, <1>5 DEF WorkerStarts

\* A worker that waits takes no answer but one given to its prompt.
LEMMA WorkerHearsKeeps ==
  ASSUME IInv, WorkerHears
  PROVE  IInv'
<1> DEFINE m == Head(run.in)
           answered == /\ WorkerTakes(m, run.route) /\ m.kind = "prompt_decision"
                       /\ m.prompt = run.prompt
<1>1. RunShape(run) /\ PastShape /\ \A i \in DOMAIN run.in : Given(run.in[i])
  BY DEF IInv, Shapes, AnswerInv
<1>2. /\ run.phase = "waiting" /\ run.in # <<>> /\ daemon' = daemon /\ client' = client
      /\ run' = [run EXCEPT !.in = Tail(@), !.phase = IF answered THEN "working" ELSE @]
      /\ past' = IF answered
                 THEN [past EXCEPT !.resolved = @ \cup {<<run.route.session, run.prompt>>}]
                 ELSE past
  BY DEF WorkerHears
<1> DEFINE q == run.in
           rest == Tail(q)
<1> HIDE DEF q
<1>3. q \in Seq(Orders) /\ q # <<>> /\ \A i \in DOMAIN q : Given(q[i]) BY <1>1, <1>2 DEF RunShape, q
<1>4. /\ Len(q) \in Nat \ {0} /\ DOMAIN q = 1..Len(q) /\ Head(q) = q[1]
      /\ rest \in Seq(Orders) /\ Len(rest) = Len(q) - 1 /\ DOMAIN rest = 1..Len(rest)
      /\ \A i \in 1..Len(rest) : rest[i] = q[i + 1]
  BY <1>3, EmptySeq, LenProperties, HeadTailProperties
<1> HIDE DEF rest
<1>5. Given(m) BY <1>3, <1>4 DEF q
<1>6. ASSUME NEW i \in DOMAIN rest PROVE Given(rest[i])
  <2>1. i + 1 \in DOMAIN q /\ rest[i] = q[i + 1] BY <1>4
  <2> QED BY <1>3, <2>1
<1>7. \/ m.session = run.route.session /\ m.prompt = run.prompt /\ m.kind = "prompt_decision"
      \/ ~answered
  BY DEF WorkerTakes, CommandRoute, Route
<1> HIDE DEF answered, m
<1>8. run'.phase = IF answered THEN "working" ELSE "waiting"
  BY <1>1, <1>2 DEF RunShape, NoRun
<1>9. /\ DOMAIN run' = DOMAIN run /\ run'.in = rest /\ run'.route = run.route
      /\ run'.prompt = run.prompt /\ run'.asked = run.asked
      /\ run'.stops = run.stops /\ run'.finished = run.finished
  BY <1>1, <1>2 DEF RunShape, NoRun, rest, q
<1>10. RunShape(run') BY <1>1, <1>4, <1>8, <1>9 DEF RunShape, Phases
<1>11. past.resolved \subseteq past.answers BY DEF IInv, AnswerInv, AnswersReachTheirPrompt
<1>12. /\ PastShape' /\ past'.abandoned = past.abandoned /\ past'.answers = past.answers
       /\ past'.resolved \subseteq past.answers
  <2>1. CASE answered
    <3>1. past' = [past EXCEPT !.resolved = @ \cup {<<run.route.session, run.prompt>>}]
      BY <1>2, <2>1
    <3>2. <<run.route.session, run.prompt>> \in past.answers BY <1>5, <1>7, <2>1 DEF Given
    <3> QED BY <1>1, <1>11, <3>1, <3>2 DEF PastShape
  <2>2. CASE ~answered BY <1>1, <1>2, <1>11, <2>2 DEF PastShape
  <2> QED BY <2>1, <2>2
<1>13. run.finished => run.phase = "ended" BY DEF IInv, SessionInv
<1> QED BY <1>2, <1>6, <1>8, <1>9, <1>10, <1>12, <1>13, RunMoves

\* A worker that dies says no more.
LEMMA WorkerDiesKeeps ==
  ASSUME IInv, WorkerDies
  PROVE  IInv'
<1>1. RunShape(run) /\ PastShape /\ \A i \in DOMAIN run.in : Given(run.in[i])
  BY DEF IInv, Shapes, AnswerInv
<1>2. /\ run.phase \in {"working", "waiting", "noticed"} /\ Fault
      /\ run' = [run EXCEPT !.phase = "ended"] /\ client' = client /\ daemon' = daemon
  BY DEF WorkerDies
<1>3. /\ PastShape' /\ past'.abandoned = past.abandoned /\ past'.answers = past.answers
      /\ past'.resolved = past.resolved
  BY <1>1, <1>2, FaultIs
<1>4. /\ DOMAIN run' = DOMAIN run /\ run'.in = run.in /\ run'.route = run.route
      /\ run'.phase = "ended" /\ run'.prompt = run.prompt /\ run'.asked = run.asked
      /\ run'.stops = run.stops /\ run'.finished = run.finished
  BY <1>1, <1>2 DEF RunShape, NoRun
<1>5. RunShape(run') BY <1>1, <1>4 DEF RunShape, Phases
<1>6. past.resolved \subseteq past.answers BY DEF IInv, AnswerInv, AnswersReachTheirPrompt
<1>7. \A i \in DOMAIN run'.in : Given(run'.in[i])
  BY <1>1, <1>3, <1>4 DEF Given
<1> QED BY <1>2, <1>3, <1>4, <1>5, <1>6, <1>7, RunMoves

-----------------------------------------------------------------------------
(* The worker's output.                                                    *)

\* Progress of a device's session.
LEMMA RoutedSaid ==
  ASSUME IInv, run.phase # "none", NEW kind, kind \in SyncEvents \ {"prompt"}, ~Scanning
  PROVE  Said(Routed(kind, run.route))
<1>1. run.route.device \in Devices /\ run.route.session \in Nat
  BY DEF IInv, Shapes, RunShape, Routes, Scanning
<1> QED BY <1>1 DEF Said, Routed

\* The kinds a worker may say.
LEMMA Kinds ==
  /\ Reports \subseteq SyncEvents \ ({"prompt"} \cup Notice \cup Result)
  /\ {"finalizing", "sync_paused", "sync_cancelled", "sync_finished"} \subseteq SyncEvents \ {"prompt"}
  /\ {"finalizing", "prompt"} \cap (Notice \cup Result) = {}
  /\ Notice \cap Result = {}
BY ClientsAssumption DEF Progress, SyncEvents, Notice, Result

\* A worker that asks waits for the answer.
LEMMA WorkerAsksKeeps ==
  ASSUME IInv, WorkerAsks
  PROVE  IInv'
<1> DEFINE m == Prompted(run.route, run.asked + 1)
           r == [run EXCEPT !.phase = "waiting", !.asked = @ + 1, !.prompt = run.asked + 1]
<1>1. RunShape(run) /\ \A i \in DOMAIN run.in : Given(run.in[i]) BY DEF IInv, Shapes, AnswerInv
<1>2. run.phase = "working" /\ ~Scanning /\ Says(m, r) BY DEF WorkerAsks
<1>3. run.route.device \in Devices /\ run.route.session \in Nat /\ run.asked + 1 \in Nat
  BY <1>1, <1>2 DEF RunShape, Routes, Scanning
<1>4. m.kind = "prompt" /\ Said(m) BY <1>3 DEF Said, Prompted
<1>5. /\ DOMAIN r = DOMAIN run /\ r.in = run.in /\ r.route = run.route
      /\ r.phase = "waiting" /\ r.prompt = run.asked + 1 /\ r.asked = run.asked + 1
      /\ r.stops = run.stops /\ r.finished = run.finished
  BY <1>1 DEF RunShape, NoRun
<1> HIDE DEF m, r
<1>6. RunShape(r) BY <1>1, <1>3, <1>5 DEF RunShape, Phases
<1> QED BY <1>1, <1>2, <1>4, <1>5, <1>6, Kinds, SaysKeeps

\* A worker that reports goes on.
LEMMA WorkerReportsKeeps ==
  ASSUME IInv, WorkerReports
  PROVE  IInv'
<1>1. RunShape(run) /\ \A i \in DOMAIN run.in : Given(run.in[i]) BY DEF IInv, Shapes, AnswerInv
<1>2. PICK kind \in Reports :
        Says(Routed(kind, run.route), [run EXCEPT !.reported = @ + 1])
  BY DEF WorkerReports
<1>3. run.phase = "working" /\ ~Scanning BY DEF WorkerReports
<1> DEFINE m == Routed(kind, run.route)
           r == [run EXCEPT !.reported = @ + 1]
<1>4. m.kind = kind BY DEF Routed
<1>5. Said(m) BY <1>3, Kinds, RoutedSaid
<1>6. Says(m, r) BY <1>2
<1>7. /\ DOMAIN r = DOMAIN run /\ r.in = run.in /\ r.route = run.route
      /\ r.phase = run.phase /\ r.prompt = run.prompt /\ r.asked = run.asked
      /\ r.stops = run.stops /\ r.finished = run.finished
  BY <1>1 DEF RunShape, NoRun
<1> HIDE DEF m, r
<1>8. RunShape(r) BY <1>1, <1>7 DEF RunShape
<1> QED BY <1>1, <1>3, <1>4, <1>5, <1>6, <1>7, <1>8, Kinds, SaysKeeps

\* A worker that looks at its input throws answers away and heeds the first stop.
LEMMA WorkerPollsKeeps ==
  ASSUME IInv, WorkerPolls
  PROVE  IInv'
<1> DEFINE stops == {i \in DOMAIN run.in : run.in[i].kind # "prompt_decision"}
           first == CHOOSE i \in stops : \A j \in stops : i <= j
<1>1. RunShape(run) /\ PastShape /\ \A i \in DOMAIN run.in : Given(run.in[i])
  BY DEF IInv, Shapes, AnswerInv
<1>2. run.phase = "working" /\ ~Scanning BY DEF WorkerPolls
<1>3. run.in \in Seq(Orders) /\ DOMAIN run.in = 1..Len(run.in)
  BY <1>1, LenProperties DEF RunShape
<1>4. CASE stops = {}
  <2>1. run' = [run EXCEPT !.in = <<>>] /\ daemon' = daemon /\ client' = client /\ past' = past
    BY <1>4 DEF WorkerPolls
  <2>2. /\ DOMAIN run' = DOMAIN run /\ run'.in = <<>> /\ run'.route = run.route
        /\ run'.phase = run.phase /\ run'.prompt = run.prompt /\ run'.asked = run.asked
        /\ run'.stops = run.stops /\ run'.finished = run.finished
    BY <1>1, <2>1 DEF RunShape, NoRun
  <2>3. RunShape(run') BY <1>1, <2>2 DEF RunShape
  <2>4. PastShape' BY <1>1, <2>1 DEF PastShape
  <2>5. run.finished => run.phase = "ended" BY DEF IInv, SessionInv
  <2>6. past.resolved \subseteq past.answers BY DEF IInv, AnswerInv, AnswersReachTheirPrompt
  <2>7. \A i \in DOMAIN run'.in : Given(run'.in[i]) BY <2>2
  <2> QED BY <1>2, <2>1, <2>2, <2>3, <2>4, <2>5, <2>6, <2>7, RunMoves
<1>5. CASE stops # {}
  <2> DEFINE m == Routed("finalizing", run.route)
             r == [run EXCEPT !.stop = run.in[first].kind,
                              !.in = SubSeq(@, first + 1, Len(@))]
  <2>1. Says(m, r) BY <1>5 DEF WorkerPolls
  <2>2. stops \subseteq Nat BY <1>3
  <2>3. first \in stops BY <1>5, <2>2, FirstOf
  <2> HIDE DEF first
  <2>4. first \in 1..Len(run.in) BY <1>3, <2>3
  <2>5. /\ SubSeq(run.in, first + 1, Len(run.in)) \in Seq(Orders)
        /\ \A i \in DOMAIN SubSeq(run.in, first + 1, Len(run.in)) :
             Given(SubSeq(run.in, first + 1, Len(run.in))[i])
    BY <1>1, <1>3, <2>4, GivenRest
  <2>6. /\ DOMAIN r = DOMAIN run /\ r.in = SubSeq(run.in, first + 1, Len(run.in))
        /\ r.route = run.route /\ r.phase = run.phase /\ r.prompt = run.prompt
        /\ r.asked = run.asked /\ r.stops = run.stops /\ r.finished = run.finished
    BY <1>1 DEF RunShape, NoRun
  <2> HIDE DEF r
  <2>7. RunShape(r) BY <1>1, <2>5, <2>6 DEF RunShape
  <2>8. m.kind = "finalizing" BY DEF Routed
  <2>9. Said(m) BY <1>2, Kinds, RoutedSaid
  <2>10. \A i \in DOMAIN r.in : Given(r.in[i]) BY <2>5, <2>6
  <2> HIDE DEF m
  <2> QED BY <1>2, <2>1, <2>6, <2>7, <2>8, <2>9, <2>10, Kinds, SaysKeeps
<1> QED BY <1>4, <1>5

\* A worker that stops says so first.
LEMMA WorkerNoticesKeeps ==
  ASSUME IInv, WorkerNotices
  PROVE  IInv'
<1> DEFINE kind == IF run.stop = "pause_sync" THEN "sync_paused" ELSE "sync_cancelled"
           m == Routed(kind, run.route)
           r == [run EXCEPT !.phase = "noticed"]
<1>1. RunShape(run) /\ \A i \in DOMAIN run.in : Given(run.in[i]) BY DEF IInv, Shapes, AnswerInv
<1>2. run.phase = "working" /\ run.stop # "none" /\ Says(m, r) BY DEF WorkerNotices
<1>3. m.kind \in Notice BY DEF Routed, Notice
<1>4. CASE Scanning
  <2>1. ~AdmittedFromWorker(m, run.route)
    BY <1>4 DEF AdmittedFromWorker, RoutedBy, MatchesDevice, Scanning, Routed, ScanEvents
  <2>2. Ends /\ client' = client /\ past' = past BY <1>2, <2>1 DEF Says
  <2>3. PastShape' BY <2>2 DEF IInv, Shapes, PastShape
  <2> QED BY <1>2, <2>2, <2>3, EndsKeeps
<1>5. ~Scanning => Said(m) BY <1>2, Kinds, RoutedSaid
<1>6. /\ DOMAIN r = DOMAIN run /\ r.in = run.in /\ r.route = run.route
      /\ r.phase = "noticed" /\ r.prompt = run.prompt /\ r.asked = run.asked
      /\ r.stops = run.stops /\ r.finished = run.finished
  BY <1>1 DEF RunShape, NoRun
<1> HIDE DEF m, r
<1>7. RunShape(r) BY <1>1, <1>6 DEF RunShape, Phases
<1> QED BY <1>1, <1>2, <1>3, <1>4, <1>5, <1>6, <1>7, Kinds, SaysKeeps

\* A worker that is done says so last.
LEMMA WorkerFinishesKeeps ==
  ASSUME IInv, WorkerFinishes
  PROVE  IInv'
<1> DEFINE kind == IF Scanning THEN "library_scan_finished" ELSE "sync_finished"
           m == Routed(kind, run.route)
           r == [run EXCEPT !.phase = "ended"]
<1>1. RunShape(run) /\ \A i \in DOMAIN run.in : Given(run.in[i]) BY DEF IInv, Shapes, AnswerInv
<1>2. run.phase \in {"working", "noticed"} /\ Says(m, r) BY DEF WorkerFinishes
<1>3. m.kind \in Result BY DEF Routed, Result
<1>4. Said(m)
  <2>1. CASE Scanning BY <1>1, <2>1 DEF Said, Routed, Scanning, RunShape, Routes
  <2>2. CASE ~Scanning BY <1>2, <2>2, Kinds, RoutedSaid
  <2> QED BY <2>1, <2>2
<1>5. /\ DOMAIN r = DOMAIN run /\ r.in = run.in /\ r.route = run.route
      /\ r.phase = "ended" /\ r.prompt = run.prompt /\ r.asked = run.asked
      /\ r.stops = run.stops /\ r.finished = run.finished
  BY <1>1 DEF RunShape, NoRun
<1> HIDE DEF m, r
<1>6. RunShape(r) BY <1>1, <1>5 DEF RunShape, Phases
<1> QED BY <1>1, <1>2, <1>3, <1>4, <1>5, <1>6, Kinds, SaysKeeps

-----------------------------------------------------------------------------
(* The clients.                                                            *)

\* One client moves, and the others do not.
Moved(c, l) ==
  /\ DOMAIN client' = DOMAIN client
  /\ \A x \in DOMAIN client : client'[x] = IF x = c THEN l ELSE client[x]

\* A client that moves leaves the others as they are; it must be informed
\* itself.
LEMMA ClientMoves ==
  ASSUME IInv, NEW c \in Clients, NEW l, ClientShape(l),
         Moved(c, l),
         DaemonShape(daemon'), daemon'.active = daemon.active, daemon'.next = daemon.next,
         daemon'.pc = daemon.pc, daemon'.source = daemon.source,
         daemon'.completed = daemon.completed, daemon'.revision >= daemon.revision,
         run' = run, PastShape', past'.abandoned = past.abandoned, past'.resolved = past.resolved,
         past.answers \subseteq past'.answers,
         \A i \in DOMAIN daemon'.commands :
           daemon'.commands[i].kind = "prompt_decision" =>
             <<daemon'.commands[i].session, daemon'.commands[i].prompt>> \in past'.answers,
         Subscribed(l) /\ ~l.lagged =>
           \/ Doomed(Unread(l))
           \/ \E w \in Beliefs : Leads(Belief(l.view), Unread(l), w) /\ (Knows(w) \/ Knows(w)')
  PROVE  IInv'
<1>1. ClientsShape /\ DaemonShape(daemon) /\ RunShape(run) BY DEF IInv, Shapes, ClientsShape
<1>2. DOMAIN client' = Clients /\ client'[c] = l /\ \A x \in Clients \ {c} : client'[x] = client[x]
  BY <1>1 DEF ClientsShape, Moved
<1>3. ClientsShape' BY <1>1, <1>2 DEF ClientsShape
<1>4. Shapes' BY <1>1, <1>3 DEF Shapes, ClientsShape
<1>5. SessionInv' BY DEF IInv, SessionInv
<1>6. AnswerInv' BY DEF IInv, AnswerInv, Given, AnswersReachTheirPrompt
<1>7. \A w \in Beliefs : Knows(w) => Knows(w)'
  <2>1. daemon.revision \in Nat /\ daemon'.revision \in Nat BY <1>1 DEF DaemonShape
  <2>2. \A w \in Beliefs : w.revision \in Nat BY DEF Beliefs
  <2> QED BY <2>1, <2>2 DEF Knows, KnowsDevice, RouteAgrees, SessionOf
<1>8. ASSUME NEW x \in Clients, Subscribed(client'[x]), ~client'[x].lagged
      PROVE  \/ Doomed(Unread(client'[x]))
             \/ \E u \in Beliefs : Leads(Belief(client'[x].view), Unread(client'[x]), u) /\ Knows(u)'
  <2>1. CASE x = c BY <1>2, <1>7, <1>8, <2>1
  <2>2. CASE x # c
    <3>1. client'[x] = client[x] BY <1>2, <2>2
    <3>2. Informed(client[x]) BY <1>8, <3>1 DEF IInv, BeliefInv
    <3> QED BY <1>7, <3>1, <3>2 DEF Informed
  <2> QED BY <2>1, <2>2
<1>9. BeliefInv' BY <1>8 DEF BeliefInv, Informed
<1> QED BY <1>4, <1>5, <1>6, <1>9 DEF IInv

\* A client that knows what it knew.
LEMMA ClientReads ==
  ASSUME IInv, NEW c \in Clients, NEW l, ClientShape(l), client' = [client EXCEPT ![c] = l],
         daemon' = daemon, run' = run, past' = past, Subscribed(l) /\ ~l.lagged => Informed(l)
  PROVE  IInv'
<1>1. DaemonShape(daemon) /\ PastShape BY DEF IInv, Shapes
<1>2. daemon'.revision >= daemon.revision BY <1>1 DEF DaemonShape
<1>3. \A i \in DOMAIN daemon'.commands :
        daemon'.commands[i].kind = "prompt_decision" =>
          <<daemon'.commands[i].session, daemon'.commands[i].prompt>> \in past'.answers
  BY DEF IInv, AnswerInv, Given
<1>4. PastShape' BY <1>1 DEF PastShape
<1>5. Moved(c, l) BY DEF Moved
<1> QED BY <1>1, <1>2, <1>3, <1>4, <1>5, ClientMoves DEF Informed

\* A client that is greeted has heard nothing.
LEMMA GreetKeeps ==
  ASSUME IInv, NEW c \in Clients, Greet(c)
  PROVE  IInv'
<1> DEFINE l == [NoClient EXCEPT !.conn = "greeted"]
<1>1. DaemonShape(daemon) /\ PastShape BY DEF IInv, Shapes
<1>2. /\ client' = [client EXCEPT ![c] = l] /\ daemon' = daemon /\ run' = run
      /\ past' = [past EXCEPT !.connects = @ + 1]
  BY DEF Greet
<1>3. /\ PastShape' /\ past'.abandoned = past.abandoned /\ past'.answers = past.answers
      /\ past'.resolved = past.resolved
  BY <1>1, <1>2 DEF PastShape
<1>4. ClientShape(l) /\ ~Subscribed(l)
  BY DEF ClientShape, NoClient, Subscribed, Views, NoView, NoSession, Sources
<1> HIDE DEF l
<1>5. daemon'.revision >= daemon.revision BY <1>1, <1>2 DEF DaemonShape
<1>6. \A i \in DOMAIN daemon'.commands :
        daemon'.commands[i].kind = "prompt_decision" =>
          <<daemon'.commands[i].session, daemon'.commands[i].prompt>> \in past'.answers
  BY <1>2, <1>3 DEF IInv, AnswerInv, Given
<1>7. Moved(c, l) BY <1>2 DEF Moved
<1> QED BY <1>1, <1>2, <1>3, <1>4, <1>5, <1>6, <1>7, ClientMoves

\* A connection that goes leaves its commands, with the answers in them.
LEMMA GoneKeeps ==
  ASSUME IInv, NEW c \in Clients, Gone(c), run' = run, PastShape',
         past'.abandoned = past.abandoned, past'.answers = past.answers,
         past'.resolved = past.resolved
  PROVE  IInv'
<1> DEFINE q == daemon.commands
           moved == [i \in DOMAIN q |-> IF q[i].from = c THEN [q[i] EXCEPT !.from = Nobody] ELSE q[i]]
<1>1. DaemonShape(daemon) BY DEF IInv, Shapes
<1>2. client' = [client EXCEPT ![c] = NoClient] /\ daemon' = [daemon EXCEPT !.commands = moved]
  BY DEF Gone
<1>3. q \in Seq(Requested) BY <1>1 DEF DaemonShape
<1> HIDE DEF q
<1>4. DOMAIN q = 1..Len(q) /\ Len(q) \in Nat /\ \A i \in 1..Len(q) : q[i] \in Requested
  BY <1>3, LenProperties, ElementOfSeq
<1>5. \A m \in Requested : /\ [m EXCEPT !.from = Nobody] \in Requested
                           /\ [m EXCEPT !.from = Nobody].kind = m.kind
                           /\ [m EXCEPT !.from = Nobody].session = m.session
                           /\ [m EXCEPT !.from = Nobody].prompt = m.prompt
  BY DEF Requested
<1>6. \A i \in DOMAIN q : /\ moved[i] \in Requested /\ moved[i].kind = q[i].kind
                          /\ moved[i].session = q[i].session /\ moved[i].prompt = q[i].prompt
  BY <1>4, <1>5
<1>7. DOMAIN moved = DOMAIN q OBVIOUS
<1>8. moved \in Seq(Requested)
  <2> HIDE DEF moved
  <2>2. moved = [i \in DOMAIN q |-> moved[i]] BY DEF moved
  <2>3. moved \in [1..Len(q) -> Requested] BY <1>4, <1>6, <2>2
  <2> QED BY <1>4, <2>3, SeqDef
<1> HIDE DEF moved
<1>9. /\ DOMAIN daemon' = DOMAIN daemon /\ daemon'.active = daemon.active
      /\ daemon'.next = daemon.next
      /\ daemon'.pc = daemon.pc /\ daemon'.revision = daemon.revision
      /\ daemon'.source = daemon.source
      /\ daemon'.connected = daemon.connected /\ daemon'.sync = daemon.sync
      /\ daemon'.after = daemon.after
      /\ daemon'.commands = moved /\ daemon'.completed = daemon.completed
  BY <1>1, <1>2 DEF DaemonShape
<1>10. DaemonShape(daemon') BY <1>1, <1>8, <1>9 DEF DaemonShape
<1>11. ClientShape(NoClient) /\ ~Subscribed(NoClient)
  BY DEF ClientShape, NoClient, Subscribed, Views, NoView, NoSession, Sources
<1>12. daemon'.revision >= daemon.revision BY <1>1, <1>9 DEF DaemonShape
<1>13. \A i \in DOMAIN daemon'.commands :
         daemon'.commands[i].kind = "prompt_decision" =>
           <<daemon'.commands[i].session, daemon'.commands[i].prompt>> \in past'.answers
  BY <1>6, <1>7, <1>9 DEF IInv, AnswerInv, Given, q
<1>14. Moved(c, NoClient) BY <1>2 DEF Moved
<1> QED BY <1>2, <1>9, <1>10, <1>11, <1>12, <1>13, <1>14, ClientMoves

\* An event that ends the connection.
LEMMA CutKeeps ==
  ASSUME IInv, NEW c \in Clients, Cut(c), run' = run
  PROVE  IInv'
<1>1. PastShape BY DEF IInv, Shapes
<1>2. Gone(c) /\ past' = [past EXCEPT !.cut = @ \cup {c}] BY DEF Cut
<1>3. /\ PastShape' /\ past'.abandoned = past.abandoned /\ past'.answers = past.answers
      /\ past'.resolved = past.resolved
  BY <1>1, <1>2 DEF PastShape
<1> QED BY <1>2, <1>3, GoneKeeps

\* A client that reads the next event is left with the others.
LEMMA DeliveredKeeps ==
  ASSUME IInv, NEW c \in Clients, NEW e \in Events, NEW k, ClientShape(k),
         Subscribed(client[c]), Subscribed(k), k.lagged = client[c].lagged,
         k.view = client[c].view, Unread(client[c]) # <<>>, e = Head(Unread(client[c])),
         Unread(k) = Tail(Unread(client[c])), Delivered(e, c, k)
  PROVE  IInv'
<1> DEFINE old == client[c]
           m == Written(e)
<1>1. ClientShape(old) /\ (~old.lagged => Informed(old))
  BY DEF IInv, Shapes, BeliefInv
<1>2. CASE e.kind \in Formless
  <2>1. client' = [client EXCEPT ![c] = k] /\ daemon' = daemon /\ run' = run /\ past' = past
    BY <1>2 DEF Delivered
  <2>2. Legal(e) /\ Learn(Belief(old.view), e) = Belief(old.view) BY <1>2 DEF Legal, Learn
  <2> HIDE DEF old
  <2>3. k.view = old.view /\ Unread(old) # <<>> /\ e = Head(Unread(old))
        /\ Unread(k) = Tail(Unread(old)) /\ k.lagged = old.lagged
    BY DEF old
  <2>4. ~k.lagged => Informed(k) BY <1>1, <2>2, <2>3, ReadsOne
  <2> QED BY <2>1, <2>4, ClientReads
<1>3. CASE e.kind \notin Formless /\ Serializes(m)
  <2> DEFINE l == [k EXCEPT !.view = Seen(@, m)]
  <2>1. client' = [client EXCEPT ![c] = l] /\ daemon' = daemon /\ run' = run /\ past' = past
    BY <1>3 DEF Delivered
  <2>2. k.view \in Views BY DEF ClientShape
  <2>3. Seen(k.view, m) \in Views BY <2>2, SeenView
  <2>4. Belief(Seen(k.view, m)) = Learn(Belief(k.view), e) /\ Legal(e)
    BY <1>3, <2>2, LearnSeen DEF Legal
  <2>5. /\ DOMAIN l = DOMAIN k /\ l.conn = k.conn /\ l.batch = k.batch /\ l.live = k.live
        /\ l.lagged = k.lagged /\ l.replies = k.replies /\ l.view = Seen(k.view, m)
    BY DEF ClientShape, NoClient
  <2> HIDE DEF l, old, m
  <2>6. ClientShape(l) BY <2>3, <2>5 DEF ClientShape, Subscribed
  <2>7. Unread(l) = Unread(k) BY <2>5 DEF Unread
  <2>8. k.view = old.view /\ Unread(old) # <<>> /\ e = Head(Unread(old))
        /\ Unread(k) = Tail(Unread(old)) /\ k.lagged = old.lagged
    BY DEF old
  <2>9. Belief(l.view) = Learn(Belief(old.view), e) BY <2>4, <2>5, <2>8
  <2>10. ~l.lagged => Informed(l) BY <1>1, <2>4, <2>5, <2>7, <2>8, <2>9, ReadsOne
  <2> QED BY <2>1, <2>6, <2>10, ClientReads
<1>4. CASE e.kind \notin Formless /\ ~Serializes(m)
  <2>1. Cut(c) /\ run' = run BY <1>4 DEF Delivered
  <2> QED BY <2>1, CutKeeps
<1> QED BY <1>2, <1>3, <1>4

\* The batch is read before what was broadcast since.
LEMMA ReplayKeeps ==
  ASSUME IInv, NEW c \in Clients, Replay(c)
  PROVE  IInv'
<1> DEFINE old == client[c]
           rest == Tail(old.batch)
           k == [old EXCEPT !.batch = rest, !.conn = IF rest = <<>> THEN "live" ELSE @]
<1>1. ClientShape(old) BY DEF IInv, Shapes
<1>2. old.conn = "replaying" /\ Delivered(Head(old.batch), c, k) BY DEF Replay
<1> HIDE DEF old
<1>3. old.batch \in Seq(Events) /\ old.batch # <<>> BY <1>1, <1>2 DEF ClientShape
<1>4. Head(old.batch) \in Events /\ rest \in Seq(Events) BY <1>3, HeadTailProperties
<1> HIDE DEF rest
<1>5. /\ DOMAIN k = DOMAIN old /\ k.conn = (IF rest = <<>> THEN "live" ELSE "replaying")
      /\ k.batch = rest /\ k.live = old.live
      /\ k.lagged = old.lagged /\ k.replies = old.replies /\ k.view = old.view
  BY <1>1, <1>2 DEF ClientShape, NoClient
<1> HIDE DEF k
<1>6. Subscribed(old) /\ Subscribed(k) BY <1>2, <1>5 DEF Subscribed
<1>7. ClientShape(k) BY <1>1, <1>4, <1>5, <1>6 DEF ClientShape
<1>8. /\ Unread(old) # <<>> /\ Head(Unread(old)) = Head(old.batch)
      /\ Tail(Unread(old)) = Unread(k)
  BY <1>1, <1>2, <1>5, UnreadType DEF Unread, rest
<1> QED BY <1>2, <1>4, <1>5, <1>6, <1>7, <1>8, DeliveredKeeps DEF old

\* What was broadcast is read in its order.
LEMMA ReceiveKeeps ==
  ASSUME IInv, NEW c \in Clients, Receive(c)
  PROVE  IInv'
<1> DEFINE old == client[c]
           k == [old EXCEPT !.live = Tail(@)]
<1>1. ClientShape(old) BY DEF IInv, Shapes
<1>2. old.conn = "live" /\ old.live # <<>> /\ Delivered(Head(old.live), c, k) BY DEF Receive
<1> HIDE DEF old
<1>3. old.live \in Seq(Events) /\ old.batch = <<>> BY <1>1, <1>2 DEF ClientShape
<1>4. Head(old.live) \in Events /\ Tail(old.live) \in Seq(Events) BY <1>2, <1>3, HeadTailProperties
<1>5. /\ DOMAIN k = DOMAIN old /\ k.conn = "live" /\ k.batch = <<>> /\ k.live = Tail(old.live)
      /\ k.lagged = old.lagged /\ k.replies = old.replies /\ k.view = old.view
  BY <1>1, <1>2, <1>3 DEF ClientShape, NoClient
<1> HIDE DEF k
<1>6. Subscribed(old) /\ Subscribed(k) BY <1>2, <1>5 DEF Subscribed
<1>7. ClientShape(k) BY <1>1, <1>4, <1>5, <1>6 DEF ClientShape
<1>8. Unread(old) = old.live /\ Unread(k) = k.live BY <1>1, <1>2, <1>5, <1>7, UnreadType
<1> QED BY <1>2, <1>4, <1>5, <1>6, <1>7, <1>8, DeliveredKeeps DEF old

\* An answer to a command of its own tells nothing of the rest.
LEMMA ReadReplyKeeps ==
  ASSUME IInv, NEW c \in Clients, ReadReply(c)
  PROVE  IInv'
<1> DEFINE old == client[c]
           e == Head(old.replies)
           m == Written(e)
           k == [old EXCEPT !.replies = Tail(@)]
<1>1. ClientShape(old) /\ (Subscribed(old) /\ ~old.lagged => Informed(old))
  BY DEF IInv, Shapes, BeliefInv
<1>2. old.conn = "live" /\ old.replies # <<>> /\ Delivered(e, c, k) BY DEF ReadReply
<1> HIDE DEF old
<1>3. old.replies \in Seq(Responses) BY <1>1 DEF ClientShape
<1>4. e \in Responses /\ Tail(old.replies) \in Seq(Responses) BY <1>2, <1>3, HeadTailProperties
<1>5. /\ DOMAIN k = DOMAIN old /\ k.conn = old.conn /\ k.batch = old.batch /\ k.live = old.live
      /\ k.lagged = old.lagged /\ k.replies = Tail(old.replies) /\ k.view = old.view
  BY <1>1 DEF ClientShape, NoClient
<1> HIDE DEF k, e
<1>6. ClientShape(k) BY <1>1, <1>4, <1>5 DEF ClientShape, Subscribed
<1>7. Unread(k) = Unread(old) BY <1>5 DEF Unread
<1>8. old.view \in Views BY <1>1 DEF ClientShape
<1>9. Belief(Seen(old.view, m)) = Belief(old.view) /\ Seen(old.view, m) \in Views
  BY <1>4, <1>8, ResponseSeen
<1> DEFINE l == [k EXCEPT !.view = Seen(@, m)]
<1> HIDE DEF m
<1>10. /\ DOMAIN l = DOMAIN k /\ l.conn = k.conn /\ l.batch = k.batch /\ l.live = k.live
       /\ l.lagged = k.lagged /\ l.replies = k.replies /\ l.view = Seen(old.view, m)
  BY <1>5, <1>6 DEF ClientShape, NoClient
<1>11. \/ client' = [client EXCEPT ![c] = k] /\ daemon' = daemon /\ run' = run /\ past' = past
       \/ client' = [client EXCEPT ![c] = l] /\ daemon' = daemon /\ run' = run /\ past' = past
       \/ Cut(c) /\ run' = run
  BY <1>2 DEF Delivered, m
<1> HIDE DEF l
<1>12. ClientShape(l)
  <2>1. Subscribed(l) BY <1>2, <1>5, <1>10 DEF Subscribed
  <2> QED BY <1>6, <1>9, <1>10, <2>1 DEF ClientShape
<1>13. Unread(l) = Unread(old) BY <1>7, <1>10 DEF Unread
<1>14. Subscribed(old) BY <1>2 DEF Subscribed
<1>15. ~k.lagged => Informed(k) BY <1>1, <1>5, <1>7, <1>14 DEF Informed
<1>16. ~l.lagged => Informed(l) BY <1>1, <1>5, <1>9, <1>10, <1>13, <1>14 DEF Informed
<1> QED BY <1>6, <1>11, <1>12, <1>15, <1>16, ClientReads, CutKeeps

\* What a new client is told, and what it believes once it has read it all.
LEMMA InitialKnows ==
  ASSUME Shapes, SessionInv, daemon.pc = "loop", daemon'.revision = daemon.revision + 1,
         daemon'.active = daemon.active, daemon'.next = daemon.next, daemon'.pc = daemon.pc,
         daemon'.source = daemon.source, daemon'.completed = daemon.completed, run' = run, past' = past
  PROVE  /\ InitialState \in Seq(Events) /\ InitialState # <<>>
         /\ \/ Doomed(InitialState)
            \/ \E w \in Beliefs : Leads(Belief(NoView), InitialState, w) /\ Knows(w)'
<1>1. DaemonShape(daemon) BY DEF Shapes
<1>2. PICK n \in Nat : n = daemon.revision + 1 BY <1>1 DEF DaemonShape
<1>3. PICK b \in Beliefs : b = Belief(NoView)
  BY DEF Belief, Beliefs, NoView, NoSession, Sources
<1>4. b.revision = 0 /\ b.awaiting = {} BY <1>3 DEF Belief, NoView
<1>5. PICK s \in Events : s = Plain("status_update") BY DEF Plain, Events
<1>6. Legal(s) /\ Learn(b, s) = b BY <1>5 DEF Legal, Learn, Formless, Plain
<1>7. b.revision <= n BY <1>4
<1>8. PICK i \in Events : i = Inventory(n) BY <1>1, <1>7, InventorySaid
<1>9. PICK v \in Beliefs :
        /\ v = Learn(b, i) /\ v.revision = n /\ v.awaiting = {}
        /\ \A d \in Devices : v.route[d] = SessionOf(d)
  <2>1. /\ Learn(b, i) \in Beliefs /\ Learn(b, i).revision = n
        /\ \A d \in Devices :
             Learn(b, i).route[d] = IF SessionOf(d) # NoSession THEN SessionOf(d)
                              ELSE IF d \in b.awaiting THEN b.route[d] ELSE NoSession
        /\ Learn(b, i).awaiting = {d \in b.awaiting : SessionOf(d) = NoSession}
    BY <1>1, <1>7, <1>8, InventorySaid
  <2> QED BY <1>4, <2>1
<1>10. daemon.source \in Sources BY <1>1 DEF DaemonShape
<1>11. PICK a \in Events : a = SourceIs(daemon.source) BY <1>3, <1>10, SourceSaid
<1>12. PICK w \in Beliefs : w = Learn(v, a) /\ w = [v EXCEPT !.source = daemon.source]
  BY <1>10, <1>11, SourceSaid
<1>13. w.revision = n /\ w.awaiting = {} /\ w.route = v.route /\ w.source = daemon.source
  BY <1>9, <1>12 DEF Beliefs
<1>14. Legal(a)
  <2>1. a.kind = "source_availability" /\ {"kind", "state", "rooted"} \subseteq DOMAIN a
        /\ (a.state = "available" <=> a.rooted)
    BY <1>11 DEF SourceIs
  <2>2. Written(a).kind = "source_availability" /\ Written(a).state = a.state
        /\ Written(a).rooted = a.rooted
    BY <2>1, WrittenForm, WireForms
  <2> QED BY <2>1, <2>2
    DEF Legal, Serializes, Class, ValidEvent, ValidSource, Commands, ConfigCommands,
        SessionCommands, DaemonEvents, ScanEvents, SyncEvents
<1>15. InitialState = <<s>> \o (<<i>> \o <<a>>)
  BY <1>2, <1>5, <1>8, <1>11 DEF InitialState
<1>16. <<s>> \in Seq(Events) /\ <<i>> \in Seq(Events) /\ <<a>> \in Seq(Events) OBVIOUS
<1>17. <<i>> \o <<a>> \in Seq(Events) BY <1>16, ConcatProperties
<1>18. <<s, i, a>> \in Seq(Events) /\ <<s, i, a>> # <<>> OBVIOUS
<1>19. InitialState = <<s, i, a>> BY <1>2, <1>5, <1>8, <1>11 DEF InitialState
<1>20. CASE ~Legal(i)
  <2>1. Doomed(<<i>>) BY <1>20, DoomedOne
  <2>2. Doomed(<<i>> \o <<a>>) BY <1>16, <2>1, DoomedConcat
  <2>3. Doomed(<<s>> \o (<<i>> \o <<a>>)) BY <1>16, <1>17, <2>2, DoomedConcat
  <2> QED BY <1>15, <1>18, <1>19, <2>3
<1>21. CASE Legal(i)
  <2>1. Leads(b, <<s>>, b) BY <1>6, LeadsOne
  <2>2. Leads(b, <<i>>, v) BY <1>9, <1>21, LeadsOne
  <2>3. Leads(v, <<a>>, w) BY <1>12, <1>14, LeadsOne
  <2>4. Leads(b, <<i>> \o <<a>>, w) BY <2>2, <2>3, LeadsConcat
  <2>5. Leads(b, <<s>> \o (<<i>> \o <<a>>), w) BY <2>1, <2>4, LeadsConcat
  <2>6. daemon.active.session \in Nat /\ daemon.next \in Nat \ {0}
        /\ daemon.active.session < daemon.next
    <3>1. daemon.active.session \in Nat /\ daemon.next \in Nat \ {0}
      BY <1>1 DEF DaemonShape, Routes
    <3>2. daemon.active = Idle => daemon.active.session = 0 BY DEF Idle, Route, NoSession
    <3> QED BY <3>1, <3>2 DEF SessionInv
  <2>7. ASSUME NEW d \in Devices
        PROVE  /\ w.route[d] < daemon.next
               /\ w.route[d] = daemon.active.session => w.route[d] = 0 \/ d = daemon.active.device
               /\ d \notin w.awaiting
               /\ w.route[d] = SessionOf(d)
    <3>1. w.route[d] = SessionOf(d) BY <1>9, <1>13
    <3> QED BY <1>13, <2>6, <3>1 DEF SessionOf, NoSession
  <2>8. Knows(w)'
    BY <1>2, <1>13, <2>7 DEF Knows, KnowsDevice, RouteAgrees, SessionOf
  <2> QED BY <1>3, <1>15, <1>18, <1>19, <2>5, <2>8
<1> QED BY <1>20, <1>21

\* The batch and the subscription that goes with it are made in one go.
LEMMA RegisterKeeps ==
  ASSUME IInv, NEW c \in Clients, Register(c)
  PROVE  IInv'
<1> DEFINE old == client[c]
           l == [old EXCEPT !.conn = "replaying", !.batch = InitialState]
<1>1. DaemonShape(daemon) /\ PastShape /\ ClientShape(old) /\ Shapes /\ SessionInv
  BY DEF IInv, Shapes
<1>2. /\ daemon.pc = "loop" /\ old.conn = "greeted" /\ run' = run /\ past' = past
      /\ daemon' = [daemon EXCEPT !.revision = @ + 1]
      /\ client' = [client EXCEPT ![c] = l]
  <2>1. ClientShape(old) BY <1>1
  <2> QED BY <2>1 DEF Register
<1> HIDE DEF old
<1>3. /\ DOMAIN daemon' = DOMAIN daemon /\ daemon'.active = daemon.active
      /\ daemon'.next = daemon.next /\ daemon'.pc = daemon.pc
      /\ daemon'.revision = daemon.revision + 1 /\ daemon'.source = daemon.source
      /\ daemon'.connected = daemon.connected /\ daemon'.sync = daemon.sync
      /\ daemon'.after = daemon.after
      /\ daemon'.commands = daemon.commands /\ daemon'.completed = daemon.completed
  BY <1>1, <1>2 DEF DaemonShape
<1>4. DaemonShape(daemon') BY <1>1, <1>3 DEF DaemonShape
<1>5. /\ InitialState \in Seq(Events) /\ InitialState # <<>>
      /\ \/ Doomed(InitialState)
         \/ \E w \in Beliefs : Leads(Belief(NoView), InitialState, w) /\ Knows(w)'
  BY <1>1, <1>2, <1>3, InitialKnows
<1>6. PICK batch \in Seq(Events) : batch = InitialState BY <1>5
<1>7. old.live = <<>> /\ ~old.lagged /\ old.view = NoView
  BY <1>1, <1>2 DEF ClientShape, Subscribed
<1>8. /\ DOMAIN l = DOMAIN old /\ l.conn = "replaying" /\ l.batch = batch /\ l.live = <<>>
      /\ l.lagged = old.lagged /\ l.replies = old.replies /\ l.view = NoView
  BY <1>1, <1>6, <1>7 DEF ClientShape, NoClient
<1> HIDE DEF l
<1>9. ClientShape(l) BY <1>1, <1>5, <1>6, <1>7, <1>8 DEF ClientShape, Subscribed
<1>10. Unread(l) = batch BY <1>8, ConcatEmptySeq DEF Unread
<1>11. \/ Doomed(Unread(l))
       \/ \E w \in Beliefs : Leads(Belief(l.view), Unread(l), w) /\ (Knows(w) \/ Knows(w)')
  BY <1>5, <1>6, <1>8, <1>10
<1>12. daemon'.revision >= daemon.revision BY <1>1, <1>3 DEF DaemonShape
<1>13. \A i \in DOMAIN daemon'.commands :
         daemon'.commands[i].kind = "prompt_decision" =>
           <<daemon'.commands[i].session, daemon'.commands[i].prompt>> \in past'.answers
  BY <1>2, <1>3 DEF IInv, AnswerInv, Given
<1>14. PastShape' BY <1>1, <1>2 DEF PastShape
<1>15. Moved(c, l) BY <1>2 DEF Moved
<1> QED BY <1>2, <1>3, <1>4, <1>9, <1>11, <1>12, <1>13, <1>14, <1>15, ClientMoves

\* A command goes to the end of the loop's queue.
LEMMA AsksKeeps ==
  ASSUME IInv, NEW c \in Clients, NEW d \in Devices, NEW kind, NEW session \in Nat,
         NEW prompt \in Nat, Asks(c, kind, d, session, prompt), NEW l, ClientShape(l),
         Moved(c, l),
         l.conn = client[c].conn, l.batch = client[c].batch,
         l.live = client[c].live, l.lagged = client[c].lagged,
         Belief(l.view) = Belief(client[c].view),
         PastShape', past'.abandoned = past.abandoned, past'.resolved = past.resolved,
         past.answers \subseteq past'.answers,
         kind = "prompt_decision" => <<session, prompt>> \in past'.answers
  PROVE  IInv'
<1> DEFINE cmd == [kind |-> kind, device |-> d, session |-> session, prompt |-> prompt, from |-> c]
           q == daemon.commands
           more == Append(q, cmd)
<1>1. DaemonShape(daemon) /\ ClientShape(client[c]) BY DEF IInv, Shapes
<1>2. kind \in Asked /\ run' = run /\ daemon' = [daemon EXCEPT !.commands = more] BY DEF Asks
<1>3. cmd \in Requested BY <1>2 DEF Requested
<1>4. cmd.kind = kind /\ cmd.session = session /\ cmd.prompt = prompt OBVIOUS
<1>5. q \in Seq(Requested) BY <1>1 DEF DaemonShape
<1> HIDE DEF cmd, q
<1>6. /\ more \in Seq(Requested) /\ Len(more) = Len(q) + 1
      /\ \A i \in 1..Len(q) : more[i] = q[i]
      /\ more[Len(q) + 1] = cmd
  BY <1>3, <1>5, AppendProperties
<1> HIDE DEF more
<1>7. DOMAIN more = 1..(Len(q) + 1) /\ DOMAIN q = 1..Len(q) /\ Len(q) \in Nat
  BY <1>5, <1>6, LenProperties
<1>8. ASSUME NEW i \in DOMAIN more, more[i].kind = "prompt_decision"
      PROVE  <<more[i].session, more[i].prompt>> \in past'.answers
  <2>1. CASE i = Len(q) + 1 BY <1>4, <1>6, <1>8, <2>1
  <2>2. CASE i # Len(q) + 1
    <3>1. i \in 1..Len(q) BY <1>7, <2>2
    <3>2. i \in DOMAIN q /\ more[i] = q[i] BY <1>6, <1>7, <3>1
    <3> QED BY <1>8, <3>2 DEF IInv, AnswerInv, Given, q
  <2> QED BY <2>1, <2>2
<1>9. /\ DOMAIN daemon' = DOMAIN daemon /\ daemon'.active = daemon.active
      /\ daemon'.next = daemon.next /\ daemon'.pc = daemon.pc
      /\ daemon'.revision = daemon.revision /\ daemon'.source = daemon.source
      /\ daemon'.connected = daemon.connected /\ daemon'.sync = daemon.sync
      /\ daemon'.after = daemon.after
      /\ daemon'.commands = more /\ daemon'.completed = daemon.completed
  BY <1>1, <1>2 DEF DaemonShape
<1>10. DaemonShape(daemon') BY <1>1, <1>6, <1>9 DEF DaemonShape
<1>11. Unread(l) = Unread(client[c]) BY DEF Unread
<1>12. Subscribed(l) /\ ~l.lagged => Informed(client[c])
  BY DEF IInv, BeliefInv, Subscribed
<1>13. Subscribed(l) /\ ~l.lagged =>
         \/ Doomed(Unread(l))
         \/ \E w \in Beliefs : Leads(Belief(l.view), Unread(l), w) /\ (Knows(w) \/ Knows(w)')
  BY <1>11, <1>12 DEF Informed
<1>14. daemon'.revision >= daemon.revision BY <1>1, <1>9 DEF DaemonShape
<1>15. \A i \in DOMAIN daemon'.commands :
         daemon'.commands[i].kind = "prompt_decision" =>
           <<daemon'.commands[i].session, daemon'.commands[i].prompt>> \in past'.answers
  BY <1>8, <1>9
<1> QED BY <1>2, <1>9, <1>10, <1>13, <1>14, <1>15, ClientMoves

\* What is asked with a button.
LEMMA AskForKeeps ==
  ASSUME IInv, NEW c \in Clients, NEW d \in Devices, NEW kind \in Asked, AskFor(c, d, kind)
  PROVE  IInv'
<1> DEFINE session == client[c].view.route[d]
<1>1. ClientShape(client[c]) /\ PastShape /\ DOMAIN client = Clients BY DEF IInv, Shapes
<1>2. session \in Nat BY <1>1 DEF ClientShape, Views
<1>3. /\ kind # "prompt_decision" /\ Asks(c, kind, d, session, 0) /\ client' = client
      /\ \/ past' = [past EXCEPT !.steers = @ + 1]
         \/ past' = [past EXCEPT !.starts = @ + 1]
  BY DEF AskFor
<1>4. /\ PastShape' /\ past'.abandoned = past.abandoned /\ past'.answers = past.answers
      /\ past'.resolved = past.resolved
  BY <1>1, <1>3 DEF PastShape
<1> HIDE DEF session
<1>5. Moved(c, client[c]) BY <1>3 DEF Moved
<1> QED BY <1>1, <1>2, <1>3, <1>4, <1>5, AsksKeeps

\* The answer to a prompt names the prompt that is shown.
LEMMA AnswerKeeps ==
  ASSUME IInv, NEW c \in Clients, NEW d \in Devices, Answer(c, d)
  PROVE  IInv'
<1> DEFINE k == client[c]
           v == k.view
           l == [k EXCEPT !.view.answered = TRUE]
<1>1. ClientShape(k) /\ PastShape BY DEF IInv, Shapes
<1>2. /\ Asks(c, "prompt_decision", d, v.shown.session, v.shown.prompt)
      /\ client' = [client EXCEPT ![c] = l]
      /\ past' = [past EXCEPT !.steers = @ + 1,
                              !.answers = @ \cup {<<v.shown.session, v.shown.prompt>>}]
  BY DEF Answer
<1>3. v \in Views /\ v.shown.session \in Nat /\ v.shown.prompt \in Nat /\ k.conn = "live"
  BY <1>1, <1>2 DEF ClientShape, Views, Asks
<1>4. /\ PastShape' /\ past'.abandoned = past.abandoned /\ past'.resolved = past.resolved
      /\ past'.answers = past.answers \cup {<<v.shown.session, v.shown.prompt>>}
  BY <1>1, <1>2 DEF PastShape
<1>5. [v EXCEPT !.answered = TRUE] \in Views
      /\ Belief([v EXCEPT !.answered = TRUE]) = Belief(v)
  BY <1>3 DEF Views, Belief
<1> HIDE DEF k
<1>6. /\ DOMAIN l = DOMAIN k /\ l.conn = k.conn /\ l.batch = k.batch /\ l.live = k.live
      /\ l.lagged = k.lagged /\ l.replies = k.replies
      /\ l.view = [v EXCEPT !.answered = TRUE]
  BY <1>1 DEF ClientShape, NoClient
<1> HIDE DEF v, l
<1>7. ClientShape(l) BY <1>1, <1>3, <1>5, <1>6 DEF ClientShape, Subscribed
<1>8. Belief(l.view) = Belief(k.view) BY <1>5, <1>6 DEF v
<1>9. Moved(c, l) BY <1>2 DEF Moved
<1> QED BY <1>2, <1>3, <1>4, <1>6, <1>7, <1>8, <1>9, AsksKeeps DEF k

-----------------------------------------------------------------------------
(* The theorems.                                                           *)

\* Every step keeps the invariant.
LEMMA NextKeeps ==
  ASSUME IInv, [Next]_vars
  PROVE  IInv'
<1>1. CASE UNCHANGED vars
  <2>1. run' = run /\ daemon' = daemon /\ client' = client /\ past' = past BY <1>1 DEF vars
  <2> QED BY <2>1
    DEF IInv, Shapes, PastShape, SessionInv, AnswerInv, Given, AnswersReachTheirPrompt,
        BeliefInv, Informed, Knows, KnowsDevice, RouteAgrees, SessionOf
<1>2. CASE Next
  <2>1. CASE Publish BY <2>1, PublishKeeps
  <2>2. ASSUME NEW found \in BOOLEAN, SourceResolved(found) PROVE IInv'
    BY <2>2, SourceResolvedKeeps
  <2>3. CASE Complete BY <2>3, CompleteKeeps
  <2>4. ASSUME NEW d \in Devices, Unplug(d) PROVE IInv' BY <2>4, UnplugKeeps
  <2>5. ASSUME NEW d \in Devices, NEW auto \in BOOLEAN, Plug(d, auto) PROVE IInv'
    BY <2>5, PlugKeeps
  <2>6. ASSUME NEW c \in Clients, Greet(c) PROVE IInv' BY <2>6, GreetKeeps
  <2>7. ASSUME NEW c \in Clients, Register(c) PROVE IInv' BY <2>7, RegisterKeeps
  <2>8. ASSUME NEW c \in Clients, Replay(c) PROVE IInv' BY <2>8, ReplayKeeps
  <2>9. ASSUME NEW c \in Clients, Receive(c) PROVE IInv' BY <2>9, ReceiveKeeps
  <2>10. ASSUME NEW c \in Clients, ReadReply(c) PROVE IInv' BY <2>10, ReadReplyKeeps
  <2>11. ASSUME NEW c \in Clients, NEW d \in Devices, NEW kind \in Asked, AskFor(c, d, kind)
         PROVE  IInv'
    BY <2>11, AskForKeeps
  <2>12. ASSUME NEW c \in Clients, NEW d \in Devices, Answer(c, d) PROVE IInv'
    BY <2>12, AnswerKeeps
  <2>13. CASE HandleCommand BY <2>13, HandleCommandKeeps
  <2>14. CASE ForwardStop BY <2>14, ForwardStopKeeps
  <2>15. CASE EndOfOutput BY <2>15, EndOfOutputKeeps
  <2>16. CASE WorkerStarts BY <2>16, WorkerStartsKeeps
  <2>17. CASE WorkerAsks BY <2>17, WorkerAsksKeeps
  <2>18. CASE WorkerHears BY <2>18, WorkerHearsKeeps
  <2>19. CASE WorkerReports BY <2>19, WorkerReportsKeeps
  <2>20. CASE WorkerPolls BY <2>20, WorkerPollsKeeps
  <2>21. CASE WorkerNotices BY <2>21, WorkerNoticesKeeps
  <2>22. CASE WorkerFinishes BY <2>22, WorkerFinishesKeeps
  <2>23. CASE WorkerDies BY <2>23, WorkerDiesKeeps
  <2> QED BY <1>2, <2>1, <2>2, <2>3, <2>4, <2>5, <2>6, <2>7, <2>8, <2>9, <2>10, <2>11, <2>12,
             <2>13, <2>14, <2>15, <2>16, <2>17, <2>18, <2>19, <2>20, <2>21, <2>22, <2>23 DEF Next
<1> QED BY <1>1, <1>2

\* Between the loop, the relay of the worker and the connections, what a
\* client has still to read always tells it what the daemon knows.
THEOREM InvariantHolds == Spec => []IInv
<1>1. Init => IInv BY InitIInv
<1>2. IInv /\ [Next]_vars => IInv' BY NextKeeps
<1> QED BY <1>1, <1>2, PTL DEF Spec

\* A worker takes no answer for its prompt's but one that a client gave to
\* that prompt, however many sessions began and ended while the answer waited.
THEOREM AnswersReach == Spec => []AnswersReachTheirPrompt
<1>1. IInv => AnswersReachTheirPrompt BY DEF IInv, AnswerInv
<1> QED BY <1>1, InvariantHolds, PTL

\* What a client that is up to date believes follows from the invariant.
LEMMA InformedAgrees ==
  ASSUME IInv
  PROVE  ClientsAgree
<1> SUFFICES ASSUME NEW c \in Clients, UpToDate(c)
             PROVE  /\ \A d \in Devices : RouteAgrees(client[c].view.route[d], d)
                    /\ client[c].view.source = daemon.source
  BY DEF ClientsAgree
<1> DEFINE k == client[c]
<1>1. ClientShape(k) /\ (Subscribed(k) /\ ~k.lagged => Informed(k)) BY DEF IInv, Shapes, BeliefInv
<1>2. k.conn = "live" /\ ~k.lagged /\ k.live = <<>> /\ daemon.pc = "loop" BY DEF UpToDate
<1> HIDE DEF k
<1>3. Informed(k) BY <1>1, <1>2 DEF Subscribed
<1>4. Unread(k) = <<>> BY <1>1, <1>2, UnreadType
<1>5. ~Doomed(<<>>) BY DEF Doomed
<1>6. PICK w \in Beliefs : Leads(Belief(k.view), <<>>, w) /\ Knows(w)
  BY <1>3, <1>4, <1>5 DEF Informed
<1>7. Belief(k.view) \in Beliefs BY <1>1, BeliefType DEF ClientShape
<1>8. w = Belief(k.view) BY <1>6, <1>7, LeadsNothing
<1>9. w.route = k.view.route /\ w.source = k.view.source BY <1>8 DEF Belief
<1> QED BY <1>2, <1>6, <1>9 DEF Knows, KnowsDevice, k

\* A client with nothing left to read that lost no event believes what the
\* daemon knows, whatever was published while it was given the state.
THEOREM ClientsAgreeSafe == Spec => []ClientsAgree
<1>1. IInv => ClientsAgree BY InformedAgrees
<1> QED BY <1>1, InvariantHolds, PTL
=============================================================================
