------------------------------- MODULE Portable -------------------------------
(* The portable configuration of one device: the host outbox and cache of    *)
(* every host it is used with (portable/state_store.rs, outbox.rs), the plan *)
(* that reconciles them with the device's profile (reconcile.rs,             *)
(* coordinator.rs) and the journalled publication of profile.json and        *)
(* SysInfoExtended (device_transaction.rs).                                  *)
(*                                                                           *)
(* The device lease admits one session at a time, of the daemon or of the    *)
(* sync worker of the host the device is attached to.  The outbox is not     *)
(* under that lease: the daemon accepts a mutation while a worker reconciles.*)
EXTENDS Naturals, FiniteSets

CONSTANTS
  Hosts,       \* computers the device is used with
  Components,  \* selection, settings, subscriptions
  Ids,         \* mutation IDs of the edits made in a user interface
  Owner, Part, \* the host an edit is made on and the components it sets
  LegacyHosts, \* hosts that hold settings older than the portable profile
  EarlyHosts,  \* hosts whose user may edit before the first connection
  AcceptAt,    \* the session's points at which an edit may be accepted
  CrashAt,     \* the points at which the session may die
  FaultAt,     \* the writes that may fail
  ForeignAt,   \* the points at which another program may write SysInfoExtended
  MaxCrashes, MaxFaults, MaxForeign, MaxSends, MaxMoves

Legacy == 0    \* legacy_mutation_id: the same on every host

ASSUME ConstantsTyped ==
  /\ Ids \subseteq Nat \ {Legacy}
  /\ Owner \in [Ids -> Hosts] /\ Part \in [Ids -> SUBSET Components]
  /\ LegacyHosts \subseteq Hosts /\ EarlyHosts \subseteq Hosts /\ Hosts # {}
  /\ MaxCrashes \in Nat /\ MaxFaults \in Nat /\ MaxForeign \in Nat
  /\ MaxSends \in Nat /\ MaxMoves \in Nat

\* A desired value is told apart by the host whose user chose it.
Intents == [id : Ids \cup {Legacy}, val : Hosts]
\* A component of the profile, and a mutation that waits in an outbox with the
\* device revision its host had imported.  Options are sets of at most one element.
Values == [rev : Nat, intent : Intents]
Mutations == [intent : Intents, base : Nat]
Profiles == [sys : BOOLEAN, comps : [Components -> Values]]
Boxes == [Components -> SUBSET Mutations]
Accepts == [comps : SUBSET Components, pend : Boxes]
Sysinfos == {"none", "ours", "foreign"}
Generations == [profile : SUBSET Profiles, sysinfo : Sysinfos]
TxnFiles == {"journal", "profile", "sysinfo"}
Transactions == [files : SUBSET TxnFiles, saved : SUBSET Generations,
                 before : SUBSET Generations, published : SUBSET Generations]

VARIABLES
  \* the device
  profile,  \* profile.json
  sysinfo,  \* SysInfoExtended: absent, generated, or another program's
  txn,      \* pending/portable-config: its files and what its journal records
  at,       \* the host the device is attached to
  \* every host's files
  outbox, cache,
  \* the session that holds the lease
  who, pc, exp, box, cand, gen, next,
  \* the daemon of every host: the outbox an acceptance has loaded and will write
  acc,
  \* observed: what each user asked for last, and what a publication brought
  last, landed,
  \* budgets of the environment
  crashes, faults, foreign, sends, moves

device == <<profile, sysinfo, txn>>
hostFiles == <<outbox, cache>>
memory == <<exp, box, cand, gen>>
observed == <<last, landed>>
budgets == <<crashes, faults, foreign, sends, moves>>
vars == <<device, at, hostFiles, who, pc, next, memory, acc, observed, budgets>>

-----------------------------------------------------------------------------
Gen == [profile |-> profile, sysinfo |-> sysinfo]
EmptyBox == [c \in Components |-> {}]
NoTxn == [files |-> {}, saved |-> {}, before |-> {}, published |-> {}]
Roles == {"deliver", "admit", "worker"}
Nobody == [host |-> CHOOSE h \in Hosts : TRUE, role |-> "worker"]

Points == {"idle", "init", "initcache", "recover", "load", "import", "fence", "backup",
  "journal", "wprofile", "recprofile", "wsysinfo", "recsysinfo", "readback", "undo",
  "restprofile", "restsysinfo", "restored", "remove", "confirm", "wcache", "wclear"}

TypeOK ==
  /\ profile \in SUBSET Profiles /\ sysinfo \in Sysinfos /\ txn \in Transactions
  /\ at \in Hosts
  /\ outbox \in [Hosts -> [exists : BOOLEAN, pend : Boxes]]
  /\ cache \in [Hosts -> [exists : BOOLEAN, imported : SUBSET Profiles]]
  /\ who \in [host : Hosts, role : Roles] /\ pc \in Points
  /\ next \in {"load", "confirm", "fail"}
  /\ exp \in Generations /\ box \in Boxes /\ cand \in SUBSET Profiles /\ gen \in BOOLEAN
  /\ acc \in [Hosts -> SUBSET Accepts]
  /\ last \in [Hosts -> [Components -> SUBSET Intents]] /\ landed \in [Components -> SUBSET Intents]
  /\ crashes \in 0..MaxCrashes /\ faults \in 0..MaxFaults /\ foreign \in 0..MaxForeign
  /\ sends \in 0..MaxSends /\ moves \in 0..MaxMoves

Init ==
  /\ profile = {} /\ sysinfo \in {"none", "foreign"} /\ txn = NoTxn
  /\ at \in Hosts
  /\ outbox = [h \in Hosts |-> [exists |-> FALSE, pend |-> EmptyBox]]
  /\ cache = [h \in Hosts |-> [exists |-> FALSE, imported |-> {}]]
  /\ who = Nobody /\ pc = "idle" /\ next = "load"
  /\ exp = Gen /\ box = EmptyBox /\ cand = {} /\ gen = FALSE
  /\ acc = [h \in Hosts |-> {}]
  /\ last = [h \in Hosts |-> EmptyBox] /\ landed = EmptyBox
  /\ crashes = 0 /\ faults = 0 /\ foreign = 0 /\ sends = 0 /\ moves = 0

\* is_initialized
Initialized(h) == cache[h].exists \/ outbox[h].exists

-----------------------------------------------------------------------------
(* Steps of the session: where control goes, and how it ends.                *)
Goto(p) == pc' = p /\ UNCHANGED <<who, acc, at, last, budgets>>

\* The session returns, with a result or an error, and releases the lease.
Return ==
  /\ pc' = "idle" /\ who' = Nobody /\ next' = "load"
  /\ exp' = Gen /\ box' = EmptyBox /\ cand' = {} /\ gen' = FALSE
Stop ==
  Return /\ UNCHANGED <<device, at, hostFiles, acc, observed, budgets>>

Fault(p) ==
  /\ p \in FaultAt /\ faults < MaxFaults
  /\ faults' = faults + 1 /\ UNCHANGED <<crashes, foreign, sends, moves>>

-----------------------------------------------------------------------------
(* The environment.                                                          *)

\* The process dies or the device is unplugged.
Crash ==
  /\ pc \in CrashAt /\ crashes < MaxCrashes
  /\ crashes' = crashes + 1
  /\ Return
  /\ UNCHANGED <<device, at, hostFiles, acc, observed, faults, foreign, sends, moves>>

\* Another program puts its own SysInfoExtended on the device.
ForeignWrite ==
  /\ pc \in ForeignAt /\ foreign < MaxForeign
  /\ foreign' = foreign + 1
  /\ sysinfo' = "foreign"
  /\ UNCHANGED <<profile, txn, at, hostFiles, who, pc, next, memory, acc, observed,
                 crashes, faults, sends, moves>>

\* The device is unplugged and attached to another host.
Move(h) ==
  /\ pc = "idle" /\ at # h /\ moves < MaxMoves
  /\ at' = h /\ moves' = moves + 1
  /\ UNCHANGED <<device, hostFiles, who, pc, next, memory, acc, observed,
                 crashes, faults, foreign, sends>>

-----------------------------------------------------------------------------
(* Acceptance: the daemon loads the outbox, adds the mutation and writes the *)
(* whole file (accept_mutations).                                            *)

\* An adoption sets every component, on top of nothing.
Adoption(i) == Part[i] = Components

\* imported_revision
Imported(h, c) ==
  IF cache[h].imported = {} THEN 0 ELSE (CHOOSE p \in cache[h].imported : TRUE).comps[c].rev

\* The mutation of component c that edit i makes.
Edit(i, c) ==
  [intent |-> [id |-> i, val |-> Owner[i]],
   base |-> IF Adoption(i) THEN 0 ELSE Imported(Owner[i], c)]

\* Mutant: the mutation loses the revision it is based on.
Coalesced_Bare(i) ==
  [c \in Components |-> IF c \in Part[i] THEN {Edit(i, c).intent} ELSE outbox[Owner[i]].pend[c]]

\* coalesce_pending: a mutation of the same component is replaced.
Coalesced(i) ==
  [c \in Components |-> IF c \in Part[i] THEN {Edit(i, c)} ELSE outbox[Owner[i]].pend[c]]

\* ... and an ID that returns with other contents is refused.
Reused(i) ==
  \E c \in Part[i] : \E x \in outbox[Owner[i]].pend[c] : x.intent.id = i /\ x # Edit(i, c)

\* The daemon works on one command or one admission at a time.
DaemonFree(h) ==
  acc[h] = {} /\ ~ (pc # "idle" /\ who.host = h /\ who.role # "worker")

\* A user's edit, or the client's retry of the last one it sent.
AcceptLoad(i) ==
  LET h == Owner[i]
  IN  /\ DaemonFree(h) /\ sends < MaxSends
      /\ Initialized(h) \/ h \in EarlyHosts \/ Adoption(i)
      /\ \/ \A c \in Components : \A x \in last[h][c] : x.id < i
         \/ \A c \in Part[i] : \E x \in last[h][c] : x.id = i
      /\ ~ Reused(i)
      /\ acc' = [acc EXCEPT ![h] = {[comps |-> Part[i], pend |-> Coalesced(i)]}]
      /\ sends' = sends + 1
      /\ UNCHANGED <<device, at, hostFiles, who, pc, next, memory, observed,
                     crashes, faults, foreign, moves>>

\* The durable acceptance.
AcceptWrite(h) ==
  /\ pc \in AcceptAt \/ who.host # h
  /\ \E a \in acc[h] :
       /\ outbox' = [outbox EXCEPT ![h] = [exists |-> TRUE, pend |-> a.pend]]
       /\ last' = [last EXCEPT ![h] =
            [c \in Components |-> IF c \in a.comps THEN {m.intent : m \in a.pend[c]} ELSE @[c]]]
  /\ acc' = [acc EXCEPT ![h] = {}]
  /\ UNCHANGED <<device, at, cache, who, pc, next, memory, landed, budgets>>

-----------------------------------------------------------------------------
(* A session begins: the daemon delivers what it accepted or admits a sync,  *)
(* or the worker starts one (run_connected, which leaves the portable state  *)
(* alone while neither host nor device has any).                             *)
Acquire(r) ==
  /\ pc = "idle"
  /\ r # "worker" => DaemonFree(at)
  /\ r = "deliver" => outbox[at].exists
  /\ r = "worker" => Initialized(at) \/ profile # {}
  /\ who' = [host |-> at, role |-> r]
  /\ pc' = IF r = "admit" THEN "init" ELSE "recover"
  /\ exp' = Gen
  /\ UNCHANGED <<device, at, hostFiles, next, box, cand, gen, acc, observed, budgets>>

\* initialize_portable_from_legacy, on a host with settings of its own: the
\* complete outbox first, then the cache.
Unused == \/ Initialized(who.host) \/ profile # {} \/ who.host \notin LegacyHosts

InitSkip ==
  /\ pc = "init" /\ Unused
  /\ Goto("recover")
  /\ UNCHANGED <<device, hostFiles, next, memory, landed>>

InitOutbox ==
  /\ pc = "init" /\ ~ Unused
  /\ LET intent == [id |-> Legacy, val |-> who.host]
     IN /\ outbox' = [outbox EXCEPT ![who.host] =
             [exists |-> TRUE, pend |-> [c \in Components |-> {[intent |-> intent, base |-> 0]}]]]
        /\ last' = [last EXCEPT ![who.host] = [c \in Components |-> {intent}]]
  /\ pc' = "initcache"
  /\ UNCHANGED <<device, at, cache, who, next, memory, acc, landed, budgets>>

InitCache ==
  /\ pc = "initcache"
  /\ cache' = [cache EXCEPT ![who.host] = [exists |-> TRUE, imported |-> {}]]
  /\ Goto("recover")
  /\ UNCHANGED <<device, outbox, next, memory, landed>>

-----------------------------------------------------------------------------
(* device_transaction::recover, and the rollback of a failed publication.    *)

\* validated_backup: a file that existed must have its backup.
BackedUp ==
  \E b \in txn.saved :
    /\ b.profile # {} => "profile" \in txn.files
    /\ b.sysinfo # "none" => "sysinfo" \in txn.files

\* Mutant: a publication whose generation is recorded is taken for complete.
Recover_Adopt ==
  /\ pc = "recover"
  /\ \/ /\ "journal" \notin txn.files
        /\ Goto("load") /\ UNCHANGED <<device, hostFiles, next, memory, landed>>
     \/ /\ "journal" \in txn.files /\ Gen \in txn.before \cup txn.published
        /\ next' = "load" /\ Goto("remove")
        /\ UNCHANGED <<device, hostFiles, memory, landed>>
     \/ "journal" \in txn.files /\ Gen \notin txn.before \cup txn.published /\ Stop

Recover ==
  /\ pc = "recover"
  /\ \/ /\ "journal" \notin txn.files
        /\ Goto("load") /\ UNCHANGED <<device, hostFiles, next, memory, landed>>
     \/ /\ "journal" \in txn.files /\ txn.before = {Gen}
        /\ next' = "load" /\ Goto("remove")
        /\ UNCHANGED <<device, hostFiles, memory, landed>>
     \/ /\ "journal" \in txn.files /\ txn.before # {Gen} /\ txn.published = {Gen} /\ BackedUp
        /\ next' = "load" /\ Goto("restprofile")
        /\ UNCHANGED <<device, hostFiles, memory, landed>>
     \/ /\ "journal" \in txn.files /\ txn.before # {Gen}
        /\ txn.published # {Gen} \/ ~ BackedUp
        /\ Stop

\* The error path of publish: nothing is restored over an unknown generation.
Undo ==
  /\ pc = "undo"
  /\ \/ /\ Gen \in txn.before \cup txn.published
        /\ next' = "fail" /\ Goto("restprofile")
        /\ UNCHANGED <<device, hostFiles, memory, landed>>
     \/ Gen \notin txn.before \cup txn.published /\ Stop

RestoreProfile ==
  /\ pc = "restprofile"
  /\ \E b \in txn.saved : profile' = b.profile
  /\ Goto("restsysinfo")
  /\ UNCHANGED <<sysinfo, txn, hostFiles, next, memory, landed>>

RestoreSysinfo ==
  /\ pc = "restsysinfo"
  /\ \E b \in txn.saved : sysinfo' = b.sysinfo
  /\ Goto("restored")
  /\ UNCHANGED <<profile, txn, hostFiles, next, memory, landed>>

CheckRestored ==
  /\ pc = "restored"
  /\ \/ /\ txn.before = {Gen} /\ Goto("remove")
        /\ UNCHANGED <<device, hostFiles, next, memory, landed>>
     \/ txn.before # {Gen} /\ Stop

\* remove_transaction: the directory's files go one at a time, in any order,
\* and the session adopts the live generation.
RemoveFile(f) ==
  /\ pc = "remove" /\ f \in txn.files /\ txn.files # {f}
  /\ txn' = IF f = "journal" THEN [NoTxn EXCEPT !.files = txn.files \ {f}]
            ELSE [txn EXCEPT !.files = @ \ {f}]
  /\ Goto("remove")
  /\ UNCHANGED <<profile, sysinfo, hostFiles, next, memory, landed>>

RemoveLast ==
  /\ pc = "remove" /\ Cardinality(txn.files) = 1
  /\ txn' = NoTxn
  /\ \/ /\ next # "fail" /\ pc' = next
        /\ exp' = Gen
        /\ UNCHANGED <<who, next, box, cand, gen>>
     \/ next = "fail" /\ Return
  /\ landed' = IF next = "confirm"
                 THEN [c \in Components |-> landed[c] \cup {p.comps[c].intent : p \in profile}]
                 ELSE landed
  /\ UNCHANGED <<profile, sysinfo, at, hostFiles, acc, last, budgets>>

-----------------------------------------------------------------------------
(* reconcile_connected: load, plan, publish or import, confirm.              *)

\* prepare_sysinfo: a file is generated where none exists, the profile owns what
\* was generated, and any other file is left to its owner.
Claimed == \E p \in profile : p.sys
Generate == sysinfo = "none"
Owned == Generate \/ Claimed
Usurped == Claimed /\ sysinfo = "foreign"

\* Mutant: a mutation the device already holds is refused.
Conflict_Replay(p, b) ==
  \E c \in Components : \E m \in b[c] : m.intent.id = p.comps[c].intent.id

\* apply_component refuses an ID the device holds with another value.
Conflict(p, b) ==
  \E c \in Components : \E m \in b[c] :
    m.intent.id = p.comps[c].intent.id /\ m.intent # p.comps[c].intent

\* Mutant: the revision stays.
NextRev_Same(v) == v.rev
NextRev(v) == v.rev + 1

\* apply_pending; a component whose mutation the device holds is left alone.
Applied(p, b) ==
  [sys |-> Owned,
   comps |-> [c \in Components |->
     IF b[c] = {} \/ p.comps[c].intent \in {m.intent : m \in b[c]} THEN p.comps[c]
     ELSE [rev |-> NextRev(p.comps[c]), intent |-> (CHOOSE m \in b[c] : TRUE).intent]]]

\* build_initial_profile wants every component, from a host that imported none.
Complete(b) == \A c \in Components : \E m \in b[c] : m.base = 0
Initial(b) ==
  [sys |-> Owned,
   comps |-> [c \in Components |-> [rev |-> 1, intent |-> (CHOOSE m \in b[c] : TRUE).intent]]]

\* plan_portable_reconciliation
Planned(b) ==
  {Applied(p, b) : p \in {q \in profile : ~ Conflict(q, b)}}
    \cup {Initial(d) : d \in {e \in {b} : profile = {} /\ Complete(e)}}
ImportOnly(b) == b = EmptyBox /\ profile # {} /\ (Claimed <=> Owned)

Load ==
  /\ pc = "load"
  /\ LET pend == outbox[who.host].pend
     IN \/ (Usurped \/ (Planned(pend) = {} /\ ~ ImportOnly(pend))) /\ Stop
        \/ /\ ~ Usurped /\ ImportOnly(pend)
           /\ cand' = profile /\ Goto("import")
           /\ UNCHANGED <<device, hostFiles, next, exp, box, gen, landed>>
        \/ /\ ~ Usurped /\ ~ ImportOnly(pend) /\ Planned(pend) # {}
           /\ cand' = Planned(pend) /\ box' = pend /\ gen' = Generate
           /\ Goto("fence")
           /\ UNCHANGED <<device, hostFiles, next, exp, landed>>

\* import_device: the device wins only where nothing is pending.
Import ==
  /\ pc = "import"
  /\ \/ /\ outbox[who.host].pend = EmptyBox
        /\ cache' = [cache EXCEPT ![who.host] = [exists |-> TRUE, imported |-> cand]]
        /\ Return
        /\ UNCHANGED <<device, at, outbox, acc, observed, budgets>>
     \/ outbox[who.host].pend # EmptyBox /\ Stop

-----------------------------------------------------------------------------
(* device_transaction::publish.                                              *)

\* Mutant: the live generation is not compared.
Fence_Open ==
  pc = "fence" /\ Goto("backup")
  /\ UNCHANGED <<device, hostFiles, next, memory, landed>>

Fence ==
  /\ pc = "fence"
  /\ \/ /\ exp = Gen /\ Goto("backup")
        /\ UNCHANGED <<device, hostFiles, next, memory, landed>>
     \/ exp # Gen /\ Stop

\* Both originals, then the journal that names them.
Backup ==
  /\ pc = "backup"
  /\ txn' = [NoTxn EXCEPT !.files = {"profile", "sysinfo"}, !.saved = {Gen}]
  /\ Goto("journal")
  /\ UNCHANGED <<profile, sysinfo, hostFiles, next, memory, landed>>

SaveJournal ==
  /\ pc = "journal"
  /\ txn' = [txn EXCEPT !.files = @ \cup {"journal"}, !.before = {exp}]
  /\ Goto("wprofile")
  /\ UNCHANGED <<profile, sysinfo, hostFiles, next, memory, landed>>

Failed(p) ==
  /\ Fault(p) /\ pc' = "undo"
  /\ UNCHANGED <<device, at, hostFiles, who, next, memory, acc, observed>>

WriteProfile ==
  /\ pc = "wprofile"
  /\ \/ /\ profile' = cand /\ Goto("recprofile")
        /\ UNCHANGED <<sysinfo, txn, hostFiles, next, memory, landed>>
     \/ Failed("profile")

\* record_published_generation
RecordProfile ==
  /\ pc = "recprofile"
  /\ txn' = [txn EXCEPT !.published = {Gen}]
  /\ Goto(IF gen THEN "wsysinfo" ELSE "readback")
  /\ UNCHANGED <<profile, sysinfo, hostFiles, next, memory, landed>>

WriteSysinfo ==
  /\ pc = "wsysinfo"
  /\ \/ /\ sysinfo' = "ours" /\ Goto("recsysinfo")
        /\ UNCHANGED <<profile, txn, hostFiles, next, memory, landed>>
     \/ Failed("sysinfo")

RecordSysinfo ==
  /\ pc = "recsysinfo"
  /\ txn' = [txn EXCEPT !.published = {Gen}]
  /\ Goto("readback")
  /\ UNCHANGED <<profile, sysinfo, hostFiles, next, memory, landed>>

Readback ==
  /\ pc = "readback"
  /\ \/ /\ profile = cand /\ (gen => sysinfo = "ours")
        /\ next' = "confirm" /\ Goto("remove")
        /\ UNCHANGED <<device, hostFiles, memory, landed>>
     \/ /\ ~ (profile = cand /\ (gen => sysinfo = "ours"))
        /\ Goto("undo")
        /\ UNCHANGED <<device, hostFiles, next, memory, landed>>

-----------------------------------------------------------------------------
(* confirm_device_commit: compare the outbox with the one that was planned,  *)
(* write the cache, then the empty outbox.                                   *)

\* Mutant: whatever the outbox holds by now is cleared.
Confirm_Unchecked ==
  pc = "confirm" /\ Goto("wcache")
  /\ UNCHANGED <<device, hostFiles, next, memory, landed>>

Confirm ==
  /\ pc = "confirm"
  /\ \/ /\ outbox[who.host].pend = box /\ Goto("wcache")
        /\ UNCHANGED <<device, hostFiles, next, memory, landed>>
     \/ outbox[who.host].pend # box /\ Stop

WriteCache ==
  /\ pc = "wcache"
  /\ cache' = [cache EXCEPT ![who.host] = [exists |-> TRUE, imported |-> cand]]
  /\ Goto("wclear")
  /\ UNCHANGED <<device, outbox, next, memory, landed>>

ClearOutbox ==
  /\ pc = "wclear"
  /\ outbox' = [outbox EXCEPT ![who.host] = [exists |-> TRUE, pend |-> EmptyBox]]
  /\ Return
  /\ UNCHANGED <<device, at, cache, acc, observed, budgets>>

-----------------------------------------------------------------------------
Recovery ==
  \/ Recover \/ Undo \/ RestoreProfile \/ RestoreSysinfo \/ CheckRestored
  \/ \E f \in TxnFiles : RemoveFile(f)
  \/ RemoveLast

Publication ==
  \/ Fence \/ Backup \/ SaveJournal \/ WriteProfile \/ RecordProfile
  \/ WriteSysinfo \/ RecordSysinfo \/ Readback

Session ==
  \/ InitSkip \/ InitOutbox \/ InitCache \/ Recovery \/ Load \/ Import
  \/ Publication \/ Confirm \/ WriteCache \/ ClearOutbox

Connect == \E r \in Roles : Acquire(r)
Accept == (\E i \in Ids : AcceptLoad(i)) \/ (\E h \in Hosts : AcceptWrite(h))
Environment == Crash \/ ForeignWrite \/ \E h \in Hosts : Move(h)

Next == Session \/ Connect \/ Accept \/ Environment

Spec == Init /\ [][Next]_vars

\* An attached device is offered to a session again (a scheduled or requested
\* sync), and a session that runs takes its next step.
FairSpec == Spec /\ WF_vars(Session) /\ WF_vars(Connect)

-----------------------------------------------------------------------------
(* Safety.                                                                   *)

\* Once durably accepted, what a user asked for last waits in the host's outbox
\* until a completed publication has brought it to the device.
IntentKept ==
  \A h \in Hosts : \A c \in Components : \A i \in last[h][c] :
    \/ \E m \in outbox[h].pend[c] : m.intent = i
    \/ i \in landed[c]

\* What a host believes committed is never rolled back on the device: no cache
\* is ahead of the profile, and where their revisions agree so do their values.
CacheTruthful ==
  \A h \in Hosts : \A p \in cache[h].imported : \E q \in profile :
    \A c \in Components :
      \/ p.comps[c].rev < q.comps[c].rev
      \/ p.comps[c] = q.comps[c]

\* The two files of a publication appear together: where no transaction is open,
\* a profile that owns a SysInfoExtended has one beside it.
NothingTorn ==
  pc = "idle" /\ "journal" \notin txn.files /\ Claimed => sysinfo # "none"

\* Another program's SysInfoExtended is never replaced.
ForeignKept == [][sysinfo = "foreign" => sysinfo' = "foreign"]_vars

\* A pending edit reaches the device it is for, if the device stays attached.
Delivers ==
  \A h \in Hosts :
    (outbox[h].pend # EmptyBox /\ at = h) ~> (outbox[h].pend = EmptyBox \/ at # h)
=============================================================================
