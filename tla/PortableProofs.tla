--------------------------- MODULE PortableProofs ---------------------------
(***************************************************************************)
(* The safety properties of the portable configuration for any hosts,      *)
(* components, edits and budgets: types, then one lemma per part of the    *)
(* invariant, with a step per action that can disturb it.                  *)
(***************************************************************************)
EXTENDS PortableInvariant, TLAPS

-----------------------------------------------------------------------------
(* Types.                                                                    *)

\* The values a session starts from.
LEMMA InitialTypes ==
  /\ EmptyBox \in Boxes /\ NoTxn \in Transactions
  /\ Nobody \in [host : Hosts, role : Roles]
<1>1. EmptyBox \in Boxes BY DEF EmptyBox, Boxes
<1>2. NoTxn \in Transactions BY DEF NoTxn, Transactions
<1>3. Nobody \in [host : Hosts, role : Roles] BY ConstantsTyped DEF Nobody, Roles
<1> QED BY <1>1, <1>2, <1>3

\* The device's two files as one generation.
LEMMA GenTyped == TypeOK => Gen \in Generations
BY DEF TypeOK, Gen, Generations

\* A mutation names an edit of a user of its host, based on a revision that host
\* had imported.
LEMMA EditTyped ==
  ASSUME TypeOK, NEW i \in Ids, NEW c \in Components
  PROVE  Edit(i, c) \in Mutations
<1>1. i \in Ids \cup {Legacy} /\ Owner[i] \in Hosts BY ConstantsTyped
<1>2. [id |-> i, val |-> Owner[i]] \in Intents BY <1>1 DEF Intents
<1>3. Imported(Owner[i], c) \in Nat
  <2>1. cache[Owner[i]].imported \in SUBSET Profiles BY <1>1 DEF TypeOK
  <2>2. CASE cache[Owner[i]].imported = {} BY <2>2 DEF Imported
  <2>3. CASE cache[Owner[i]].imported # {}
    <3> DEFINE p == CHOOSE q \in cache[Owner[i]].imported : TRUE
    <3>1. p \in Profiles BY <2>1, <2>3
    <3>2. p.comps[c].rev \in Nat BY <3>1 DEF Profiles, Values
    <3> QED BY <2>3, <3>2 DEF Imported
  <2> QED BY <2>2, <2>3
<1> QED BY <1>2, <1>3 DEF Edit, Mutations

\* The outbox an acceptance writes.
LEMMA CoalescedTyped ==
  ASSUME TypeOK, NEW i \in Ids
  PROVE  Coalesced(i) \in Boxes
<1>1. Owner[i] \in Hosts BY ConstantsTyped
<1>2. outbox[Owner[i]].pend \in Boxes BY <1>1 DEF TypeOK
<1>3. \A c \in Components :
        (IF c \in Part[i] THEN {Edit(i, c)} ELSE outbox[Owner[i]].pend[c]) \in SUBSET Mutations
  BY <1>2, EditTyped DEF Boxes
<1> QED BY <1>3 DEF Coalesced, Boxes

\* What a mutation of a non-empty box chooses.
LEMMA ChosenTyped ==
  ASSUME NEW b \in Boxes, NEW c \in Components, b[c] # {}
  PROVE  (CHOOSE m \in b[c] : TRUE) \in b[c] /\ (CHOOSE m \in b[c] : TRUE).intent \in Intents
<1>1. (CHOOSE m \in b[c] : TRUE) \in b[c] OBVIOUS
<1>2. b[c] \subseteq Mutations BY DEF Boxes
<1> QED BY <1>1, <1>2 DEF Mutations

\* A plan over typed files is a set of profiles.
LEMMA PlannedTyped ==
  ASSUME TypeOK, NEW b \in Boxes
  PROVE  Planned(b) \in SUBSET Profiles
<1>1. Owned \in BOOLEAN BY DEF Owned, Generate, Claimed
<1>2. ASSUME NEW p \in profile PROVE Applied(p, b) \in Profiles
  <2>1. p \in Profiles BY <1>2 DEF TypeOK
  <2>2. ASSUME NEW c \in Components
        PROVE  (IF b[c] = {} \/ p.comps[c].intent \in {m.intent : m \in b[c]} THEN p.comps[c]
                ELSE [rev |-> NextRev(p.comps[c]),
                      intent |-> (CHOOSE m \in b[c] : TRUE).intent]) \in Values
    <3>1. p.comps[c] \in Values BY <2>1 DEF Profiles
    <3>2. CASE b[c] = {} BY <3>1, <3>2
    <3>3. CASE b[c] # {}
      <4>1. (CHOOSE m \in b[c] : TRUE).intent \in Intents BY <3>3, ChosenTyped
      <4>2. NextRev(p.comps[c]) \in Nat BY <3>1 DEF NextRev, Values
      <4> QED BY <3>1, <4>1, <4>2 DEF Values
    <3> QED BY <3>2, <3>3
  <2> QED BY <1>1, <2>2 DEF Applied, Profiles
<1>3. ASSUME Complete(b) PROVE Initial(b) \in Profiles
  <2>1. ASSUME NEW c \in Components
        PROVE  [rev |-> 1, intent |-> (CHOOSE m \in b[c] : TRUE).intent] \in Values
    <3>1. b[c] # {} BY <1>3 DEF Complete
    <3> QED BY <3>1, ChosenTyped DEF Values
  <2> QED BY <1>1, <2>1 DEF Initial, Profiles
<1> QED BY <1>2, <1>3 DEF Planned

\* The budget of failing writes is kept.
LEMMA FaultTyped ==
  ASSUME TypeOK, NEW p, Fault(p)
  PROVE  faults' \in 0..MaxFaults
BY ConstantsTyped DEF TypeOK, Fault

\* Every step of a session keeps the types.
LEMMA SessionTyped == TypeOK /\ Session => TypeOK'
<1> SUFFICES ASSUME TypeOK, Session PROVE TypeOK'
  OBVIOUS
<1> USE InitialTypes, GenTyped DEF TypeOK, Goto, Return, Stop, budgets, device, memory, hostFiles,
  observed, Points
<1>1. CASE InitSkip BY <1>1 DEF InitSkip
<1>2. CASE InitOutbox
  <2> DEFINE intent == [id |-> Legacy, val |-> who.host]
             pend == [c \in Components |-> {[intent |-> intent, base |-> 0]}]
             mine == [c \in Components |-> {intent}]
  <2>1. intent \in Intents BY DEF Intents
  <2>2. pend \in Boxes /\ mine \in [Components -> SUBSET Intents]
    BY <2>1 DEF Boxes, Mutations
  <2>3. /\ outbox' = [outbox EXCEPT ![who.host] = [exists |-> TRUE, pend |-> pend]]
        /\ last' = [last EXCEPT ![who.host] = mine]
    BY <1>2 DEF InitOutbox
  <2> QED BY <1>2, <2>2, <2>3 DEF InitOutbox
<1>3. CASE InitCache BY <1>3 DEF InitCache
<1>4. CASE Recover BY <1>4 DEF Recover
<1>5. CASE Undo BY <1>5 DEF Undo
<1>6. CASE RestoreProfile BY <1>6 DEF RestoreProfile, Transactions, Generations
<1>7. CASE RestoreSysinfo BY <1>7 DEF RestoreSysinfo, Transactions, Generations
<1>8. CASE CheckRestored BY <1>8 DEF CheckRestored
<1>9. ASSUME NEW f \in TxnFiles, RemoveFile(f) PROVE TypeOK'
  <2>1. txn' \in Transactions BY <1>9 DEF RemoveFile, Transactions
  <2> QED BY <1>9, <2>1 DEF RemoveFile
<1>10. CASE RemoveLast
  <2>1. landed' \in [Components -> SUBSET Intents]
    BY <1>10 DEF RemoveLast, Profiles, Values
  <2> QED BY <1>10, <2>1 DEF RemoveLast
<1>11. CASE Load
  <2>1. outbox[who.host].pend \in Boxes OBVIOUS
  <2>2. Planned(outbox[who.host].pend) \in SUBSET Profiles BY <2>1, PlannedTyped
  <2>3. Generate \in BOOLEAN BY DEF Generate
  <2> QED BY <1>11, <2>1, <2>2, <2>3 DEF Load
<1>12. CASE Import
  <2>1. CASE Stop /\ UNCHANGED cache BY <2>1
  <2>2. CASE /\ cache' = [cache EXCEPT ![who.host] = [exists |-> TRUE, imported |-> cand]]
             /\ Return /\ UNCHANGED <<device, at, outbox, acc, observed, budgets>>
    <3>1. cache' \in [Hosts -> [exists : BOOLEAN, imported : SUBSET Profiles]] BY <2>2
    <3> QED BY <2>2, <3>1
  <2> QED BY <1>12, <2>1, <2>2 DEF Import
<1>13. CASE Fence BY <1>13 DEF Fence
<1>14. CASE Backup BY <1>14 DEF Backup, Transactions, NoTxn, TxnFiles
<1>15. CASE SaveJournal BY <1>15 DEF SaveJournal, Transactions, TxnFiles
<1>16. CASE WriteProfile
  <2>1. CASE Failed("profile") BY <2>1, FaultTyped DEF Failed, Fault
  <2> QED BY <1>16, <2>1 DEF WriteProfile
<1>17. CASE RecordProfile BY <1>17 DEF RecordProfile, Transactions
<1>18. CASE WriteSysinfo
  <2>1. CASE Failed("sysinfo") BY <2>1, FaultTyped DEF Failed, Fault
  <2> QED BY <1>18, <2>1 DEF WriteSysinfo, Sysinfos
<1>19. CASE RecordSysinfo BY <1>19 DEF RecordSysinfo, Transactions
<1>20. CASE Readback BY <1>20 DEF Readback
<1>21. CASE Confirm BY <1>21 DEF Confirm
<1>22. CASE WriteCache BY <1>22 DEF WriteCache
<1>23. CASE ClearOutbox BY <1>23 DEF ClearOutbox
<1> QED BY <1>1, <1>2, <1>3, <1>4, <1>5, <1>6, <1>7, <1>8, <1>9, <1>10, <1>11, <1>12, <1>13,
           <1>14, <1>15, <1>16, <1>17, <1>18, <1>19, <1>20, <1>21, <1>22, <1>23
        DEF Session, Recovery, Publication

\* So does every step of the users, the device and the environment.
LEMMA OtherTyped == TypeOK /\ (Connect \/ Accept \/ Environment) => TypeOK'
<1> SUFFICES ASSUME TypeOK, Connect \/ Accept \/ Environment PROVE TypeOK'
  OBVIOUS
<1> USE InitialTypes, GenTyped DEF TypeOK, Return, budgets, device, memory, hostFiles, observed,
  Points
<1>1. ASSUME NEW r \in Roles, Acquire(r) PROVE TypeOK' BY <1>1 DEF Acquire
<1>2. ASSUME NEW i \in Ids, AcceptLoad(i) PROVE TypeOK'
  <2>1. [comps |-> Part[i], pend |-> Coalesced(i)] \in Accepts
    BY CoalescedTyped, ConstantsTyped DEF Accepts
  <2>2. sends' \in 0..MaxSends BY <1>2, ConstantsTyped DEF AcceptLoad
  <2> QED BY <1>2, <2>1, <2>2 DEF AcceptLoad
<1>3. ASSUME NEW h \in Hosts, AcceptWrite(h) PROVE TypeOK'
  <2>1. PICK a \in acc[h] :
          /\ outbox' = [outbox EXCEPT ![h] = [exists |-> TRUE, pend |-> a.pend]]
          /\ last' = [last EXCEPT ![h] =
               [c \in Components |-> IF c \in a.comps THEN {m.intent : m \in a.pend[c]} ELSE @[c]]]
    BY <1>3 DEF AcceptWrite
  <2>2. a \in Accepts OBVIOUS
  <2>3. a.pend \in Boxes BY <2>2 DEF Accepts
  <2>4. \A c \in Components : {m.intent : m \in a.pend[c]} \in SUBSET Intents
    BY <2>3 DEF Boxes, Mutations
  <2>5. last' \in [Hosts -> [Components -> SUBSET Intents]] BY <2>1, <2>4
  <2> QED BY <1>3, <2>1, <2>3, <2>5 DEF AcceptWrite
<1>4. CASE Crash
  <2>1. crashes' \in 0..MaxCrashes BY <1>4, ConstantsTyped DEF Crash
  <2> QED BY <1>4, <2>1 DEF Crash
<1>5. CASE ForeignWrite BY <1>5, ConstantsTyped DEF ForeignWrite, Sysinfos
<1>6. ASSUME NEW h \in Hosts, Move(h) PROVE TypeOK' BY <1>6, ConstantsTyped DEF Move
<1> QED BY <1>1, <1>2, <1>3, <1>4, <1>5, <1>6 DEF Connect, Accept, Environment

\* The files are typed when nothing has run yet.
LEMMA InitTyped == Init => TypeOK
<1> SUFFICES ASSUME Init PROVE TypeOK
  OBVIOUS
<1>1. \A c \in Components : EmptyBox[c] = {} BY DEF EmptyBox
<1>2. EmptyBox \in [Components -> SUBSET Intents] BY DEF EmptyBox
<1>3. [h \in Hosts |-> EmptyBox] \in [Hosts -> [Components -> SUBSET Intents]] BY <1>2
<1>4. [h \in Hosts |-> [exists |-> FALSE, pend |-> EmptyBox]]
        \in [Hosts -> [exists : BOOLEAN, pend : Boxes]]
  BY InitialTypes
<1>5. profile \in SUBSET Profiles /\ sysinfo \in Sysinfos /\ exp \in Generations
  BY DEF Init, Gen, Generations, Sysinfos
<1>6. crashes \in 0..MaxCrashes /\ faults \in 0..MaxFaults /\ foreign \in 0..MaxForeign
      /\ sends \in 0..MaxSends /\ moves \in 0..MaxMoves
  BY ConstantsTyped DEF Init
<1>7. /\ txn \in Transactions /\ at \in Hosts /\ who \in [host : Hosts, role : Roles]
      /\ pc \in Points /\ next \in {"load", "confirm", "fail"}
      /\ box \in Boxes /\ cand \in SUBSET Profiles /\ gen \in BOOLEAN
  BY InitialTypes DEF Init, Points
<1>8. /\ cache \in [Hosts -> [exists : BOOLEAN, imported : SUBSET Profiles]]
      /\ acc \in [Hosts -> SUBSET Accepts]
  BY DEF Init
<1>9. outbox \in [Hosts -> [exists : BOOLEAN, pend : Boxes]]
      /\ last \in [Hosts -> [Components -> SUBSET Intents]]
      /\ landed \in [Components -> SUBSET Intents]
  BY <1>2, <1>3, <1>4 DEF Init
<1> QED BY <1>5, <1>6, <1>7, <1>8, <1>9 DEF TypeOK

\* Types hold in every behaviour (state_store.rs, device_transaction.rs).
THEOREM TypesHold == Spec => []TypeOK
<1>1. TypeOK /\ [Next]_vars => TypeOK'
  <2>1. TypeOK /\ UNCHANGED vars => TypeOK'
    BY DEF TypeOK, vars, device, hostFiles, memory, observed, budgets
  <2> QED BY <2>1, SessionTyped, OtherTyped DEF Next
<1> QED BY <1>1, InitTyped, PTL DEF Spec

-----------------------------------------------------------------------------
(* The journal.                                                              *)

\* The journal is on the device at every point that may have to roll back, and
\* a session that plans or confirms has none.
LEMMA JournalStep == TypeOK /\ JournalInv /\ [Next]_vars => JournalInv'
<1> SUFFICES ASSUME TypeOK, JournalInv, [Next]_vars PROVE JournalInv'
  OBVIOUS
<1> USE DEF JournalInv, Journalled, Prepared, Written, Restoring, Confirming, Goto, Return, Stop,
  device
<1>1. CASE Recovery
  <2>1. CASE Recover BY <2>1 DEF Recover
  <2>2. CASE Undo BY <2>2 DEF Undo
  <2>3. CASE RestoreProfile BY <2>3 DEF RestoreProfile
  <2>4. CASE RestoreSysinfo BY <2>4 DEF RestoreSysinfo
  <2>5. CASE CheckRestored BY <2>5 DEF CheckRestored
  <2>6. ASSUME NEW f \in TxnFiles, RemoveFile(f) PROVE JournalInv' BY <2>6 DEF RemoveFile
  <2>7. CASE RemoveLast
    <3>1. txn'.files = {} BY <2>7 DEF RemoveLast, NoTxn
    <3>2. pc' \in {"idle", "load", "confirm"} BY <2>7 DEF RemoveLast, TypeOK
    <3> QED BY <3>1, <3>2
  <2> QED BY <1>1, <2>1, <2>2, <2>3, <2>4, <2>5, <2>6, <2>7 DEF Recovery
<1>2. CASE Publication
  <2>1. CASE Fence BY <2>1 DEF Fence
  <2>2. CASE Backup BY <2>2 DEF Backup, NoTxn
  <2>3. CASE SaveJournal BY <2>3 DEF SaveJournal
  <2>4. CASE WriteProfile BY <2>4 DEF WriteProfile, Failed
  <2>5. CASE RecordProfile BY <2>5 DEF RecordProfile
  <2>6. CASE WriteSysinfo BY <2>6 DEF WriteSysinfo, Failed
  <2>7. CASE RecordSysinfo BY <2>7 DEF RecordSysinfo
  <2>8. CASE Readback BY <2>8 DEF Readback
  <2> QED BY <1>2, <2>1, <2>2, <2>3, <2>4, <2>5, <2>6, <2>7, <2>8 DEF Publication
<1>3. CASE InitSkip \/ InitOutbox \/ InitCache \/ Load \/ Import
  BY <1>3 DEF InitSkip, InitOutbox, InitCache, Load, Import
<1>4. CASE Confirm \/ WriteCache \/ ClearOutbox BY <1>4 DEF Confirm, WriteCache, ClearOutbox
<1>5. CASE Connect BY <1>5 DEF Connect, Acquire
<1>6. CASE Accept BY <1>6 DEF Accept, AcceptLoad, AcceptWrite
<1>7. CASE Environment BY <1>7 DEF Environment, Crash, ForeignWrite, Move
<1>8. CASE UNCHANGED vars BY <1>8 DEF vars
<1> QED BY <1>1, <1>2, <1>3, <1>4, <1>5, <1>6, <1>7, <1>8 DEF Next, Session

-----------------------------------------------------------------------------
(* The caches.                                                               *)

\* What is behind a profile is behind everything that is ahead of it.
LEMMA NotAheadThrough ==
  ASSUME NEW p \in Profiles, NEW q \in Profiles, NEW r \in Profiles,
         NotAhead(p, q), NotAhead(q, r)
  PROVE  NotAhead(p, r)
<1> SUFFICES ASSUME NEW c \in Components
             PROVE  p.comps[c].rev < r.comps[c].rev \/ p.comps[c] = r.comps[c]
  BY DEF NotAhead
<1>1. p.comps[c].rev \in Nat /\ q.comps[c].rev \in Nat /\ r.comps[c].rev \in Nat
  BY DEF Profiles, Values
<1>2. /\ p.comps[c].rev < q.comps[c].rev \/ p.comps[c] = q.comps[c]
      /\ q.comps[c].rev < r.comps[c].rev \/ q.comps[c] = r.comps[c]
  BY DEF NotAhead
<1> QED BY <1>1, <1>2

\* Applying mutations takes no component back.
LEMMA AppliedAhead ==
  ASSUME NEW p \in Profiles, NEW b
  PROVE  NotAhead(p, Applied(p, b))
<1> SUFFICES ASSUME NEW c \in Components
             PROVE  p.comps[c].rev < Applied(p, b).comps[c].rev
                      \/ p.comps[c] = Applied(p, b).comps[c]
  BY DEF NotAhead
<1>1. p.comps[c].rev \in Nat BY DEF Profiles, Values
<1>2. CASE b[c] = {} \/ p.comps[c].intent \in {m.intent : m \in b[c]} BY <1>2 DEF Applied
<1>3. CASE ~ (b[c] = {} \/ p.comps[c].intent \in {m.intent : m \in b[c]})
  <2>1. Applied(p, b).comps[c].rev = p.comps[c].rev + 1 BY <1>3 DEF Applied, NextRev
  <2> QED BY <1>1, <2>1
<1> QED BY <1>2, <1>3

\* A plan covers what the profile covers: where there is a profile it is the one
\* that mutations were applied to, and where there is none no host imported one.
LEMMA PlannedCovers ==
  ASSUME TypeOK, NEW b \in Boxes, Covers(cache, profile), Lone(profile), Planned(b) # {}
  PROVE  Covers(cache, Planned(b)) /\ Lone(Planned(b))
<1>1. CASE profile = {}
  <2>1. \A h \in Hosts : cache[h].imported = {} BY <1>1 DEF Covers
  <2>2. Planned(b) \subseteq {Initial(b)} BY <1>1 DEF Planned
  <2> QED BY <2>1, <2>2 DEF Covers, Lone
<1>2. CASE profile # {}
  <2>1. PICK q \in profile : TRUE BY <1>2
  <2>2. profile = {q} BY <2>1 DEF Lone
  <2>3. Planned(b) = {Applied(q, b)} BY <1>2, <2>2 DEF Planned
  <2>4. q \in Profiles /\ Applied(q, b) \in Profiles BY <2>1, <2>3, PlannedTyped DEF TypeOK
  <2>5. ASSUME NEW h \in Hosts, NEW p \in cache[h].imported
        PROVE  NotAhead(p, Applied(q, b))
    <3>1. p \in Profiles BY DEF TypeOK
    <3>2. NotAhead(p, q) BY <2>2 DEF Covers
    <3> QED BY <2>4, <3>1, <3>2, AppliedAhead, NotAheadThrough
  <2> QED BY <2>3, <2>5 DEF Covers, Lone
<1> QED BY <1>1, <1>2

\* A host that forgets, or records the profile itself, believes nothing else.
LEMMA CoversRecorded ==
  ASSUME TypeOK, NEW h \in Hosts, NEW P, NEW Q \in {{}, P}, Covers(cache, P)
  PROVE  Covers([cache EXCEPT ![h] = [exists |-> TRUE, imported |-> Q]], P)
<1> DEFINE k == [cache EXCEPT ![h] = [exists |-> TRUE, imported |-> Q]]
<1> SUFFICES ASSUME NEW g \in Hosts, NEW p \in k[g].imported
             PROVE  \E q \in P : NotAhead(p, q)
  BY DEF Covers
<1>1. CASE g = h
  <2>1. p \in P BY <1>1 DEF TypeOK
  <2>2. NotAhead(p, p) BY DEF NotAhead
  <2> QED BY <2>1, <2>2
<1>2. CASE g # h
  <2>1. p \in cache[g].imported BY <1>2 DEF TypeOK
  <2> QED BY <2>1 DEF Covers
<1> QED BY <1>1, <1>2

\* No rollback, recovery or publication puts the profile behind a cache.
LEMMA CacheStep == TypeOK /\ JournalInv /\ CacheInv /\ [Next]_vars => CacheInv'
<1> SUFFICES ASSUME TypeOK, JournalInv, CacheInv, [Next]_vars PROVE CacheInv'
  OBVIOUS
<1> USE DEF CacheInv, JournalInv, Committed, Journalled, Prepared, Written, Restoring, Confirming,
  Goto, Return, Stop, device, memory, hostFiles
<1>1. CASE Recovery
  <2>1. CASE Recover BY <2>1 DEF Recover
  <2>2. CASE Undo BY <2>2 DEF Undo
  <2>3. CASE RestoreProfile BY <2>3 DEF RestoreProfile
  <2>4. CASE RestoreSysinfo BY <2>4 DEF RestoreSysinfo
  <2>5. CASE CheckRestored BY <2>5 DEF CheckRestored
  <2>6. ASSUME NEW f \in TxnFiles, RemoveFile(f) PROVE CacheInv'
    <3>1. "journal" \in txn'.files => txn'.saved = txn.saved /\ "journal" \in txn.files
      BY <2>6 DEF RemoveFile, NoTxn, TypeOK, Transactions
    <3> QED BY <2>6, <3>1 DEF RemoveFile
  <2>7. CASE RemoveLast
    <3>1. txn'.files = {} /\ UNCHANGED <<profile, cache>> BY <2>7 DEF RemoveLast, NoTxn
    <3>2. \/ pc' = "idle"
          \/ pc' = next /\ next \in {"load", "confirm"} /\ cand' = cand
      BY <2>7 DEF RemoveLast, TypeOK
    <3>3. pc = "remove" BY <2>7 DEF RemoveLast
    <3> QED BY <3>1, <3>2, <3>3
  <2> QED BY <1>1, <2>1, <2>2, <2>3, <2>4, <2>5, <2>6, <2>7 DEF Recovery
<1>2. CASE Publication
  <2>1. CASE Fence BY <2>1 DEF Fence
  <2>2. CASE Backup
    <3>1. txn'.saved = {Gen} /\ Gen.profile = profile BY <2>2 DEF Backup, NoTxn, Gen
    <3> QED BY <2>2, <3>1 DEF Backup
  <2>3. CASE SaveJournal BY <2>3 DEF SaveJournal, TypeOK, Transactions
  <2>4. CASE WriteProfile BY <2>4 DEF WriteProfile, Failed
  <2>5. CASE RecordProfile BY <2>5 DEF RecordProfile, TypeOK, Transactions
  <2>6. CASE WriteSysinfo BY <2>6 DEF WriteSysinfo, Failed
  <2>7. CASE RecordSysinfo BY <2>7 DEF RecordSysinfo, TypeOK, Transactions
  <2>8. CASE Readback BY <2>8 DEF Readback
  <2> QED BY <1>2, <2>1, <2>2, <2>3, <2>4, <2>5, <2>6, <2>7, <2>8 DEF Publication
<1>3. CASE InitSkip \/ InitOutbox BY <1>3 DEF InitSkip, InitOutbox
<1>4. CASE InitCache
  <2>1. who.host \in Hosts BY DEF TypeOK
  <2>2. \A P : Covers(cache, P) => Covers(cache', P) BY <1>4, <2>1, CoversRecorded DEF InitCache
  <2> QED BY <1>4, <2>2 DEF InitCache
<1>5. CASE Load
  <2>1. outbox[who.host].pend \in Boxes BY DEF TypeOK
  <2> QED BY <1>5, <2>1, PlannedCovers DEF Load
<1>6. CASE Import \/ WriteCache
  <2>1. CASE Stop /\ UNCHANGED cache BY <2>1
  <2>2. CASE cache' = [cache EXCEPT ![who.host] = [exists |-> TRUE, imported |-> cand]]
    <3>1. who.host \in Hosts BY DEF TypeOK
    <3>2. profile = cand /\ UNCHANGED <<profile, txn>> /\ ~ Journalled
      BY <1>6, <2>2 DEF Import, WriteCache
    <3>3. Covers(cache', profile) BY <2>2, <3>1, <3>2, CoversRecorded
    <3>4. pc' = "idle" \/ (pc' = "wclear" /\ cand' = cand) BY <1>6, <2>2 DEF Import, WriteCache
    <3> QED BY <3>2, <3>3, <3>4
  <2> QED BY <1>6, <2>1, <2>2 DEF Import, WriteCache
<1>7. CASE Confirm \/ ClearOutbox BY <1>7 DEF Confirm, ClearOutbox
<1>8. CASE Connect BY <1>8 DEF Connect, Acquire
<1>9. CASE Accept BY <1>9 DEF Accept, AcceptLoad, AcceptWrite
<1>10. CASE Environment BY <1>10 DEF Environment, Crash, ForeignWrite, Move
<1>11. CASE UNCHANGED vars BY <1>11 DEF vars
<1> QED BY <1>1, <1>2, <1>3, <1>4, <1>5, <1>6, <1>7, <1>8, <1>9, <1>10, <1>11 DEF Next, Session

-----------------------------------------------------------------------------
(* The two files.                                                            *)

\* A journal goes only from beside a profile whose SysInfoExtended is there.
LEMMA TornStep == TypeOK /\ JournalInv /\ TornInv /\ [Next]_vars => TornInv'
<1> SUFFICES ASSUME TypeOK, JournalInv, TornInv, [Next]_vars PROVE TornInv'
  OBVIOUS
<1> USE DEF TornInv, JournalInv, Journalled, Prepared, Written, Restoring, Confirming, Goto,
  Return, Stop, device, memory
<1>1. Gen.profile = profile /\ Gen.sysinfo = sysinfo BY DEF Gen
<1>2. CASE Recovery
  <2>1. CASE Recover BY <1>1, <2>1 DEF Recover
  <2>2. CASE Undo BY <2>2 DEF Undo
  <2>3. CASE RestoreProfile BY <2>3 DEF RestoreProfile
  <2>4. CASE RestoreSysinfo BY <2>4 DEF RestoreSysinfo
  <2>5. CASE CheckRestored BY <1>1, <2>5 DEF CheckRestored
  <2>6. ASSUME NEW f \in TxnFiles, RemoveFile(f) PROVE TornInv'
    <3>1. "journal" \in txn'.files => txn'.before = txn.before /\ "journal" \in txn.files
      BY <2>6 DEF RemoveFile, NoTxn, TypeOK, Transactions
    <3> QED BY <2>6, <3>1 DEF RemoveFile
  <2>7. CASE RemoveLast
    <3>1. txn'.files = {} /\ UNCHANGED <<profile, sysinfo>> BY <2>7 DEF RemoveLast, NoTxn
    <3>2. pc' \in {"idle", "load", "confirm"} /\ pc = "remove" BY <2>7 DEF RemoveLast, TypeOK
    <3> QED BY <3>1, <3>2
  <2> QED BY <1>2, <2>1, <2>2, <2>3, <2>4, <2>5, <2>6, <2>7 DEF Recovery
<1>3. CASE Publication
  <2>1. CASE Fence BY <1>1, <2>1 DEF Fence
  <2>2. CASE Backup BY <2>2 DEF Backup, NoTxn
  <2>3. CASE SaveJournal BY <2>3 DEF SaveJournal, TypeOK, Transactions
  <2>4. CASE WriteProfile BY <2>4 DEF WriteProfile, Failed
  <2>5. CASE RecordProfile BY <2>5 DEF RecordProfile, TypeOK, Transactions
  <2>6. CASE WriteSysinfo BY <2>6 DEF WriteSysinfo, Failed
  <2>7. CASE RecordSysinfo BY <2>7 DEF RecordSysinfo, TypeOK, Transactions
  <2>8. CASE Readback
    <3>1. CASE pc' = "undo" BY <2>8, <3>1 DEF Readback
    <3>2. CASE (gen => sysinfo = "ours") /\ pc' = "remove"
      <4>1. sysinfo # "none" BY <2>8, <3>2 DEF Readback
      <4> QED BY <2>8, <3>2, <4>1 DEF Readback, Whole
    <3> QED BY <2>8, <3>1, <3>2 DEF Readback
  <2> QED BY <1>3, <2>1, <2>2, <2>3, <2>4, <2>5, <2>6, <2>7, <2>8 DEF Publication
<1>4. CASE InitSkip \/ InitOutbox \/ InitCache \/ Import
  BY <1>4 DEF InitSkip, InitOutbox, InitCache, Import
<1>5. CASE Load BY <1>5 DEF Load, Generate
<1>6. CASE Confirm \/ WriteCache \/ ClearOutbox BY <1>6 DEF Confirm, WriteCache, ClearOutbox
<1>7. CASE Connect BY <1>7 DEF Connect, Acquire
<1>8. CASE Accept BY <1>8 DEF Accept, AcceptLoad, AcceptWrite
<1>9. CASE Crash \/ \E h \in Hosts : Move(h) BY <1>9 DEF Crash, Move
<1>10. CASE ForeignWrite BY <1>10 DEF ForeignWrite, Whole
<1>11. CASE UNCHANGED vars BY <1>11 DEF vars
<1> QED BY <1>2, <1>3, <1>4, <1>5, <1>6, <1>7, <1>8, <1>9, <1>10, <1>11
        DEF Next, Session, Environment

-----------------------------------------------------------------------------
(* Another program's file.                                                   *)

\* Outside the windows a foreign file is in the original of the transaction, or
\* is seen by the next comparison of the generations.
LEMMA ForeignStep ==
  ASSUME ForeignAt \cap Unwatched = {}
  PROVE  TypeOK /\ JournalInv /\ ForeignInv /\ [Next]_vars => ForeignInv'
<1> SUFFICES ASSUME TypeOK, JournalInv, ForeignInv, [Next]_vars PROVE ForeignInv'
  OBVIOUS
<1> USE DEF ForeignInv, JournalInv, Journalled, Prepared, Written, Restoring, Confirming, Goto,
  Return, Stop, device, memory
<1>1. Gen.sysinfo = sysinfo BY DEF Gen
<1>2. CASE Recovery
  <2>1. CASE Recover BY <1>1, <2>1 DEF Recover
  <2>2. CASE Undo BY <1>1, <2>2 DEF Undo
  <2>3. CASE RestoreProfile BY <2>3 DEF RestoreProfile
  <2>4. CASE RestoreSysinfo BY <2>4 DEF RestoreSysinfo
  <2>5. CASE CheckRestored BY <2>5 DEF CheckRestored
  <2>6. ASSUME NEW f \in TxnFiles, RemoveFile(f) PROVE ForeignInv'
    <3>1. "journal" \in txn'.files =>
            /\ txn'.before = txn.before /\ txn'.published = txn.published
            /\ txn'.saved = txn.saved /\ "journal" \in txn.files
      BY <2>6 DEF RemoveFile, NoTxn, TypeOK, Transactions
    <3> QED BY <2>6, <3>1 DEF RemoveFile
  <2>7. CASE RemoveLast
    <3>1. txn'.files = {} /\ UNCHANGED sysinfo BY <2>7 DEF RemoveLast, NoTxn
    <3>2. pc' \in {"idle", "confirm"} \/ (pc' = "load" /\ exp' = Gen)
      BY <2>7 DEF RemoveLast, TypeOK
    <3> QED BY <1>1, <3>1, <3>2
  <2> QED BY <1>2, <2>1, <2>2, <2>3, <2>4, <2>5, <2>6, <2>7 DEF Recovery
<1>3. CASE Publication
  <2>1. CASE Fence BY <1>1, <2>1 DEF Fence
  <2>2. CASE Backup BY <1>1, <2>2 DEF Backup, NoTxn
  <2>3. CASE SaveJournal BY <2>3 DEF SaveJournal, TypeOK, Transactions
  <2>4. CASE WriteProfile BY <2>4 DEF WriteProfile, Failed
  <2>5. CASE RecordProfile BY <1>1, <2>5 DEF RecordProfile, TypeOK, Transactions
  <2>6. CASE WriteSysinfo BY <2>6 DEF WriteSysinfo, Failed
  <2>7. CASE RecordSysinfo BY <1>1, <2>7 DEF RecordSysinfo, TypeOK, Transactions
  <2>8. CASE Readback BY <2>8 DEF Readback
  <2> QED BY <1>3, <2>1, <2>2, <2>3, <2>4, <2>5, <2>6, <2>7, <2>8 DEF Publication
<1>4. CASE InitSkip \/ InitOutbox \/ InitCache \/ Import
  BY <1>4 DEF InitSkip, InitOutbox, InitCache, Import
<1>5. CASE Load BY <1>5 DEF Load, Generate
<1>6. CASE Confirm \/ WriteCache \/ ClearOutbox BY <1>6 DEF Confirm, WriteCache, ClearOutbox
<1>7. CASE Connect BY <1>1, <1>7 DEF Connect, Acquire
<1>8. CASE Accept BY <1>8 DEF Accept, AcceptLoad, AcceptWrite
<1>9. CASE Crash \/ \E h \in Hosts : Move(h) BY <1>9 DEF Crash, Move
<1>10. CASE ForeignWrite BY <1>10 DEF ForeignWrite, Unwatched
<1>11. CASE UNCHANGED vars BY <1>11 DEF vars
<1> QED BY <1>2, <1>3, <1>4, <1>5, <1>6, <1>7, <1>8, <1>9, <1>10, <1>11
        DEF Next, Session, Environment

-----------------------------------------------------------------------------
(* The edits.                                                                *)

\* A plan carries the mutations it is made from.
LEMMA PlannedCarries ==
  ASSUME NEW b, Single(b), NEW p \in Planned(b)
  PROVE  Carries(p, b)
<1> SUFFICES ASSUME NEW c \in Components, NEW m \in b[c]
             PROVE  p.comps[c].intent = m.intent
  BY DEF Carries
<1>1. \A n \in b[c] : n = m BY DEF Single
<1>2. (CHOOSE n \in b[c] : TRUE) = m BY <1>1
<1>3. CASE \E q \in profile : p = Applied(q, b)
  <2>1. PICK q \in profile : p = Applied(q, b) BY <1>3
  <2>2. CASE q.comps[c].intent \in {n.intent : n \in b[c]}
    <3>1. p.comps[c] = q.comps[c] BY <2>1, <2>2 DEF Applied
    <3> QED BY <1>1, <2>2, <3>1
  <2>3. CASE ~ (q.comps[c].intent \in {n.intent : n \in b[c]})
    BY <1>2, <2>1, <2>3 DEF Applied
  <2> QED BY <2>2, <2>3
<1>4. CASE p = Initial(b) BY <1>2, <1>4 DEF Initial
<1> QED BY <1>3, <1>4 DEF Planned

\* Nothing is lost by a step that touches no outbox.
LEMMA WaitingFrame ==
  ASSUME Waiting, UNCHANGED <<outbox, acc, last, landed>>
  PROVE  Waiting'
BY DEF Waiting, KeptIn

\* What has landed stays landed.
LEMMA WaitingLanded ==
  ASSUME Waiting, UNCHANGED <<outbox, acc, last>>,
         \A c \in Components : landed[c] \subseteq landed'[c]
  PROVE  Waiting'
BY DEF Waiting, KeptIn

\* The outbox of a host with settings of its own is complete at once.
LEMMA InitOutboxKept ==
  ASSUME TypeOK, IntentInv, InitOutbox
  PROVE  Waiting'
<1> DEFINE h == who.host
           intent == [id |-> Legacy, val |-> h]
           pend == [c \in Components |-> {[intent |-> intent, base |-> 0]}]
<1>1. /\ outbox' = [outbox EXCEPT ![h] = [exists |-> TRUE, pend |-> pend]]
      /\ last' = [last EXCEPT ![h] = [c \in Components |-> {intent}]]
      /\ UNCHANGED <<acc, landed>> /\ h \in Hosts /\ acc[h] = {}
  BY DEF InitOutbox, TypeOK, IntentInv, InFlight
<1>2. outbox'[h].pend = pend /\ \A c \in Components : last'[h][c] = {intent}
  BY <1>1 DEF TypeOK
<1>3. \A g \in Hosts \ {h} : outbox'[g] = outbox[g] /\ last'[g] = last[g] BY <1>1 DEF TypeOK
<1>4. Single(pend) BY DEF Single
<1>5. \A c \in Components : \A i \in last'[h][c] : \E m \in pend[c] : m.intent = i BY <1>2
<1> HIDE DEF pend, h
<1> QED BY <1>1, <1>2, <1>3, <1>4, <1>5 DEF Waiting, KeptIn, IntentInv

\* An acceptance loads every edit that waits.
LEMMA AcceptLoadKept ==
  ASSUME TypeOK, IntentInv, NEW i \in Ids, AcceptLoad(i)
  PROVE  Waiting'
<1> DEFINE h == Owner[i]
           new == [comps |-> Part[i], pend |-> Coalesced(i)]
<1>1. /\ acc' = [acc EXCEPT ![h] = {new}] /\ UNCHANGED <<outbox, last, landed>>
      /\ h \in Hosts
  BY ConstantsTyped DEF AcceptLoad, hostFiles, observed
<1>2. acc'[h] = {new} /\ \A g \in Hosts \ {h} : acc'[g] = acc[g] BY <1>1 DEF TypeOK
<1>3. \A c \in Components :
        Coalesced(i)[c] = IF c \in Part[i] THEN {Edit(i, c)} ELSE outbox[h].pend[c]
  BY DEF Coalesced
<1>4. Single(new.pend)
  <2>1. Single(outbox[h].pend) BY <1>1 DEF IntentInv, Waiting
  <2> QED BY <1>3, <2>1 DEF Single
<1>5. \A c \in Components \ new.comps : \A e \in last[h][c] : KeptIn(new.pend, c, e)
  <2>1. \A c \in Components : \A e \in last[h][c] : KeptIn(outbox[h].pend, c, e)
    BY <1>1 DEF IntentInv, Waiting
  <2> QED BY <1>3, <2>1 DEF KeptIn
<1> HIDE DEF new, h
<1> QED BY <1>1, <1>2, <1>4, <1>5 DEF Waiting, KeptIn, IntentInv

\* The outbox written is the one that was loaded, with the edit in its place.
LEMMA AcceptWriteKept ==
  ASSUME TypeOK, IntentInv, NEW h \in Hosts, AcceptWrite(h)
  PROVE  Waiting'
<1>1. PICK a \in acc[h] :
        /\ outbox' = [outbox EXCEPT ![h] = [exists |-> TRUE, pend |-> a.pend]]
        /\ last' = [last EXCEPT ![h] =
             [c \in Components |-> IF c \in a.comps THEN {m.intent : m \in a.pend[c]} ELSE @[c]]]
  BY DEF AcceptWrite
<1>2. acc' = [acc EXCEPT ![h] = {}] /\ UNCHANGED landed BY DEF AcceptWrite
<1>3. outbox'[h].pend = a.pend /\ acc'[h] = {} BY <1>1, <1>2 DEF TypeOK
<1>4. \A g \in Hosts \ {h} : outbox'[g] = outbox[g] /\ last'[g] = last[g] /\ acc'[g] = acc[g]
  BY <1>1, <1>2 DEF TypeOK
<1>5. ASSUME NEW c \in Components, NEW i \in last'[h][c] PROVE KeptIn(a.pend, c, i)'
  <2>1. last'[h][c] = IF c \in a.comps THEN {m.intent : m \in a.pend[c]} ELSE last[h][c]
    BY <1>1 DEF TypeOK
  <2>2. CASE c \in a.comps BY <1>5, <2>1, <2>2 DEF KeptIn
  <2>3. CASE c \notin a.comps
    <3>1. KeptIn(a.pend, c, i) BY <1>5, <2>1, <2>3 DEF IntentInv, Waiting
    <3> QED BY <1>2, <3>1 DEF KeptIn
  <2> QED BY <2>2, <2>3
<1>6. Single(a.pend) BY DEF IntentInv, Waiting
<1> QED BY <1>2, <1>3, <1>4, <1>5, <1>6 DEF Waiting, KeptIn, IntentInv

\* The outbox is cleared of what has landed.
LEMMA ClearOutboxKept ==
  ASSUME TypeOK, IntentInv, ClearOutbox
  PROVE  Waiting'
<1> DEFINE h == who.host
<1>1. /\ outbox' = [outbox EXCEPT ![h] = [exists |-> TRUE, pend |-> EmptyBox]]
      /\ UNCHANGED <<acc, last, landed>> /\ h \in Hosts /\ outbox[h].pend = box
      /\ \A c \in Components : \A m \in box[c] : m.intent \in landed[c]
  BY DEF ClearOutbox, TypeOK, observed, IntentInv, InFlight, Confirming
<1>2. outbox'[h].pend = EmptyBox /\ \A g \in Hosts \ {h} : outbox'[g] = outbox[g]
  BY <1>1 DEF TypeOK
<1>3. Single(EmptyBox) BY DEF Single, EmptyBox
<1>4. ASSUME NEW c \in Components, NEW i \in last[h][c] PROVE KeptIn(EmptyBox, c, i)'
  <2>1. KeptIn(outbox[h].pend, c, i) BY <1>1 DEF IntentInv, Waiting
  <2> QED BY <1>1, <2>1 DEF KeptIn
<1> HIDE DEF h
<1> QED BY <1>1, <1>2, <1>3, <1>4 DEF Waiting, KeptIn, IntentInv

\* An accepted edit survives every session that compares the outbox and clears
\* it before another acceptance.
LEMMA IntentStep ==
  ASSUME AcceptAt \cap Compared = {}
  PROVE  TypeOK /\ JournalInv /\ CacheInv /\ IntentInv /\ [Next]_vars => IntentInv'
<1> SUFFICES ASSUME TypeOK, JournalInv, CacheInv, IntentInv, [Next]_vars PROVE IntentInv'
  OBVIOUS
<1>0. Waiting /\ InFlight BY DEF IntentInv
<1> USE DEF InFlight, Committed, Prepared, Written, Confirming, Goto, Return, Stop, device,
  memory, hostFiles, observed, budgets
<1>1. CASE Recovery
  <2>1. CASE Recover
    <3>1. InFlight' BY <1>0, <2>1 DEF Recover
    <3> QED BY <1>0, <2>1, <3>1, WaitingFrame DEF Recover, IntentInv
  <2>2. CASE Undo
    <3>1. InFlight' BY <1>0, <2>2 DEF Undo
    <3> QED BY <1>0, <2>2, <3>1, WaitingFrame DEF Undo, IntentInv
  <2>3. CASE RestoreProfile \/ RestoreSysinfo \/ CheckRestored
    <3>1. InFlight' BY <1>0, <2>3 DEF RestoreProfile, RestoreSysinfo, CheckRestored, JournalInv, Restoring
    <3> QED BY <1>0, <2>3, <3>1, WaitingFrame
          DEF RestoreProfile, RestoreSysinfo, CheckRestored, IntentInv
  <2>4. ASSUME NEW f \in TxnFiles, RemoveFile(f) PROVE IntentInv'
    <3>1. InFlight' BY <1>0, <2>4 DEF RemoveFile
    <3> QED BY <1>0, <2>4, <3>1, WaitingFrame DEF RemoveFile, IntentInv
  <2>5. CASE RemoveLast
    <3>1. \A c \in Components : landed[c] \subseteq landed'[c]
      BY <2>5 DEF RemoveLast, TypeOK
    <3>2. Waiting' BY <1>0, <2>5, <3>1, WaitingLanded DEF RemoveLast
    <3>3. CASE pc' = "confirm" /\ next = "confirm"
      <4>1. cand # {} /\ \A p \in cand : Carries(p, box) BY <1>0, <2>5, <3>3 DEF RemoveLast
      <4>2. profile = cand BY <2>5, <3>3 DEF RemoveLast, CacheInv
      <4>3. PICK p \in cand : TRUE BY <4>1
      <4>4. \A c \in Components : p.comps[c].intent \in landed'[c]
        BY <2>5, <3>3, <4>2, <4>3 DEF RemoveLast
      <4>5. \A c \in Components : \A m \in box[c] : m.intent \in landed'[c]
        BY <4>1, <4>3, <4>4 DEF Carries
      <4> QED BY <1>0, <2>5, <3>2, <3>3, <4>5 DEF RemoveLast, IntentInv
    <3>4. CASE pc' = "load" BY <1>0, <2>5, <3>2, <3>4 DEF RemoveLast, IntentInv
    <3>5. CASE pc' = "idle" BY <3>2, <3>5 DEF IntentInv
    <3> QED BY <2>5, <3>3, <3>4, <3>5 DEF RemoveLast, TypeOK
  <2> QED BY <1>1, <2>1, <2>2, <2>3, <2>4, <2>5 DEF Recovery
<1>2. CASE Publication
  <2>1. Waiting'
    BY <1>0, <1>2, WaitingFrame
       DEF Publication, Fence, Backup, SaveJournal, WriteProfile, RecordProfile, WriteSysinfo,
           RecordSysinfo, Readback, Failed
  <2>2. CASE Fence BY <1>0, <2>1, <2>2 DEF Fence, IntentInv
  <2>3. CASE Backup BY <1>0, <2>1, <2>3 DEF Backup, IntentInv
  <2>4. CASE SaveJournal BY <1>0, <2>1, <2>4 DEF SaveJournal, IntentInv
  <2>5. CASE WriteProfile BY <1>0, <2>1, <2>5 DEF WriteProfile, Failed, IntentInv
  <2>6. CASE RecordProfile BY <1>0, <2>1, <2>6 DEF RecordProfile, IntentInv
  <2>7. CASE WriteSysinfo BY <1>0, <2>1, <2>7 DEF WriteSysinfo, Failed, IntentInv
  <2>8. CASE RecordSysinfo BY <1>0, <2>1, <2>8 DEF RecordSysinfo, IntentInv
  <2>9. CASE Readback BY <1>0, <2>1, <2>9 DEF Readback, IntentInv
  <2> QED BY <1>2, <2>2, <2>3, <2>4, <2>5, <2>6, <2>7, <2>8, <2>9 DEF Publication
<1>3. CASE InitSkip \/ InitCache \/ Import \/ Confirm \/ WriteCache
  <2>1. Waiting'
    BY <1>0, <1>3, WaitingFrame DEF InitSkip, InitCache, Import, Confirm, WriteCache
  <2>2. CASE InitSkip \/ InitCache BY <1>0, <2>1, <2>2 DEF InitSkip, InitCache, IntentInv
  <2>3. CASE Import BY <1>0, <2>1, <2>3 DEF Import, IntentInv
  <2>4. CASE Confirm BY <1>0, <2>1, <2>4 DEF Confirm, IntentInv
  <2>5. CASE WriteCache BY <1>0, <2>1, <2>5 DEF WriteCache, IntentInv
  <2> QED BY <1>3, <2>2, <2>3, <2>4, <2>5
<1>4. CASE InitOutbox
  <2>1. Waiting' BY <1>4, InitOutboxKept
  <2> QED BY <1>0, <1>4, <2>1 DEF InitOutbox, IntentInv
<1>5. CASE ClearOutbox
  <2>1. Waiting' BY <1>5, ClearOutboxKept
  <2> QED BY <1>0, <1>5, <2>1 DEF ClearOutbox, IntentInv
<1>6. CASE Load
  <2> DEFINE pend == outbox[who.host].pend
  <2>1. Waiting' BY <1>0, <1>6, WaitingFrame DEF Load
  <2>2. Single(pend) BY <1>0 DEF Waiting, TypeOK
  <2>3. \A p \in Planned(pend) : Carries(p, pend) BY <2>2, PlannedCarries
  <2> HIDE DEF pend
  <2>4. \/ pc' \in {"idle", "import"}
        \/ pc' = "fence" /\ cand' = Planned(pend) /\ box' = pend /\ Planned(pend) # {}
    BY <1>6 DEF Load, pend
  <2>5. \/ pc = "load" /\ UNCHANGED <<acc, landed, next>>
        \/ pc' = "idle"
    BY <1>6 DEF Load
  <2>6. pc' # "idle" => who' = who BY <1>6 DEF Load
  <2> QED BY <1>0, <2>1, <2>3, <2>4, <2>5, <2>6 DEF IntentInv
<1>7. CASE Connect
  <2>1. Waiting' BY <1>0, <1>7, WaitingFrame DEF Connect, Acquire
  <2>2. PICK r \in Roles : Acquire(r) BY <1>7 DEF Connect
  <2>3. /\ who'.host = at /\ who'.role = r /\ acc' = acc
        /\ r # "worker" => acc[at] = {}
        /\ pc' = IF r = "admit" THEN "init" ELSE "recover"
    BY <2>2 DEF Acquire, DaemonFree
  <2> QED BY <2>1, <2>3 DEF IntentInv
<1>8. ASSUME NEW i \in Ids, AcceptLoad(i) PROVE IntentInv'
  <2>1. Waiting' BY <1>0, <1>8, AcceptLoadKept DEF IntentInv
  <2>2. /\ acc' = [acc EXCEPT ![Owner[i]] = {[comps |-> Part[i], pend |-> Coalesced(i)]}]
        /\ ~ (pc # "idle" /\ who.host = Owner[i] /\ who.role # "worker")
        /\ UNCHANGED <<outbox, who, pc, next, cand, box, landed>>
    BY <1>8 DEF AcceptLoad, DaemonFree
  <2>3. who.host # Owner[i] => acc'[who.host] = acc[who.host] BY <2>2 DEF TypeOK
  <2>4. InFlight' BY <1>0, <2>2, <2>3
  <2> QED BY <2>1, <2>4 DEF IntentInv
<1>9. ASSUME NEW h \in Hosts, AcceptWrite(h) PROVE IntentInv'
  <2>1. Waiting' BY <1>0, <1>9, AcceptWriteKept DEF IntentInv
  <2>2. /\ acc' = [acc EXCEPT ![h] = {}] /\ UNCHANGED <<who, pc, next, cand, box, landed>>
        /\ pc \in Compared => who.host # h
    BY <1>9 DEF AcceptWrite
  <2>3. \A g \in Hosts \ {h} : outbox'[g] = outbox[g] BY <1>9 DEF AcceptWrite, TypeOK
  <2>4. who.host \in Hosts /\ (acc[who.host] = {} => acc'[who.host] = {}) BY <2>2 DEF TypeOK
  <2>5. InFlight' BY <1>0, <2>2, <2>3, <2>4 DEF Compared
  <2> QED BY <2>1, <2>5 DEF IntentInv
<1>10. CASE Crash
  <2>1. Waiting' BY <1>0, <1>10, WaitingFrame DEF Crash
  <2> QED BY <1>10, <2>1 DEF Crash, IntentInv
<1>11. CASE ForeignWrite \/ (\E h \in Hosts : Move(h)) \/ UNCHANGED vars
  <2>1. UNCHANGED <<outbox, acc, last, landed, who, pc, next, cand, box>>
    BY <1>11 DEF ForeignWrite, Move, vars
  <2>2. Waiting' BY <1>0, <2>1, WaitingFrame
  <2>3. InFlight' BY <1>0, <2>1
  <2> QED BY <2>2, <2>3 DEF IntentInv
<1> QED BY <1>1, <1>2, <1>3, <1>4, <1>5, <1>6, <1>7, <1>8, <1>9, <1>10, <1>11
        DEF Next, Session, Accept, Environment

-----------------------------------------------------------------------------
(* The results.                                                              *)

\* Before the first session there is no profile, no journal and no edit.
LEMMA InitKept == Init => JournalInv /\ CacheInv /\ TornInv /\ IntentInv /\ ForeignInv
<1> SUFFICES ASSUME Init PROVE JournalInv /\ CacheInv /\ TornInv /\ IntentInv /\ ForeignInv
  OBVIOUS
<1>1. /\ pc = "idle" /\ txn.files = {} /\ profile = {}
      /\ \A h \in Hosts : /\ cache[h].imported = {} /\ outbox[h].pend = EmptyBox
                          /\ acc[h] = {} /\ last[h] = EmptyBox
  BY DEF Init, NoTxn
<1>2. JournalInv
  BY <1>1 DEF JournalInv, Journalled, Prepared, Written, Restoring, Confirming
<1>3. CacheInv
  BY <1>1 DEF CacheInv, Journalled, Prepared, Confirming, Committed, Covers, Lone
<1>4. TornInv BY <1>1 DEF TornInv, Journalled, Prepared, Written, Whole
<1>5. IntentInv
  <2>1. Waiting BY <1>1 DEF Waiting, Single, EmptyBox
  <2>2. InFlight BY <1>1 DEF InFlight, Prepared, Written, Confirming, Committed
  <2> QED BY <2>1, <2>2 DEF IntentInv
<1>6. ForeignInv BY <1>1 DEF ForeignInv, Journalled, Prepared
<1> QED BY <1>2, <1>3, <1>4, <1>5, <1>6

\* The parts that need nothing of the environment.
LEMMA FilesHold == Spec => [](TypeOK /\ JournalInv /\ CacheInv /\ TornInv)
<1>1. TypeOK /\ JournalInv /\ CacheInv /\ TornInv /\ [Next]_vars
        => (JournalInv /\ CacheInv /\ TornInv)'
  BY JournalStep, CacheStep, TornStep
<1> QED BY <1>1, TypesHold, InitKept, PTL DEF Spec

\* No host believes committed what the device does not hold: wherever a session
\* dies, the rollback its journal allows never takes the profile behind a cache
\* (device_transaction.rs recover, coordinator.rs confirm_device_commit).
THEOREM CachesTrue == Spec => []CacheTruthful
<1>1. CacheInv => CacheTruthful BY DEF CacheInv, Covers, NotAhead, CacheTruthful
<1> QED BY <1>1, FilesHold, PTL

\* Wherever a publication of the two files stops, no session is left with a
\* profile that owns a SysInfoExtended and none beside it but under its journal.
THEOREM FilesTogether == Spec => []NothingTorn
<1>1. TornInv => NothingTorn BY DEF TornInv, Journalled, Whole, NothingTorn, Claimed
<1> QED BY <1>1, FilesHold, PTL

\* Once durably accepted, an edit waits or has landed, unless it was accepted
\* between the comparison of the outbox and its clearing.
THEOREM EditsKept ==
  ASSUME AcceptAt \cap Compared = {}
  PROVE  Spec => []IntentKept
<1>1. TypeOK /\ JournalInv /\ CacheInv /\ IntentInv /\ [Next]_vars => IntentInv'
  BY IntentStep
<1>2. Init => IntentInv BY InitKept
<1>3. IntentInv => IntentKept BY DEF IntentInv, Waiting, KeptIn, IntentKept
<1> QED BY <1>1, <1>2, <1>3, FilesHold, PTL DEF Spec

\* Another program's SysInfoExtended is never replaced, by a publication or by a
\* rollback, unless it appeared between a comparison and the record behind it.
THEOREM ForeignSafe ==
  ASSUME ForeignAt \cap Unwatched = {}
  PROVE  Spec => ForeignKept
<1>1. TypeOK /\ JournalInv /\ ForeignInv /\ [Next]_vars => ForeignInv'
  BY ForeignStep
<1>2. Init => ForeignInv BY InitKept
<1>3. TypeOK /\ JournalInv /\ ForeignInv /\ [Next]_vars
        => [sysinfo = "foreign" => sysinfo' = "foreign"]_vars
  <2> SUFFICES ASSUME JournalInv, ForeignInv, Next, sysinfo = "foreign"
               PROVE  sysinfo' = "foreign"
    OBVIOUS
  <2>1. CASE UNCHANGED sysinfo BY <2>1
  <2>2. CASE RestoreSysinfo
    BY <2>2 DEF RestoreSysinfo, ForeignInv, JournalInv, Restoring, Journalled
  <2>3. CASE WriteSysinfo /\ sysinfo' = "ours"
    <3>1. pc = "wsysinfo" BY <2>3 DEF WriteSysinfo
    <3>2. gen BY <3>1 DEF ForeignInv
    <3> QED BY <3>1, <3>2 DEF ForeignInv, Prepared
  <2>4. CASE ForeignWrite BY <2>4 DEF ForeignWrite
  <2> QED BY <2>1, <2>2, <2>3, <2>4
  DEF Next, Session, Connect, Accept, Environment, Recovery, Publication, InitSkip, InitOutbox,
      InitCache, Recover, Undo, RestoreProfile, CheckRestored, RemoveFile, RemoveLast, Load,
      Import, Fence, Backup, SaveJournal, WriteProfile, RecordProfile, WriteSysinfo,
      RecordSysinfo, Readback, Confirm, WriteCache, ClearOutbox, Acquire, AcceptLoad,
      AcceptWrite, Crash, Move, Failed, Stop, device
<1> QED BY <1>1, <1>2, <1>3, FilesHold, PTL DEF Spec, ForeignKept
=============================================================================
