---------------------------- MODULE DevicesProofs ----------------------------
(***************************************************************************)
(* An observation is of one volume, whatever happens while it is made.     *)
(* What joins the two identities a probe reads is the check at its end:    *)
(* a path that still leads to the mount that was opened has led there all  *)
(* the time, since every mount is an instance of its own.                  *)
(***************************************************************************)
EXTENDS Devices, FiniteSetTheorems, WellFoundedInduction, TLAPS

World ==
  /\ slot \in [Ids -> Nat]
  /\ at \in [Paths -> Volumes \cup {None}]
  /\ mounts \in [Paths -> Nat]
  /\ OnBus(slot, at)

\* The path still leads to the mount that was opened.
Still(look) == at[look.path] = look.from /\ mounts[look.path] = look.instance

Opened == {"parse", "probe", "probeUsb", "confirm"}

Scans ==
  /\ DOMAIN scan = DOMAIN IdleScan
  /\ scan.pc \in Opened \cup {"cold"} =>
       /\ scan.todo \subseteq Paths
       /\ \A o \in scan.got : Whole(o)
  /\ scan.pc \in Opened =>
       /\ scan.look.path \in Paths /\ scan.look.from \in Volumes
       /\ scan.look.instance \in Nat /\ scan.look.instance <= mounts[scan.look.path]
  /\ scan.pc = "probeUsb" /\ Still(scan.look) => scan.disk = slot[Owner[scan.look.from]]
  /\ scan.pc = "confirm" /\ Still(scan.look) => scan.usb \in {None, Owner[scan.look.from]}

IInv == World /\ Scans

-----------------------------------------------------------------------------
(* The world.                                                              *)

\* A set of numbers that is not empty has its smallest one.
LEMMA Least ==
  ASSUME NEW S, S \subseteq Nat, S # {}
  PROVE  Min(S) \in S
<1> DEFINE R == OpToRel(<, Nat)
<1>1. PICK x \in S : \A y \in S : ~ (<<y, x>> \in R)
  BY WFMin, NatLessThanWellFounded
<1>2. ASSUME NEW y \in S
      PROVE  x <= y
  <2>1. x \in Nat /\ y \in Nat OBVIOUS
  <2>2. y < x => <<y, x>> \in R
    BY <2>1 DEF OpToRel
  <2> HIDE DEF R
  <2>3. ~ (y < x) BY <1>1, <2>2
  <2> QED BY <2>1, <2>3
<1> QED BY <1>2 DEF Min

\* While a device is off the bus a disk number is free.
LEMMA FreeNumber ==
  ASSUME NEW d \in Ids, slot \in [Ids -> Nat], slot[d] = 0
  PROVE  Min(1..Cardinality(Ids) \ {slot[e] : e \in Ids})
           \in Nat \ ({slot[e] : e \in Ids} \cup {0})
<1> DEFINE N == Cardinality(Ids)
           Others == Ids \ {d}
           Used == {slot[e] : e \in Others}
           Free == 1..N \ {slot[e] : e \in Ids}
<1>1. IsFiniteSet(Ids) BY ObservationAssumption
<1>2. N \in Nat BY <1>1, FS_CardinalityType
<1>3. IsFiniteSet(Others) /\ Cardinality(Others) = N - 1
  BY <1>1, FS_RemoveElement
<1>4. IsFiniteSet(Used) /\ Cardinality(Used) <= N - 1
  <2> DEFINE f == [e \in Others |-> slot[e]]
  <2>1. f \in Surjection(Others, Used) BY DEF Surjection
  <2> HIDE DEF f, Others, Used, N
  <2>2. IsFiniteSet(Used) /\ Cardinality(Used) <= Cardinality(Others)
    BY <2>1, <1>3, FS_Surjection
  <2> QED BY <2>2, <1>3
<1>5. Free # {}
  <2> SUFFICES ASSUME Free = {} PROVE FALSE
    OBVIOUS
  <2>1. 1..N \subseteq Used
    <3> SUFFICES ASSUME NEW n \in 1..N PROVE n \in Used
      OBVIOUS
    <3>1. PICK e \in Ids : n = slot[e] OBVIOUS
    <3>2. e # d BY <3>1, <1>2
    <3> QED BY <3>1, <3>2
  <2>2. Cardinality(1..N) = N /\ IsFiniteSet(1..N)
    BY <1>2, FS_Interval
  <2> HIDE DEF N, Used
  <2>3. Cardinality(1..N) <= Cardinality(Used)
    BY <2>1, <1>4, FS_Subset
  <2>4. Cardinality(Used) \in Nat BY <1>4, FS_CardinalityType
  <2> QED BY <2>2, <2>3, <2>4, <1>4, <1>2
<1>6. Free \subseteq Nat BY <1>2
<1>7. Min(Free) \in Free BY <1>5, <1>6, Least
<1> QED BY <1>7, <1>2

\* What the world does keeps it coherent, and once a path leads elsewhere than
\* to the mount that was opened it does so for good.
Moved ==
  /\ World'
  /\ \A p \in Paths : mounts[p] <= mounts'[p]
  /\ \A p \in Paths, v \in Volumes :
       at'[p] = v /\ mounts'[p] = mounts[p] => at[p] = v /\ slot'[Owner[v]] = slot[Owner[v]]

\* A device gets a number that is free.
LEMMA PlugMoves ==
  ASSUME World, NEW d \in Ids, Plug(d)
  PROVE  Moved
<1> DEFINE n == Min(1..Cardinality(Ids) \ {slot[e] : e \in Ids})
<1>1. n \in Nat /\ n # 0 /\ \A e \in Ids : slot[e] # n
  BY FreeNumber DEF World, Plug
<1>2. slot' = [slot EXCEPT ![d] = n] /\ slot[d] = 0
  BY DEF Plug
<1> HIDE DEF n
<1>3. at' = at /\ mounts' = mounts BY DEF Plug
<1>4. Owner \in [Volumes -> Ids] /\ None \notin Volumes BY ObservationAssumption
<1>5. \A e \in Ids : slot'[e] = IF e = d THEN n ELSE slot[e]
  BY <1>2 DEF World
<1>6. OnBus(slot', at')
  BY <1>1, <1>2, <1>3, <1>4, <1>5 DEF World, OnBus
<1>7. World' BY <1>1, <1>2, <1>3, <1>6 DEF World
<1>8. \A p \in Paths, v \in Volumes : at[p] = v => slot'[Owner[v]] = slot[Owner[v]]
  BY <1>2, <1>4, <1>5 DEF World, OnBus
<1> QED BY <1>3, <1>7, <1>8 DEF Moved, World

\* What was on the device is no longer mounted.
LEMMA UnplugMoves ==
  ASSUME World, NEW d \in Ids, Unplug(d)
  PROVE  Moved
<1>1. slot' = [slot EXCEPT ![d] = 0] /\ mounts' = mounts
  BY DEF Unplug
<1>2. at' = [p \in Paths |-> IF at[p] # None /\ Owner[at[p]] = d THEN None ELSE at[p]]
  BY DEF Unplug
<1>3. Owner \in [Volumes -> Ids] /\ None \notin Volumes BY ObservationAssumption
<1>4. \A e \in Ids : slot'[e] = IF e = d THEN 0 ELSE slot[e]
  BY <1>1 DEF World
<1>5. OnBus(slot', at')
  BY <1>1, <1>2, <1>3, <1>4 DEF World, OnBus
<1>6. World' BY <1>1, <1>2, <1>5 DEF World
<1>7. \A p \in Paths, v \in Volumes : at'[p] = v => at[p] = v /\ slot'[Owner[v]] = slot[Owner[v]]
  BY <1>2, <1>3, <1>4 DEF World
<1> QED BY <1>1, <1>6, <1>7 DEF Moved, World

\* A mount is a new instance, an ejected path leads nowhere, and a database
\* written leaves the bus and the mounts alone.
LEMMA RemountMoves ==
  ASSUME World, Remount
  PROVE  Moved
<1>0. Owner \in [Volumes -> Ids] /\ None \notin Volumes BY ObservationAssumption
<1>1. ASSUME NEW v \in Volumes, NEW p \in Paths, Mount(v, p)
      PROVE  Moved
  <2>1. /\ at' = [at EXCEPT ![p] = v] /\ mounts' = [mounts EXCEPT ![p] = @ + 1]
        /\ slot' = slot /\ slot[Owner[v]] # 0
    BY <1>1 DEF Mount, Plugged
  <2>2. \A q \in Paths : /\ at'[q] = IF q = p THEN v ELSE at[q]
                         /\ mounts'[q] = IF q = p THEN mounts[q] + 1 ELSE mounts[q]
    BY <2>1 DEF World
  <2>3. World' BY <2>1, <2>2, <1>0 DEF World, OnBus
  <2> QED BY <2>1, <2>2, <2>3 DEF Moved, World
<1>2. ASSUME NEW p \in Paths, Eject(p)
      PROVE  Moved
  <2>1. at' = [at EXCEPT ![p] = None] /\ mounts' = mounts /\ slot' = slot
    BY <1>2 DEF Eject
  <2>2. \A q \in Paths : at'[q] = IF q = p THEN None ELSE at[q]
    BY <2>1 DEF World
  <2>3. World' BY <2>1, <2>2, <1>0 DEF World, OnBus
  <2> QED BY <2>1, <2>2, <2>3, <1>0 DEF Moved, World
<1>3. ASSUME NEW v \in Volumes, NEW state \in Bases, Write(v, state)
      PROVE  Moved
  BY <1>3 DEF Write, Moved, World, OnBus
<1> QED BY <1>1, <1>2, <1>3 DEF Remount

\* A look that was taken stays what it was.
LEMMA ScansMoved ==
  ASSUME World, Scans, Moved, scan' = scan
  PROVE  Scans'
<1>1. DOMAIN scan' = DOMAIN IdleScan' BY DEF Scans, IdleScan
<1>2. ASSUME scan.pc \in Opened \cup {"cold"}
      PROVE  scan.todo \subseteq Paths /\ (\A o \in scan.got : Whole(o))'
  BY <1>2 DEF Scans, Whole
<1>3. ASSUME scan.pc \in Opened
      PROVE  /\ scan.look.path \in Paths /\ scan.look.from \in Volumes
             /\ scan.look.instance \in Nat
             /\ scan.look.instance <= mounts[scan.look.path]
             /\ scan.look.instance <= mounts'[scan.look.path]
             /\ at'[scan.look.path] = scan.look.from /\ mounts'[scan.look.path] = scan.look.instance =>
                  Still(scan.look) /\ slot'[Owner[scan.look.from]] = slot[Owner[scan.look.from]]
  <2>1. /\ scan.look.path \in Paths /\ scan.look.from \in Volumes
        /\ scan.look.instance \in Nat
        /\ scan.look.instance <= mounts[scan.look.path]
    BY <1>3 DEF Scans
  <2>2. mounts'[scan.look.path] \in Nat /\ mounts[scan.look.path] <= mounts'[scan.look.path]
    BY <2>1 DEF Moved, World
  <2>3. ASSUME at'[scan.look.path] = scan.look.from,
               mounts'[scan.look.path] = scan.look.instance
        PROVE  Still(scan.look) /\ slot'[Owner[scan.look.from]] = slot[Owner[scan.look.from]]
    <3>2. mounts[scan.look.path] \in Nat BY <2>1 DEF World
    <3>3. mounts'[scan.look.path] = mounts[scan.look.path]
      BY <2>3, <3>2, <2>1, <2>2
    <3> QED BY <2>3, <3>3, <2>1 DEF Moved, Still
  <2>4. scan.look.instance <= mounts'[scan.look.path]
    BY <2>1, <2>2, <2>3 DEF World
  <2> QED BY <2>1, <2>3, <2>4
<1> QED BY <1>1, <1>2, <1>3 DEF Scans, Opened, Still

-----------------------------------------------------------------------------
(* The watcher.                                                            *)

\* A step after which nothing is being looked at.
LEMMA ScansElsewhere ==
  ASSUME DOMAIN scan' = DOMAIN IdleScan,
         scan'.pc \notin Opened \cup {"cold"}
  PROVE  Scans'
BY DEF Scans, Opened, IdleScan

\* The fields of a scan.
LEMMA ScanFields ==
  DOMAIN IdleScan = {"pc", "pool", "todo", "got", "expect", "strict", "item", "disk", "look",
                     "readiness", "usb"}
BY DEF IdleScan

\* Candidates are listed, opened and parsed.
LEMMA OpenKept ==
  ASSUME World, Scans, List \/ Open \/ Parse
  PROVE  Scans'
<1> USE ScanFields
<1>0. /\ slot' = slot /\ at' = at /\ mounts' = mounts
      /\ DOMAIN scan = DOMAIN IdleScan
  BY DEF List, Open, Parse, Scanning, world, Scans
<1>1. CASE List
  <2>1. /\ scan'.pc = "cold" /\ scan'.todo = Mounted /\ scan'.got = {}
        /\ DOMAIN scan' = DOMAIN scan
    BY <1>0, <1>1 DEF List, candidate_mount_points
  <2> QED BY <2>1, <1>0 DEF Scans, Opened, Mounted, IdleScan
<1>2. CASE Open
  <2> DEFINE p == CHOOSE q \in scan.todo : TRUE
  <2>1. /\ scan.pc = "cold" /\ p \in scan.todo /\ scan.todo \subseteq Paths
        /\ \A o \in scan.got : Whole(o)
    BY <1>2 DEF Open, Scans
  <2>2. CASE at[p] = None
    <3>1. scan' = [scan EXCEPT !.todo = @ \ {p}]
      BY <1>2, <2>2 DEF Open
    <3>2. /\ scan'.pc = "cold" /\ scan'.todo = scan.todo \ {p} /\ scan'.got = scan.got
          /\ DOMAIN scan' = DOMAIN scan
      BY <1>0, <2>1, <3>1
    <3> QED BY <3>2, <1>0, <2>1 DEF Scans, Opened, IdleScan, Whole
  <2>3. CASE at[p] # None
    <3>1. scan' = [scan EXCEPT !.pc = "parse", !.todo = @ \ {p}, !.look = Inspect(p)]
      BY <1>2, <2>3 DEF Open
    <3>2. /\ scan'.pc = "parse" /\ scan'.todo = scan.todo \ {p} /\ scan'.got = scan.got
          /\ scan'.look = Inspect(p)
          /\ DOMAIN scan' = DOMAIN scan
      BY <1>0, <2>1, <3>1
    <3>3. /\ scan'.look.path = p /\ scan'.look.from = at[p]
          /\ scan'.look.instance = mounts[p]
      BY <3>2 DEF Inspect
    <3>4. p \in Paths /\ at[p] \in Volumes /\ mounts[p] \in Nat
      BY <2>1, <2>3 DEF World
    <3> HIDE DEF p
    <3>5. scan'.todo \subseteq Paths /\ \A o \in scan'.got : Whole(o)
      BY <3>2, <2>1
    <3> QED BY <3>2, <3>3, <3>4, <3>5, <1>0, <2>1 DEF Scans, Opened, IdleScan, Whole
  <2> QED BY <2>2, <2>3
<1>3. CASE Parse
  <2>1. scan.pc = "parse" BY <1>3 DEF Parse
  <2>2. /\ scan'.pc = "probe" /\ scan'.todo = scan.todo /\ scan'.got = scan.got
        /\ scan'.look = scan.look
        /\ DOMAIN scan' = DOMAIN scan
    BY <1>0, <1>3 DEF Parse
  <2> QED BY <2>1, <2>2, <1>0 DEF Scans, Opened, IdleScan, Whole
<1> QED BY <1>1, <1>2, <1>3

\* The disk number of a mounted volume is its device's, and stands for it.
LEMMA ProbeKept ==
  ASSUME World, Scans, ProbeDisk \/ ProbeUsb
  PROVE  Scans'
<1> USE ScanFields
<1>0. /\ slot' = slot /\ at' = at /\ mounts' = mounts
      /\ DOMAIN scan = DOMAIN IdleScan
  BY DEF ProbeDisk, ProbeUsb, Scanning, world, Scans
<1>1. /\ scan.pc \in {"probe", "probeUsb"}
      /\ scan.todo \subseteq Paths
      /\ \A o \in scan.got : Whole(o)
      /\ scan.look.path \in Paths /\ scan.look.from \in Volumes
      /\ scan.look.instance \in Nat /\ scan.look.instance <= mounts[scan.look.path]
  BY DEF ProbeDisk, ProbeUsb, Scans, Opened
<1>2. Owner \in [Volumes -> Ids] /\ None \notin Volumes BY ObservationAssumption
<1>3. CASE ProbeDisk
  <2>1. scan' = [scan EXCEPT !.pc = "probeUsb", !.disk = DiskOf(scan.look.path)]
    BY <1>3 DEF ProbeDisk, TakeDisk
  <2>2. /\ scan'.pc = "probeUsb" /\ scan'.todo = scan.todo /\ scan'.got = scan.got
        /\ scan'.look = scan.look /\ scan'.disk = DiskOf(scan.look.path)
        /\ DOMAIN scan' = DOMAIN scan
    BY <1>0, <2>1
  <2>3. Still(scan.look) => scan'.disk = slot[Owner[scan.look.from]]
    BY <2>2, <1>1, <1>2 DEF Still, DiskOf
  <2> QED BY <2>2, <2>3, <1>0, <1>1 DEF Scans, Opened, IdleScan, Whole, Still
<1>4. CASE ProbeUsb
  <2>1. PICK usb \in Ids \cup {None} : Probe(usb) /\ scan' = [scan EXCEPT !.pc = "confirm", !.usb = usb]
    BY <1>4 DEF ProbeUsb
  <2>2. /\ scan'.pc = "confirm" /\ scan'.todo = scan.todo /\ scan'.got = scan.got
        /\ scan'.look = scan.look /\ scan'.usb = usb
        /\ DOMAIN scan' = DOMAIN scan
    BY <1>0, <2>1
  <2>3. ASSUME Still(scan.look), usb # None
        PROVE  usb = Owner[scan.look.from]
    <3>1. usb = DeviceOn(scan.disk) BY <2>1, <2>3 DEF Probe
    <3>2. PICK d \in Plugged : slot[d] = scan.disk /\ usb = d
      BY <3>1, <2>3 DEF DeviceOn
    <3>3. scan.disk = slot[Owner[scan.look.from]]
      BY <2>3, <1>4 DEF ProbeUsb, Scans
    <3>4. slot[d] = slot[Owner[scan.look.from]] /\ slot[d] # 0 /\ d \in Ids
      BY <3>2, <3>3 DEF Plugged
    <3> QED BY <3>2, <3>4, <1>1, <1>2 DEF World, OnBus
  <2> QED BY <2>2, <2>3, <1>0, <1>1 DEF Scans, Opened, IdleScan, Whole, Still
<1> QED BY <1>3, <1>4

\* An observation is made only of what its path still leads to.
LEMMA ConfirmKept ==
  ASSUME World, Scans, Confirm
  PROVE  Scans'
<1> USE ScanFields
<1> DEFINE seen == Assemble(scan.look, scan.readiness, scan.usb)
<1>0. /\ slot' = slot /\ at' = at /\ mounts' = mounts
      /\ DOMAIN scan = DOMAIN IdleScan
  BY DEF Confirm, Scanning, world, Scans
<1>1. /\ scan.pc = "confirm" /\ scan.todo \subseteq Paths
      /\ \A o \in scan.got : Whole(o)
  BY DEF Confirm, Scans, Opened
<1>2. /\ scan'.pc = "cold" /\ scan'.todo = scan.todo
      /\ scan'.got = IF IsCurrent(scan.look) THEN scan.got \cup {seen} ELSE scan.got
      /\ DOMAIN scan' = DOMAIN scan
  BY <1>0 DEF Confirm
<1>3. IsCurrent(scan.look) => Whole(seen)
  <2>1. seen.id = scan.usb /\ seen.from = scan.look.from /\ seen.label = Model[scan.look.from]
    BY DEF Assemble
  <2>2. IsCurrent(scan.look) => Still(scan.look) BY DEF IsCurrent, Still
  <2> QED BY <2>1, <2>2, <1>1 DEF Scans, Whole
<1> HIDE DEF seen
<1>4. \A o \in scan'.got : Whole(o) BY <1>1, <1>2, <1>3
<1> QED BY <1>0, <1>1, <1>2, <1>4 DEF Scans, Opened, IdleScan, Whole

\* A recheck opens nothing.
LEMMA RecheckKept ==
  ASSUME Scans, BeginScan \/ RecheckFiles \/ RecheckDisk \/ RecheckUsb \/ Adapt \/ Remember \/ Diff
  PROVE  Scans'
<1> USE ScanFields
<1>0. DOMAIN scan = DOMAIN IdleScan BY DEF Scans
<1>1. GiveUp => DOMAIN scan' = DOMAIN IdleScan /\ scan'.pc \notin Opened \cup {"cold"}
  BY <1>0 DEF GiveUp, Opened
<1>2. ASSUME NEW got, NEW expect, Agreed(got, expect)
      PROVE  DOMAIN scan' = DOMAIN IdleScan /\ scan'.pc \notin Opened \cup {"cold"}
  <2>1. CASE scan.pool = expect
    <3>1. scan' = [scan EXCEPT !.pc = IF scan.strict THEN "diff" ELSE "remember",
                               !.got = got, !.todo = {}, !.item = NoKnown, !.look = NoLook,
                               !.disk = 0]
      BY <1>2, <2>1 DEF Agreed
    <3>2. DOMAIN scan' = DOMAIN scan /\ scan'.pc \in {"diff", "remember"}
      BY <1>0, <3>1
    <3> QED BY <1>0, <3>2 DEF Opened
  <2>2. CASE scan.pool # expect
    BY <1>1, <1>2, <2>2 DEF Agreed
  <2> QED BY <2>1, <2>2
<1>3. CASE BeginScan
  BY <1>0, <1>3, ScansElsewhere DEF BeginScan, Opened, IdleScan
<1>4. CASE RecheckFiles
  <2>1. PICK item, p : GiveUp \/ scan' = [scan EXCEPT !.pc = "recheckDisk", !.look = [NoLook EXCEPT !.path = p],
                                     !.item = item]
    BY <1>4 DEF RecheckFiles
  <2> QED BY <1>0, <1>1, <2>1, ScansElsewhere DEF Opened
<1>5. CASE RecheckDisk
  BY <1>0, <1>5, ScansElsewhere DEF RecheckDisk, TakeDisk, Opened
<1>6. CASE RecheckUsb
  <2>1. PICK todo, got, expect :
          GiveUp \/ Agreed(got, expect)
            \/ scan' = [scan EXCEPT !.pc = "recheck", !.todo = todo, !.got = got,
                                          !.expect = expect, !.disk = 0]
    BY <1>6 DEF RecheckUsb
  <2>2. scan' = [scan EXCEPT !.pc = "recheck", !.todo = todo, !.got = got,
                                          !.expect = expect, !.disk = 0]
        => DOMAIN scan' = DOMAIN IdleScan /\ scan'.pc \notin Opened \cup {"cold"}
    BY <1>0 DEF Opened
  <2> QED BY <1>1, <1>2, <2>1, <2>2, ScansElsewhere
<1>7. CASE Adapt
  <2>1. PICK found : scan' = IF found = {} /\ cache.known # {}
                THEN [scan EXCEPT !.pc = "recheck", !.strict = FALSE, !.got = {},
                                  !.todo = cache.known, !.expect = cache.candidates]
                ELSE [scan EXCEPT !.pc = "remember", !.got = found]
    BY <1>7 DEF Adapt
  <2> QED BY <1>0, <2>1, ScansElsewhere DEF Opened
<1>8. CASE Remember
  BY <1>0, <1>8, ScansElsewhere DEF Remember, Opened
<1>9. CASE Diff
  BY <1>9, ScansElsewhere DEF Diff, Opened, IdleScan
<1> QED BY <1>3, <1>4, <1>5, <1>6, <1>7, <1>8, <1>9

-----------------------------------------------------------------------------
(* The specification.                                                      *)

\* What starts is on the bus, and nothing is looked at.
LEMMA InitIInv == Init => IInv
<1> SUFFICES ASSUME Init PROVE IInv
  OBVIOUS
<1>1. PICK start \in Starts : slot = start.slot /\ at = start.at
  BY DEF Init, WorldInit
<1>2. /\ start \in [slot : [Ids -> Nat], at : [Paths -> Volumes \cup {None}]]
      /\ OnBus(start.slot, start.at)
  BY ObservationAssumption
<1>3. World BY <1>1, <1>2 DEF Init, WorldInit, World
<1>4. Scans BY DEF Init, Scans, IdleScan, Opened
<1> QED BY <1>3, <1>4 DEF IInv

\* A step of the world moves it; any other leaves it or the scan alone.
LEMMA StepIInv == IInv /\ [Next]_vars => IInv'
<1> SUFFICES ASSUME World, Scans, [Next]_vars PROVE IInv'
  BY DEF IInv
<1>1. ASSUME world' = world
      PROVE  World'
  BY <1>1 DEF World, world, OnBus
<1>2. ASSUME world' = world, scan' = scan
      PROVE  Scans'
  BY <1>2 DEF Scans, world, Opened, IdleScan, Whole, Still
<1>3. ASSUME Moved, scan' = scan
      PROVE  IInv'
  BY <1>3, ScansMoved DEF Moved, IInv
<1>4. CASE WatcherSteps
  <2>1. world' = world
    BY <1>4 DEF WatcherSteps, BeginScan, RecheckFiles, RecheckDisk, RecheckUsb, List, Open, Parse,
                ProbeDisk, ProbeUsb, Confirm, Adapt, Remember, Diff, Send, TakeSignal, Scanning
  <2>2. CASE Send \/ TakeSignal
    BY <2>1, <2>2, <1>1, <1>2 DEF Send, TakeSignal, IInv
  <2>3. CASE ~ (Send \/ TakeSignal)
    BY <2>1, <2>3, <1>1, <1>4, OpenKept, ProbeKept, ConfirmKept, RecheckKept DEF WatcherSteps, IInv
  <2> QED BY <2>2, <2>3
<1>5. CASE DaemonSteps \/ WindowPasses
  BY <1>5, <1>1, <1>2
     DEF DaemonSteps, Debounced, Connect, Disconnect, Taken, WindowPasses, watching, IInv
<1>6. CASE Outside
  <2>1. ASSUME NEW d \in Ids, PlugIn(d) PROVE IInv'
    BY <2>1, <1>3, PlugMoves DEF PlugIn
  <2>2. ASSUME NEW d \in Ids, PlugOut(d) PROVE IInv'
    BY <2>2, <1>3, UnplugMoves DEF PlugOut
  <2>3. ASSUME NEW d \in Ids, Edit(d) \/ Import(d) \/ Corrupt(d) PROVE IInv'
    BY <2>3, <1>1, <1>2 DEF Edit, Import, Corrupt, watching, IInv
  <2>4. CASE Remount
    BY <2>4, <1>3, RemountMoves DEF Remount, watching
  <2>5. CASE Restart
    BY <2>5, <1>1, ScansElsewhere DEF Restart, IInv, Opened, IdleScan
  <2> QED BY <1>6, <2>1, <2>2, <2>3, <2>4, <2>5 DEF Outside
<1>7. CASE UNCHANGED vars
  BY <1>7, <1>1, <1>2 DEF vars, watching, IInv
<1> QED BY <1>4, <1>5, <1>6, <1>7 DEF Next

\* Between any two reads of a probe the world may move as it likes: a scan knows
\* a path that leads where it led only by the instance of the mount.
THEOREM InvariantHolds == Spec => []IInv
<1> QED BY InitIInv, StepIInv, PTL DEF Spec

\* An observation never joins the files of one volume to the identity of
\* another (ObservationWhole): for any devices, volumes and paths, however disk
\* numbers are given out again.
THEOREM ObservationsWhole == Spec => []ObservationWhole
<1>1. IInv => ObservationWhole BY DEF IInv, Scans, ObservationWhole
<1> QED BY <1>1, InvariantHolds, PTL
=============================================================================
