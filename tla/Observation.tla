---------------------------- MODULE Observation ----------------------------
(***************************************************************************)
(* Mounted iPods as the operating system shows them, and what one look at  *)
(* a mount point finds: the layout and the database, opened together as    *)
(* one authority, the USB identity probed beside them, and the check that  *)
(* the path still leads to what was opened.                                *)
(*                                                                         *)
(* A volume keeps its identity, its layout and its model; its database is  *)
(* replaced by a new file whenever a program writes it.  Each mount is an  *)
(* instance of its own: no two share a device and inode pair while the     *)
(* authority holds a file of the older one open.                           *)
(***************************************************************************)
EXTENDS Naturals, FiniteSets, Sequences, FiniteSetsExt

CONSTANTS
  Ids,          \* device identities, the USB serial numbers in canonical form
  Volumes,      \* volumes with the layout of an iPod
  Owner,        \* the device a volume belongs to
  Model,        \* the model its SysInfo names, or the USB product stands for
  Paths,        \* mount points
  Starts,       \* what may be plugged in and mounted at first
  None          \* no volume, no path, no identity

(* Devices on the bus have disk numbers of their own, and what is mounted  *)
(* is on one of them.                                                      *)
OnBus(numbers, volumes) ==
  /\ \A d, e \in Ids : numbers[d] = numbers[e] /\ numbers[d] # 0 => d = e
  /\ \A p \in Paths : volumes[p] # None => numbers[Owner[volumes[p]]] # 0

ASSUME ObservationAssumption ==
  /\ IsFiniteSet(Ids)
  /\ None \notin Ids \cup Volumes \cup Paths
  /\ Owner \in [Volumes -> Ids]
  /\ Starts \subseteq [slot : [Ids -> Nat], at : [Paths -> Volumes \cup {None}]]
  /\ \A start \in Starts : OnBus(start.slot, start.at)

VARIABLES
  slot,         \* the disk number of each device on the USB bus, 0 off it
  at,           \* the volume mounted at each path
  mounts,       \* how often something was mounted there: the mount's instance
  base,         \* per volume: its database file
  stamp         \* per volume: which file that is, and its length and time

world == <<slot, at, mounts, base, stamp>>

Bases == {"missing", "invalid", "valid"}

Mounted == {p \in Paths : at[p] # None}
Places(v) == {p \in Paths : at[p] = v}

(* The candidates every platform lists: whatever is mounted.              *)
candidate_mount_points == Mounted

(* What resolving a volume's identifier gives: where it is mounted now.   *)
mount_for_volume_guid(v) ==
  IF Places(v) = {} THEN None ELSE CHOOSE p \in Places(v) : TRUE

(* The USB device behind a path is found in two steps: the number of the  *)
(* disk the volume is on, then the device that disk number stands for.    *)
Plugged == {d \in Ids : slot[d] # 0}
DiskOf(p) == IF at[p] = None THEN 0 ELSE slot[Owner[at[p]]]
DeviceOn(n) == IF \E d \in Plugged : slot[d] = n THEN CHOOSE d \in Plugged : slot[d] = n ELSE None

(* Length and time of the files of a ready layout, 0 without them.        *)
ready_layout_fingerprint(p) ==
  IF at[p] = None THEN 0 ELSE IF base[at[p]] = "missing" THEN 0 ELSE stamp[at[p]]

-----------------------------------------------------------------------------
(* The entries opened at a path: the mount and the database found there.  *)
Inspect(p) ==
  [path |-> p, from |-> at[p], instance |-> mounts[p], file |-> stamp[at[p]],
   found |-> base[at[p]]]

NoLook == [path |-> None, from |-> None, instance |-> 0, file |-> 0,
           found |-> "missing"]

(* Mutant: the file is compared where it was opened, not through the path. *)
IsCurrentByFile(look) == stamp[look.from] = look.file

(* Every entry opened is still what its name leads to.                    *)
IsCurrent(look) ==
  /\ at[look.path] = look.from /\ mounts[look.path] = look.instance
  /\ stamp[look.from] = look.file

(* The readiness an authority stands for: the opened file is parsed, and  *)
(* one replaced in the meantime counts as invalid.                        *)
Classify(look) ==
  IF look.found = "missing" THEN "NeedsAppleInitialization"
  ELSE IF look.found = "valid" /\ IsCurrent(look) THEN "Ready" ELSE "InvalidDatabase"

(* An observation joins the two; without an identity nothing is ready.    *)
Assemble(look, readiness, usb) ==
  [id |-> usb, path |-> look.path, from |-> look.from, label |-> Model[look.from],
   readiness |-> IF usb = None THEN "IdentityUnavailable" ELSE readiness]

(* Only a device that one mount alone claims may be offered for writing.  *)
Claims(seen, id) == {o \in seen : o.id = id}
UniquelyEligible(seen) ==
  {o \in seen : o.id # None /\ o.readiness = "Ready" /\ Cardinality(Claims(seen, o.id)) = 1}

-----------------------------------------------------------------------------
(* The world: devices come and go, the lowest free disk number is given    *)
(* out again; volumes are mounted and ejected; Apple software and Classick *)
(* itself write the databases.                                             *)
WorldInit ==
  /\ \E start \in Starts : slot = start.slot /\ at = start.at
  /\ mounts = [p \in Paths |-> 0]
  /\ base = [v \in Volumes |-> "valid"] /\ stamp = [v \in Volumes |-> 1]

Plug(d) ==
  /\ slot[d] = 0
  /\ slot' = [slot EXCEPT ![d] = Min(1..Cardinality(Ids) \ {slot[e] : e \in Ids})]
  /\ UNCHANGED <<at, mounts, base, stamp>>

Unplug(d) ==
  /\ d \in Plugged /\ slot' = [slot EXCEPT ![d] = 0]
  /\ at' = [p \in Paths |-> IF at[p] # None /\ Owner[at[p]] = d THEN None ELSE at[p]]
  /\ UNCHANGED <<mounts, base, stamp>>

Mount(v, p) ==
  /\ Owner[v] \in Plugged /\ Places(v) = {} /\ at[p] = None
  /\ at' = [at EXCEPT ![p] = v] /\ mounts' = [mounts EXCEPT ![p] = @ + 1]
  /\ UNCHANGED <<slot, base, stamp>>

Eject(p) ==
  /\ at[p] # None /\ at' = [at EXCEPT ![p] = None]
  /\ UNCHANGED <<slot, mounts, base, stamp>>

Write(v, state) ==
  /\ Places(v) # {} /\ base' = [base EXCEPT ![v] = state]
  /\ stamp' = [stamp EXCEPT ![v] = @ + 1]
  /\ UNCHANGED <<slot, at, mounts>>
=============================================================================
