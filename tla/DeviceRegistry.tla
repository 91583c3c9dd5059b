-------------------------- MODULE DeviceRegistry ---------------------------
(***************************************************************************)
(* The durable registry of devices: the records held in memory, the file   *)
(* they are saved to, and what a restart reads back.                       *)
(*                                                                         *)
(* The file keeps a device's counters either as those of the profile the   *)
(* host last imported from it, or, before the first import, as pending; a  *)
(* device that is not configured keeps none.  One counter stands for the   *)
(* three of a record.                                                      *)
(***************************************************************************)
EXTENDS Naturals

CONSTANTS Ids

Unknown == [known |-> FALSE, configured |-> FALSE, revision |-> 0]

(* The identity of the single-device configuration, taken over once.      *)
FromLegacy == [known |-> TRUE, configured |-> TRUE, revision |-> 0]
FromDetected == [known |-> TRUE, configured |-> FALSE, revision |-> 0]

-----------------------------------------------------------------------------
(* What is written for a record; imported is the counter of the profile   *)
(* in the host's cache, 0 when it holds none.                             *)
Stored(record, imported) ==
  IF ~record.configured
  THEN [configured |-> FALSE, summary |-> 0, status |-> "complete", pending |-> 0]
  ELSE IF imported # 0
       THEN [configured |-> TRUE, summary |-> imported, status |-> "complete", pending |-> 0]
       ELSE [configured |-> TRUE, summary |-> 0, status |-> "pending",
             pending |-> record.revision]

(* The states of migration and import the file may say of a device.       *)
Possible(entry) ==
  \/ entry.status = "pending" /\ entry.configured /\ entry.summary = 0
  \/ entry.status = "complete" /\ entry.configured /\ entry.summary # 0
  \/ entry.status = "complete" /\ ~entry.configured /\ entry.summary = 0

Loaded(entry) ==
  [known |-> TRUE, configured |-> entry.configured,
   revision |-> IF entry.summary # 0 THEN entry.summary ELSE entry.pending]

(* The file of a set of records, and the records of a file.               *)
FileOf(records, cache) ==
  [d \in {e \in Ids : records[e].known} |-> Stored(records[d], cache[d])]
Validates(file) == \A d \in DOMAIN file : Possible(file[d])
RecordsOf(file) == [d \in Ids |-> IF d \in DOMAIN file THEN Loaded(file[d]) ELSE Unknown]

(* Saving reads the host's cache of every configured device; one that     *)
(* cannot be read fails the save of them all.                             *)
Savable(records, unreadable) ==
  \A d \in Ids : ~(records[d].configured /\ d \in unreadable)

-----------------------------------------------------------------------------
(* The mutations, each on the records it starts from.                     *)
Observed(records, d) ==
  [records EXCEPT ![d] = IF @.known THEN @ ELSE FromDetected]
Configured(records, d) ==
  [records EXCEPT ![d] = IF @.configured THEN @
                         ELSE [@ EXCEPT !.configured = TRUE, !.revision = @ + 1]]
Forgotten(records, d) == [records EXCEPT ![d].configured = FALSE]
Advanced(records, d) == [records EXCEPT ![d].revision = @ + 1]
=============================================================================
