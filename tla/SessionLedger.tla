--------------------------- MODULE SessionLedger ---------------------------
(***************************************************************************)
(* What the daemon promises about device sessions, whatever its clients,   *)
(* devices and workers do: sessions run one at a time under increasing     *)
(* identifiers, each one ends with exactly one terminal outcome, and an    *)
(* outcome that has been announced is never changed.  Only a daemon that   *)
(* stops may leave its last session without an outcome.                    *)
(***************************************************************************)
EXTENDS Naturals

CONSTANTS Outcomes

VARIABLES
  open,     \* the daemon serves
  last,     \* the last session identifier handed out
  live,     \* the device session that runs, 0 when there is none
  ended     \* the terminal outcomes, a set of [id, outcome]

vars == <<open, last, live, ended>>

Recorded(id) == \E entry \in ended : entry.id = id

Init ==
  /\ open = TRUE
  /\ last = 0
  /\ live = 0
  /\ ended = {}

(* A library scan takes an identifier and leaves no outcome. *)
Skip ==
  /\ open /\ live = 0
  /\ last' = last + 1
  /\ UNCHANGED <<open, live, ended>>

Begin ==
  /\ open /\ live = 0
  /\ last' = last + 1
  /\ live' = last'
  /\ UNCHANGED <<open, ended>>

(* The outcome may be announced before the worker is gone. *)
Announce(outcome) ==
  /\ open /\ live # 0 /\ ~ Recorded(live)
  /\ ended' = ended \cup {[id |-> live, outcome |-> outcome]}
  /\ UNCHANGED <<open, last, live>>

(* The session ends; another identifier may be handed out in the same step,*)
(* to a scan or to the next session.                                       *)
End(outcome) ==
  /\ open /\ live # 0
  /\ ended' = IF Recorded(live) THEN ended ELSE ended \cup {[id |-> live, outcome |-> outcome]}
  /\ \/ live' = 0 /\ last' \in {last, last + 1}
     \/ last' = last + 1 /\ live' = last'
  /\ UNCHANGED open

(* The daemon stops, with or without a session. *)
Halt ==
  /\ open
  /\ open' = FALSE
  /\ live' = 0
  /\ UNCHANGED <<last, ended>>

Next ==
  \/ Skip
  \/ Begin
  \/ \E outcome \in Outcomes : Announce(outcome) \/ End(outcome)
  \/ Halt

Spec == Init /\ [][Next]_vars
=============================================================================
