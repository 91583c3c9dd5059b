----------------------------- MODULE HostStore -----------------------------
(***************************************************************************)
(* What the daemon promises about the configuration it keeps on the host:  *)
(* the selection and the subscriptions of every device, and the playlists. *)
(* A request changes them once and whole; a change that nobody was told of *)
(* may be taken back; a change that was acknowledged never is.             *)
(***************************************************************************)
CONSTANTS
  Requests,  \* the requests clients make
  NoList,    \* the content of a playlist that does not exist
  Smart      \* the content of a playlist defined by rules

VARIABLES
  ask,       \* what each request asks for
  content,   \* <<device, component>> -> set, <<slug, "list">> -> playlist
  before,    \* each value before its last change, or itself once acknowledged
  noted,     \* requests remembered as made
  told       \* requests answered with success

vars == <<ask, content, before, noted, told>>

Fields == DOMAIN content
List(slug) == <<slug, "list">>

(* The fields a request may touch. *)
Scope(r) ==
  LET a == ask[r] IN
  CASE a.kind = "config" -> {<<a.device, c>> : c \in DOMAIN a.edit}
    [] a.kind = "import" -> {}
    [] a.kind = "add" -> {<<a.device, "selection">>}
    [] a.kind \in {"append", "save"} -> {List(a.slug)}
    [] a.kind = "delete" -> {List(a.slug)} \union {f \in Fields : f[2] = "subscriptions"}

Overlaid(new, old) == [f \in DOMAIN old |-> IF f \in DOMAIN new THEN new[f] ELSE old[f]]

(* What becomes of them. *)
Change(r) ==
  LET a == ask[r] IN
  CASE a.kind = "config" -> [f \in Scope(r) |-> a.edit[f[2]]]
    [] a.kind = "import" -> [f \in {} |-> f]
    [] a.kind = "add" -> [f \in Scope(r) |-> content[f] \union a.rules]
    [] a.kind = "append" ->
         [f \in Scope(r) |-> IF content[f] \in {NoList, Smart} THEN content[f]
                             ELSE content[f] \union a.tracks]
    [] a.kind = "save" -> [f \in Scope(r) |-> a.tracks]
    [] a.kind = "delete" ->
         IF content[List(a.slug)] = NoList THEN [f \in {List(a.slug)} |-> NoList]
         ELSE [f \in Scope(r) |-> IF f = List(a.slug) THEN NoList ELSE content[f] \ {a.slug}]

Made(r) == Overlaid(Change(r), content) = content

Set(new) ==
  /\ content' = Overlaid(new, content)
  /\ before' = [f \in Fields |-> IF content'[f] # content[f] THEN content[f]
                                 ELSE before[f]]
  /\ UNCHANGED <<ask, noted, told>>

(* A request changes the content, all of what it asks for at once. *)
Apply(r) == r \notin told /\ Set(Change(r))

(* A part of a configuration that could not be written is left out. *)
Partly(r) ==
  /\ r \notin told /\ ask[r].kind = "config"
  /\ \E parts \in SUBSET DOMAIN Change(r) : Set([f \in parts |-> Change(r)[f]])

(* The change of a request that was not acknowledged is undone. *)
TakeBack(r) ==
  /\ r \notin told
  /\ \E parts \in SUBSET Scope(r) : Set([f \in parts |-> before[f]])

(* A request just made is remembered, so that its retry changes nothing. *)
Note(r) ==
  /\ Made(r)
  /\ noted' = noted \union {r}
  /\ UNCHANGED <<ask, content, before, told>>

(* A success answer: the request is remembered or has just been made. *)
Tell(r) ==
  /\ r \in noted \/ Made(r)
  /\ told' = told \union {r}
  /\ before' = [f \in Fields |-> IF f \in DOMAIN Change(r) THEN content[f]
                                 ELSE before[f]]
  /\ UNCHANGED <<ask, content, noted>>

(* The daemon's own repair: a device drops subscriptions to lost playlists, *)
(* and may have to try again.                                              *)
Prune(f) ==
  /\ f[2] = "subscriptions"
  /\ \/ Set([g \in {f} |-> {s \in content[f] : content[List(s)] # NoList}])
     \/ Set([g \in {f} |-> before[f]])

Init ==
  /\ before = content
  /\ noted = {}
  /\ told = {}

Next ==
  \/ \E r \in Requests : Apply(r) \/ Partly(r) \/ TakeBack(r) \/ Note(r) \/ Tell(r)
  \/ \E f \in Fields : Prune(f)

Spec == Init /\ [][Next]_vars
=============================================================================
