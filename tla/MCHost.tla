------------------------------- MODULE MCHost -------------------------------
EXTENDS Host
CONSTANTS d1, d2, p, r1, r2, r3, song

Edit(d, e) == [kind |-> "config", device |-> d, edit |-> e]
Both == [selection |-> {song}, subscriptions |-> {}]
Delete == [kind |-> "delete", slug |-> p]
Add(d) == [kind |-> "add", device |-> d, rules |-> {song}]
Drop == [kind |-> "append", slug |-> p, tracks |-> {song}]
Save(t) == [kind |-> "save", slug |-> p, tracks |-> t]

Arrives(d, n) == [kind |-> "import", device |-> d, revision |-> n]

Script(x, y, z) == r1 :> x @@ r2 :> y @@ r3 :> z
MCScripts == {
  Script(Edit(d1, Both), Delete, Add(d2)),
  Script(Edit(d1, [selection |-> {}]), Add(d1), [Add(d1) EXCEPT !.rules = {"b"}]),
  Script(Drop, Delete, Save({"b"})),
  Script(Save(Smart), Drop, Delete),
  Script(Arrives(d1, 3), Edit(d1, Both), Delete),
  Script(Arrives(d1, 1), Edit(d1, Both), Edit(d1, [selection |-> {}]))}

(* A second failing write only where no library drop runs: a drop is not
   refused while a journal of another command is pending. *)
MCFaults(script) ==
  IF \E r \in DOMAIN script : script[r].kind \in {"add", "append"} THEN 1 ELSE 2
=============================================================================
