-------------------------- MODULE PortableInvariant --------------------------
(***************************************************************************)
(* What holds at every point of a portable session, part by part: where    *)
(* the journal is, what the caches may believe, when the two files belong  *)
(* together, where an edit waits, and what is known of another program's   *)
(* SysInfoExtended.                                                        *)
(***************************************************************************)
EXTENDS Portable

Journalled == "journal" \in txn.files

\* The points of a publication behind the fence, in order.
Prepared == {"backup", "journal"}
Written == {"wprofile", "recprofile", "wsysinfo", "recsysinfo", "readback"}
Restoring == {"restprofile", "restsysinfo", "restored"}
Confirming == {"confirm", "wcache", "wclear"}

\* The publication is complete but for its journal.
Committed == pc = "remove" /\ next = "confirm"

JournalInv ==
  /\ pc \in Written \cup Restoring \cup {"undo"} => Journalled
  /\ pc \in Prepared \cup Confirming \cup {"load", "import", "fence"} => ~ Journalled
  /\ pc \in Restoring => next # "confirm"

-----------------------------------------------------------------------------
\* No component of p is ahead of q, and where the revisions agree so do the values.
NotAhead(p, q) ==
  \A c \in Components : p.comps[c].rev < q.comps[c].rev \/ p.comps[c] = q.comps[c]

\* What every host believes committed is in the profile, or behind it.
Covers(k, P) == \A h \in Hosts : \A p \in k[h].imported : \E q \in P : NotAhead(p, q)

\* An option: there is one profile at most.
Lone(P) == \A p, q \in P : p = q

\* The original of an open transaction and the profile about to be written
\* both cover the caches, so neither a rollback nor a publication can put the
\* device behind a host.
CacheInv ==
  /\ Covers(cache, profile) /\ Lone(profile)
  /\ Journalled \/ pc = "journal" =>
       \A b \in txn.saved : Covers(cache, b.profile) /\ Lone(b.profile)
  /\ pc \in Prepared \cup {"fence", "wprofile"} => Covers(cache, cand) /\ Lone(cand)
  /\ pc \in Confirming \cup {"import"} \/ Committed => profile = cand

-----------------------------------------------------------------------------
\* A profile that owns a SysInfoExtended has one.
Whole(P, s) == (\E p \in P : p.sys) => s # "none"

TornInv ==
  /\ ~ Journalled \/ pc = "remove" => Whole(profile, sysinfo)
  /\ Journalled => \A b \in txn.before : Whole(b.profile, b.sysinfo)
  /\ pc \in Prepared => Whole(exp.profile, exp.sysinfo)
  /\ pc \in Prepared \cup Written \cup {"fence"} => gen \/ sysinfo # "none"

-----------------------------------------------------------------------------
\* A component has one mutation at most.
Single(b) == \A c \in Components : \A m, n \in b[c] : m = n

\* An edit waits in b or has landed.
KeptIn(b, c, i) == (\E m \in b[c] : m.intent = i) \/ i \in landed[c]

\* The profile carries every mutation of b.
Carries(p, b) == \A c \in Components : \A m \in b[c] : p.comps[c].intent = m.intent

\* Every edit is kept by its outbox, and by the outbox an acceptance is about to
\* write in its place.
Waiting ==
  /\ \A h \in Hosts : Single(outbox[h].pend) /\ \A a \in acc[h] : Single(a.pend)
  /\ \A h \in Hosts : \A c \in Components : \A i \in last[h][c] : KeptIn(outbox[h].pend, c, i)
  /\ \A h \in Hosts : \A a \in acc[h] : \A c \in Components \ a.comps :
       \A i \in last[h][c] : KeptIn(a.pend, c, i)

\* A publication carries the mutations it was planned from, which have landed
\* when the outbox is cleared of them, and of no other.
InFlight ==
  /\ pc # "idle" /\ who.role # "worker" => acc[who.host] = {}
  /\ pc \in {"init", "initcache"} => who.role # "worker"
  /\ pc \in Prepared \cup Written \cup {"fence"} \/ Committed =>
       cand # {} /\ \A p \in cand : Carries(p, box)
  /\ pc \in Confirming => \A c \in Components : \A m \in box[c] : m.intent \in landed[c]
  /\ pc \in {"wcache", "wclear"} => outbox[who.host].pend = box

IntentInv == Waiting /\ InFlight

\* The points between a comparison of the outbox and its clearing.
Compared == {"wcache", "wclear"}

-----------------------------------------------------------------------------
\* The points between a comparison of the generations and the record of the
\* write behind it.
Unwatched == Prepared \cup {"wprofile", "recprofile", "wsysinfo", "recsysinfo",
                            "restprofile", "restsysinfo"}

\* A file that is not this program's is in the original too, or stops the session.
ForeignInv ==
  /\ pc \in {"init", "initcache", "recover", "load"} =>
       exp.sysinfo = sysinfo \/ sysinfo = "foreign"
  /\ pc = "fence" /\ gen => exp.sysinfo = "none"
  /\ pc \in Prepared \cup {"wprofile", "recprofile", "wsysinfo"} /\ gen => sysinfo = "none"
  /\ pc \in Prepared => exp.sysinfo = sysinfo
  /\ pc = "journal" => txn.published = {}
  /\ pc \in {"journal", "wprofile", "recprofile", "wsysinfo"} =>
       \A b \in txn.saved : b.sysinfo = sysinfo
  /\ pc = "wsysinfo" => gen
  /\ pc = "recsysinfo" => sysinfo = "ours"
  /\ Journalled => \A b \in txn.saved : \A g \in txn.before \cup txn.published :
                     g.sysinfo = "foreign" => b.sysinfo = "foreign"
  /\ pc \in {"restprofile", "restsysinfo"} /\ sysinfo = "foreign" =>
       \A b \in txn.saved : b.sysinfo = "foreign"
=============================================================================
