----------------------------- MODULE MCPortable -----------------------------
EXTENDS Portable

MCHosts == {"pc", "mac"}
OneHost == {"pc"}
MCIds == {1, 2, 3}
MCOwner == [i \in MCIds |-> IF i = 2 THEN "mac" ELSE "pc"]
MCComponents == {"selection", "settings"}
\* The second host adopts the device; the first edits one component at a time.
MCPart == [i \in MCIds |-> CASE i = 1 -> {"selection"} [] i = 2 -> MCComponents [] i = 3 -> {"settings"}]
Nobodies == {}
NoPoints == {}

Writes == {"profile", "sysinfo"}
\* All points but those whose session has compared the outbox it is about to clear.
Uncompared == Points \ {"wcache", "wclear"}
\* Another program's file is seen unless it appears between the generation
\* check and the record of the write behind it.
Windows == {"backup", "journal", "wprofile", "recprofile", "wsysinfo", "recsysinfo",
            "restprofile", "restsysinfo"}
Fenced == Points \ Windows
\* The points a crash falls at without leaving a transaction no session can close.
Settling == Points \ {"recprofile", "recsysinfo", "restsysinfo", "restored", "remove"}
=============================================================================
