----------------------------- MODULE MCDevices -----------------------------
EXTENDS Devices

MCIds == {"x", "y"}
\* Two volumes of one device, and one of another.
MCVolumes == {"x1", "x2", "y1"}
MCOwner == [v \in MCVolumes |-> IF v = "y1" THEN "y" ELSE "x"]
MCModel == [v \in MCVolumes |-> IF v = "y1" THEN "nano" ELSE "classic"]
MCPaths == {"p", "q"}
\* Both devices on the bus with nothing mounted, or one of them, mounted.
MCStarts ==
  {[slot |-> [d \in MCIds |-> IF d = "x" THEN 1 ELSE 2], at |-> [p \in MCPaths |-> None]],
   [slot |-> [d \in MCIds |-> IF d = "x" THEN 1 ELSE 0],
    at |-> [p \in MCPaths |-> IF p = "p" THEN "x1" ELSE None]]}
=============================================================================
