----------------------------- MODULE MCRuntime -----------------------------
EXTENDS Runtime
CONSTANTS d1, d2, r1, r2
Budget(requests, mounts, ticks, faults) ==
  [requests |-> requests, mounts |-> mounts, ticks |-> ticks, faults |-> faults]
MCBudgets ==
  {Budget({r1, r2}, 1, 0, 0), Budget({r1}, 2, 0, 0), Budget({r1}, 1, 1, 0),
   Budget({r1}, 1, 0, 1), Budget({}, 2, 1, 1), Budget({}, 3, 0, 0)}
=============================================================================
