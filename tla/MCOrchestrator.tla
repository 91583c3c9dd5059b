--------------------------- MODULE MCOrchestrator ---------------------------
EXTENDS Orchestrator
MCAlbums == <<<<"add", "add", "add", "remove">>, <<"metadata">>>>
MCTrouble == {[prompts |-> 1, faults |-> 0], [prompts |-> 0, faults |-> 2]}
=============================================================================
