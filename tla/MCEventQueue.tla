---------------------------- MODULE MCEventQueue ----------------------------
(* Three paths, one of them excluded, a queue of two: small enough to fill *)
(* up, large enough for one path to wait raw and coalesced at once.        *)
EXTENDS EventQueue
MCPaths == 1..3
MCExcluded == {3}
=============================================================================
