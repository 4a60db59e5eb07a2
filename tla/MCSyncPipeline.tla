--------------------------- MODULE MCSyncPipeline ---------------------------
(* Small instances of SyncPipeline for TLC. *)
EXTENDS SyncPipeline

CONSTANTS s1, s2, h1, h2, o1, k1, k2

OneSession == {s1}
TwoSessions == {s1, s2}
OneHook == {h1}
TwoHooks == {h1, h2}
OneOperator == {o1}
None == {}
OneConn == {k1}
TwoConns == {k1, k2}
Rejected1 == {1}
NoState == {}
=============================================================================
