---------------------------- MODULE MCScopeQuery ----------------------------
(***************************************************************************)
(* ScopeQuery with two threads of two frames each: the user's selection    *)
(* can differ from the target in either or both.  Two symbol groups may be *)
(* alive, so that a query can follow one that has leaked a group.          *)
(***************************************************************************)
EXTENDS ScopeQuery

CONSTANTS t1, t2

MCThread == {t1, t2}
=============================================================================
