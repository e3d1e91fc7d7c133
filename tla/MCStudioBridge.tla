---------------------------- MODULE MCStudioBridge ----------------------------
(***************************************************************************)
(* Instances of StudioBridge for TLC: one edit target, successive sessions. *)
(***************************************************************************)
EXTENDS StudioBridge, TLC

CONSTANTS s1, s2, r1, r2, edit

AllSessions == [s \in Sessions |-> edit]
AllRequests == [r \in Requests |-> edit]

\* Sound because the sessions are of one kind and target.
Twins == Permutations({s1, s2})
=============================================================================
