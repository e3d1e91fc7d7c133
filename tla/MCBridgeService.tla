--------------------------- MODULE MCBridgeService ---------------------------
(***************************************************************************)
(* Instances of BridgeService for TLC.  The edit target has two sessions    *)
(* that succeed each other.                                                 *)
(***************************************************************************)
EXTENDS BridgeService, TLC

CONSTANTS s1, s2, s3, r1, r2, r3, edit, server

MCTargetOf == [s \in Sessions |-> IF s = s3 THEN server ELSE edit]
AllEdit    == [r \in Requests |-> edit]
LastServer == [r \in Requests |-> IF r = r3 THEN server ELSE edit]

\* Sound where r1 and r2 are of one kind and target, and for Twins s1 and s2 too.
Twins == Permutations({r1, r2}) \cup Permutations({s1, s2})
Pairs == Permutations({r1, r2})
=============================================================================
