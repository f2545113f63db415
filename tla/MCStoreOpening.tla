--------------------------- MODULE MCStoreOpening ---------------------------
(* Instance of StoreOpening for TLC: two processes of this release and one   *)
(* of an earlier one, and three migrations of which the last is plain, as    *)
(* 004_skill_snapshots.sql is.                                               *)
EXTENDS StoreOpening, TLC

CONSTANTS a, b, c

MCKnown == (a :> 3) @@ (b :> 3) @@ (c :> 1)
=============================================================================
