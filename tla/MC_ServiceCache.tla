--------------------------- MODULE MC_ServiceCache ---------------------------
(* Two operators and two reference blocks.  On b1 operator o2's exited count *)
(* equals the recorded one, so get_catalist_newly_exited_validators deletes  *)
(* a key; on b2 both counts changed.                                        *)
EXTENDS ServiceCache, TLC

CONSTANTS o1, o2, b1, b2

MC_Operators == {o1, o2}
MC_Blocks == {b1, b2}
MC_ExitedAt == (b1 :> (o1 :> 1 @@ o2 :> 0) @@ b2 :> (o1 :> 2 @@ o2 :> 1))
MC_RecordedAt == (b1 :> (o1 :> 0 @@ o2 :> 0) @@ b2 :> (o1 :> 1 @@ o2 :> 0))
=============================================================================
