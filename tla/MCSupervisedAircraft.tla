------------------------ MODULE MCSupervisedAircraft ------------------------
(***************************************************************************)
(* SupervisedAircraft for TLC: the warm-up (300 s), the trail loop (30 s)  *)
(* and a loop registered with 300 s, such as maritime_trajectory. A cycle  *)
(* of the monitor takes about 30 seconds and its limit is 5 errors. Here   *)
(* the limit is 3 and the long interval 3 cycles: as with 10 against 5, a  *)
(* loop that raises soon after its start is given up before its cooldown   *)
(* ends, one that raises later is restarted. The warm-up does not raise;   *)
(* its interval only delays its restart, and is 1 here.                    *)
(***************************************************************************)
EXTENDS SupervisedAircraft

Intervals == <<1, 1, 3>>
=============================================================================
