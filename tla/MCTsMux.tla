------------------------------- MODULE MCTsMux -------------------------------
EXTENDS TsMux

(* Coding order with one frame of reordering and a gap of two frames       *)
(* before the second: the dts of a frame is its pts, moved by two frames,  *)
(* less the time the codec keeps it for reordering.  Over the gap the dts  *)
(* go back.                                                                *)
Reordered ==
  << [pts |-> 2, real_pts |-> 4, real_dts |-> 3],
     [pts |-> 6, real_pts |-> 8, real_dts |-> 6],
     [pts |-> 3, real_pts |-> 5, real_dts |-> 5],
     [pts |-> 7, real_pts |-> 9, real_dts |-> 8] >>

(* Audio goes up; sections come with the pts of their pictures.            *)
OtherStreams == [mp2 |-> <<1>>, scte35 |-> <<6, 3>>]
=============================================================================
