---------------------------- MODULE MCLatencyTest ----------------------------
(* Samples in ns with 10 ns to the microsecond and a histogram of 3        *)
(* entries: each side of every boundary of the code's tests.               *)
EXTENDS LatencyTest

MCTimesArg == {-1, 0, 1, 2}

(* 30 ns are exactly array_size.                                           *)
AllSamples == {-25, -5, 9, 10, 29, 30, 45}

=============================================================================
