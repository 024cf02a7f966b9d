------------------------------ MODULE MCTsMuxer ------------------------------
(* Small instances of TsMuxer for TLC. *)
EXTENDS TsMuxer

\* Access units whose PES ends at the edge of a packet with a PCR (176 - 14)
\* or without one (184 - 14), or one byte before or after it; a tiny one; and
\* one whose packets take a counter past 15.
EdgeSizes == {1, 161, 162, 163, 169, 170, 171, 2900}
==============================================================================
