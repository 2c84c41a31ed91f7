--------------------------- MODULE MCVideoStreamer --------------------------
(* Values for the runs of VideoStreamer: two chunks a frame, two bytes a   *)
(* packet, ids modulo 4.                                                   *)
EXTENDS VideoStreamer

\* Empty chunks, full packets and remainders.
Sizes == {<<0, 3>>, <<4, 1>>}

\* Too few chunks, an IDR, and too many, no IDR.
OwnChunks == {[sizes |-> <<3>>, idr |-> TRUE], [sizes |-> <<1, 4, 2>>, idr |-> FALSE]}

\* No rate at all, and the rate whose code is 0.
Rates == {kUnknown, 0}
=============================================================================
