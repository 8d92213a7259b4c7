----------------------------- MODULE MCPlayback -----------------------------
(* Constants for TLC: no line, a good recording with a pause and two lines  *)
(* out of order, one with a bad first line and one with a bad line within;  *)
(* and lines without a timestamp, a topic or data to publish, first or not. *)
EXTENDS PlaybackEngine

L(t) == [topic |-> TRUE, timestamp_ms |-> t, data |-> TRUE]
NoTime == [L(1) EXCEPT !.timestamp_ms = Missing]
NoTopic == [L(1) EXCEPT !.topic = FALSE]
NoData == [L(2) EXCEPT !.data = FALSE]

MCRecording ==
    {<<>>, <<L(2), L(3), L(1)>>, <<BadLine, L(1)>>, <<L(1), BadLine, L(1)>>,
     <<NoTime>>, <<L(1), NoTime>>, <<NoTopic, L(1)>>, <<BadLine, L(1), NoData>>}
=============================================================================
