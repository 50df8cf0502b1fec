----------------------------- MODULE MCStreamer -----------------------------
(***************************************************************************)
(* Small instances of Streamer for TLC.                                    *)
(***************************************************************************)
EXTENDS Streamer

CONSTANTS a, b, c, d, e, tw

AllSymbols == {a, b, c, d, e, tw}
\* Bases that fill their slots (one of two symbols is foreign, or both US).
FullBases == {<<a, b>>, <<a, c, d>>, <<tw, a>>}
\* A base that has room to grow.
GrowingBases == {<<a>>, <<a, b>>}
=============================================================================
