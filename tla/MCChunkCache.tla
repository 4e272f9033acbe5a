---------------------------- MODULE MCChunkCache ----------------------------
(***************************************************************************)
(* Instances of ChunkCache for TLC: chunks of two bytes, an object of      *)
(* three, so the last chunk is short, and a memory in which a full chunk   *)
(* displaces the short one and the other way round.                        *)
(***************************************************************************)
EXTENDS ChunkCache

CONSTANTS r1, r2, r3

\* r1 reads across both chunks; r2 within the first, or over the border and past
\* the end; r3 as r1, or into a chunk that does not exist, or nothing.
Overlapping == [r \in Reads |->
  CASE r = r1 -> {<<0, 3>>}
    [] r = r2 -> {<<1, 1>>, <<1, 3>>}
    [] r = r3 -> {<<0, 3>>, <<3, 2>>, <<2, 0>>}]
=============================================================================
