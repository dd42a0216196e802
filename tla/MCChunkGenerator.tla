--------------------------- MODULE MCChunkGenerator ---------------------------
(* Small instances of ChunkGenerator for TLC. *)
EXTENDS ChunkGenerator, TLC

CONSTANTS ann, bob, j1, j2, j3
=============================================================================
