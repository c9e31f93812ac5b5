--------------------------- MODULE MCConcurrency ---------------------------
EXTENDS Concurrency, TLC

ChunkSymmetry == Permutations(Chunks)
=============================================================================
