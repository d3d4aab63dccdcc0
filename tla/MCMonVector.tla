----------------------------- MODULE MCMonVector -----------------------------
(* MonVector on small instances.  The code's MIN_SIZE of 16 is scaled to 2, *)
(* so that a vector grows twice and shrinks back within MAX_COUNT elements. *)
EXTENDS MonVector, TLC

BufferSymmetry == Permutations(Buffers)
=============================================================================
