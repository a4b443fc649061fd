------------------------------- MODULE MCUpload -------------------------------
(* Upload on small instances.  Sessions are interchangeable.               *)
EXTENDS Upload, TLC

SessionSymmetry == Permutations(Sessions)
=============================================================================
