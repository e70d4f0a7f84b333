--------------------------- MODULE MCSharedMemory ---------------------------
(* Three identifiers and more processes than identifiers, so that every     *)
(* identifier can be used again.                                            *)
EXTENDS SharedMemory

CONSTANTS p1, p2, p3, s1, s2, s3
=============================================================================
