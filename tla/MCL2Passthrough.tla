-------------------------- MODULE MCL2Passthrough ---------------------------
(* Three l1ids of reads, two of displacements and two lines. *)
EXTENDS L2Passthrough

MCReadIds == {1, 2, 3}
MCDispIds == {4, 5}
MCLines   == {1, 2}
=============================================================================
