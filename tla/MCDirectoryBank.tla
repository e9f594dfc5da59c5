-------------------------- MODULE MCDirectoryBank --------------------------
(* Instances of DirectoryBank: which lines there are, and where they map.  *)
EXTENDS DirectoryBank, TLC

CONSTANTS a, b, h1, h2

\* one line
OneSet  == [l \in {a} |-> 0]
OneHash == [l \in {a} |-> h1]
\* two lines in different sets whose tags are equal
TwoSets  == (a :> 0) @@ (b :> 1)
SameHash == (a :> h1) @@ (b :> h1)
\* two lines that meet in one set
SameSet  == (a :> 0) @@ (b :> 0)
TwoHashes == (a :> h1) @@ (b :> h2)

NodeSymmetry == Permutations(Nid)
=============================================================================
