--------------------------- MODULE MCServerFiles ---------------------------
(* ServerFiles for TLC: calls, directories and names are interchangeable.  *)
EXTENDS ServerFiles, TLC

FilesSymmetry ==
    Permutations(Calls) \cup Permutations(Dirs) \cup Permutations(Names)
=============================================================================
