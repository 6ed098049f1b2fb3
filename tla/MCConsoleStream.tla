--------------------------- MODULE MCConsoleStream ---------------------------
(* Log texts are only compared with each other.                            *)
EXTENDS ConsoleStream

TextsSymmetry == Permutations(Texts)
=============================================================================
