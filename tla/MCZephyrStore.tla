--------------------------- MODULE MCZephyrStore ---------------------------
(* A small instance of ZephyrStore for TLC. *)
EXTENDS ZephyrStore

CONSTANTS a, b

(* Records of two sizes, and a write of nothing. *)
MCBuffers == {<<>>, <<a>>, <<b, b>>}
=============================================================================
