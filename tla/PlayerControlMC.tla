-------------------------- MODULE PlayerControlMC --------------------------
(* Instances of PlayerControl for TLC. *)
EXTENDS PlayerControl, TLC

CONSTANTS a, b

TwoTracks == {a, b}
ShortLists == {<<a, b>>, <<b, a>>}
OneLists == {<<a>>, <<b>>}
Interchangeable == Permutations(TwoTracks)
=============================================================================
