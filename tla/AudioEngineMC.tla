---------------------------- MODULE AudioEngineMC ----------------------------
(* Two tracks of different formats: the same track armed again can be        *)
(* blended, the other one has to wait for the end.                           *)
EXTENDS AudioEngine

CONSTANTS a, b

const_Formats == [t \in Tracks |-> IF t = a THEN 1 ELSE 2]
=============================================================================
