---------------------------- MODULE MCFetchStage ----------------------------
(* A program of two pages, loaded in bursts of two. *)
EXTENDS FetchStage, TLC

CONSTANTS p0, p1

MCNextPage == (p0 :> p1) @@ (p1 :> p0)
\* Any word but the first and the last of each page jumps or accesses data.
MCActs == {p0, p1} \X (1 .. PageWords - 2)
ASSUME ActsHarmless == HarmlessEnds

MCStart == <<p0, 0>>
=============================================================================
