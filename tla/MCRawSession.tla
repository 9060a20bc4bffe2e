------------------------------ MODULE MCRawSession ------------------------------
(***************************************************************************)
(* Sessions that start from three fixtures of raw_engine_cases.cpp: the    *)
(* one of the split test, the one of the isolate test and the two          *)
(* skeletons of the integrate test.                                        *)
(***************************************************************************)
EXTENDS RawSession, Fixtures

MCStarts == {SplitFixture, IsolateFixture, IntegrateFixture}

MCBoundaryMaps == {2 :> 2 @@ 8 :> 8, 6 :> 6 @@ 8 :> 8, 6 :> 8 @@ 8 :> 6, 8 :> 8}
=============================================================================
