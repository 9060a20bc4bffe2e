----------------------------- MODULE MCPlannerPatch -----------------------------
(***************************************************************************)
(* The updater on the fixture of the isolate test, whose target o17 has    *)
(* its two ports at the ends of its core patch, 2 and 8.                   *)
(***************************************************************************)
EXTENDS MCRawPlanner

PatchRuns == {Update(IsolateFixture, o17, "basic", 0)}
=============================================================================
