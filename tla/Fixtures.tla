-------------------------------- MODULE Fixtures --------------------------------
(***************************************************************************)
(* Engines of raw_engine_cases.cpp that the model-checked runs start from. *)
(***************************************************************************)
EXTENDS RawEngine, TLC

CONSTANTS o17, o23, o31, o44, br41

R(v) == [kind |-> "REAL", orig |-> v, occ |-> NoOcc]
C(v, o) == [kind |-> "OCC_CENTER", orig |-> v, occ |-> o]
Core(i, j) == [a |-> i, b |-> j, kind |-> "CORE_REAL", br |-> NoBridge]
Port(i, j) == [a |-> i, b |-> j, kind |-> "REAL_PORT", br |-> NoBridge]
Bridge(i, j) == [a |-> i, b |-> j, kind |-> "BRIDGE_PORT", br |-> br41]

WithOccs(occs) ==
  [EmptyEngine EXCEPT !.occ =
     [o \in DOMAIN occs |->
        [orig |-> occs[o], host |-> 0, center |-> 0, nbr |-> {}, patch |-> {}]]]
NewSkel(r, B) == CommitSkeleton(AllocSkeleton(r), NextSkel(r), B)

SplitFixture ==
  NewSkel(WithOccs(o31 :> 9 @@ o44 :> 12),
    [V |-> <<R(2), R(8), C(9, o31), R(6), C(12, o44), R(10)>>,
     E |-> <<Port(3, 4), Core(1, 4), Core(4, 2), Port(5, 6), Core(1, 6), Core(6, 2), Core(1, 2)>>,
     nbr |-> o31 :> {} @@ o44 :> {},
     patch |-> o31 :> {2, 3} @@ o44 :> {5, 6}])

IsolateFixture ==
  NewSkel(WithOccs(o17 :> 5 @@ o31 :> 9 @@ o23 :> 5),
    [V |-> <<R(2), R(8), R(7), C(5, o17), R(6), C(9, o31)>>,
     E |-> <<Port(4, 1), Bridge(4, 2), Core(1, 3), Core(3, 2), Core(1, 2), Port(6, 5), Core(5, 2)>>,
     nbr |-> o17 :> {o23} @@ o31 :> {},
     patch |-> o17 :> {3, 4, 5} @@ o31 :> {7}])

IntegrateFixture ==
  NewSkel(
    NewSkel(WithOccs(o31 :> 9 @@ o44 :> 14),
      [V |-> <<R(6), R(8), R(2), C(9, o31)>>,
       E |-> <<Port(4, 3), Core(3, 1), Core(1, 2)>>,
       nbr |-> o31 :> {}, patch |-> o31 :> {2, 3}]),
    [V |-> <<R(6), R(8), R(11), C(14, o44)>>,
     E |-> <<Port(4, 3), Core(3, 1), Core(3, 2)>>,
     nbr |-> o44 :> {}, patch |-> o44 :> {2, 3}])

\* make_split_ready_targeted_scenario: two branches from 2 to 8, the target on
\* the second of three.
SplitReadyFixture(direct) ==
  NewSkel(WithOccs(o31 :> 9),
    [V |-> <<R(2), R(8), R(10), R(6), R(7), C(9, o31)>>,
     E |-> <<Core(1, 3), Core(3, 2), Core(1, 4), Core(4, 5), Core(5, 2), Bridge(6, 4)>>
           \o direct,
     nbr |-> o31 :> {}, patch |-> o31 :> {3, 4, 5}])

\* Ties: the target between 6 and 7 on the path 2-6-7-8, beside two branches.
TieFixture ==
  NewSkel(WithOccs(o31 :> 9),
    [V |-> <<R(2), R(8), R(10), R(11), R(6), R(7), C(9, o31)>>,
     E |-> <<Core(1, 3), Core(3, 2), Core(1, 4), Core(4, 2), Core(1, 5), Core(6, 2),
             Core(5, 6), Port(7, 5), Port(7, 6)>>,
     nbr |-> o31 :> {}, patch |-> o31 :> {7}])

\* make_post_split_targeted_scenario, with two occurrences to keep.
BranchFixture ==
  NewSkel(WithOccs(o17 :> 5 @@ o31 :> 9 @@ o44 :> 12),
    [V |-> <<R(2), R(8), R(6), R(10), R(11), C(9, o31), C(12, o44), C(5, o17)>>,
     E |-> <<Core(1, 3), Core(3, 2), Core(1, 4), Core(4, 2), Core(1, 5), Core(5, 2),
             Port(6, 3), Bridge(7, 4), Port(8, 5), Core(1, 2)>>,
     nbr |-> o17 :> {} @@ o31 :> {} @@ o44 :> {},
     patch |-> o31 :> {1, 2} @@ o44 :> {3, 4} @@ o17 :> {5, 6}])
=============================================================================
