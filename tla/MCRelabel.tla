-------------------------------- MODULE MCRelabel --------------------------------
(***************************************************************************)
(* An occurrence with two REAL ports, and a renaming that takes their ends *)
(* to names that differ by 2^16.                                           *)
(***************************************************************************)
EXTENDS MCRawSession

TwoPorts ==
  NewSkel(WithOccs(o31 :> 9),
    [V |-> <<R(2), R(8), C(9, o31)>>,
     E |-> <<Port(3, 1), Port(3, 2), Core(1, 2)>>,
     nbr |-> o31 :> {}, patch |-> o31 :> {3}])

RelabelStarts == {TwoPorts}
RelabelMaps == {2 :> 2 @@ 8 :> 65538 @@ 9 :> 9}
=============================================================================
