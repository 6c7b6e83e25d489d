-------------------------- MODULE MCTransportHooks --------------------------
(***************************************************************************)
(* Instances of TransportHooks: a package that two hooks match and one     *)
(* that only one of them does.                                             *)
(***************************************************************************)
EXTENDS TransportHooks

CONSTANTS a, b, c, pkg1, pkg2

MCHooks == {a, b, c}
MCPackages == {pkg1, pkg2}
MCMatches == {<<a, pkg1>>, <<b, pkg1>>, <<c, pkg1>>, <<b, pkg2>>}

=============================================================================
