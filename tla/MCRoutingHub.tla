---------------------------- MODULE MCRoutingHub -----------------------------
(* Instances of the hub: the service ids "a" and "a/b", a few links. *)
EXTENDS RoutingHub, TLC

CONSTANTS a, b

MCServiceId == {<<a>>, <<a, b>>}

NoServiceId == {}

LinkSymmetry == Permutations(Link)
=============================================================================
