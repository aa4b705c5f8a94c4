--------------------------- MODULE MCPortAllocation ---------------------------
(* Small instances of PortAllocation.  The ranges leave room for none, one,  *)
(* some and all of the domains; the widest lets the string sum of            *)
(* validations.Domain admit a third domain.                                  *)
EXTENDS PortAllocation, TLC

MCRanges == {<<1, 34>>, <<1, 2>>, <<2, 5>>, <<3, 5>>, <<2, 14>>, <<4, 15>>}

NameSymmetry == Permutations(DomainNames)
=============================================================================
