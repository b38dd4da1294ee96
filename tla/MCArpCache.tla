----------------------------- MODULE MCArpCache -----------------------------
(* TLC instance of ArpCache: list nodes and mac addresses are              *)
(* interchangeable.                                                        *)
EXTENDS ArpCache, TLC

Symmetry == Permutations(Positions) \union Permutations(Macs)
=============================================================================
