---------------------------- MODULE MCWebSession ----------------------------
(* WebSession for TLC: tabs and users are interchangeable.                 *)
EXTENDS WebSession, TLC

Symmetry == Permutations(Tabs) \cup Permutations(Users)
=============================================================================
