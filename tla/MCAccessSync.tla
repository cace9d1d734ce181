---------------------------- MODULE MCAccessSync ----------------------------
(***************************************************************************)
(* Instances of AccessSync for TLC; accounts and commands of a kind are    *)
(* interchangeable.                                                        *)
(***************************************************************************)
EXTENDS AccessSync, TLC

MCSymmetry ==
  Permutations(Account) \cup Permutations(Searcher) \cup Permutations(Reader)

=============================================================================
