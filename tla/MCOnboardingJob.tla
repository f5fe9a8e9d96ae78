--------------------------- MODULE MCOnboardingJob ---------------------------
(***************************************************************************)
(* OnboardingJob for TLC: symmetry of the workers and of the retry requests.      *)
(***************************************************************************)
EXTENDS OnboardingJob, TLC

Symmetry == Permutations(Workers) \union Permutations(Replayers)
=============================================================================
