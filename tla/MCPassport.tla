----------------------------- MODULE MCPassport -----------------------------
(* Instances of Passport for TLC: keys and nonces are symmetric.            *)
EXTENDS Passport, TLC

Symmetry == Permutations(Keys) \cup Permutations(Nonces)

\* A fourth job, which makes a second round of approving and shutting out, is
\* queued only where nothing has failed.
FourthJobIfReliable == faults = 0 \/ last <= 3

=============================================================================
