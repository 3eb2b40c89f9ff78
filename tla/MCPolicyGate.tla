---------------------------- MODULE MCPolicyGate ----------------------------
EXTENDS PolicyGate, TLC

\* Runs differ only in what they met, which Init leaves open.
RunSymmetry == Permutations(Runs)
=============================================================================
