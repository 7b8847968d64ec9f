-------------------------- MODULE MCSessionHistory --------------------------
EXTENDS SessionHistory, TLC

CONSTANTS p, q

\* Network URLs are interchangeable.
MCSymmetry == Permutations(Urls)
=============================================================================
