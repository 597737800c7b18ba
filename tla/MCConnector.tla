---------------------------- MODULE MCConnector ----------------------------
EXTENDS Connector, TLC

Symmetry == Permutations(Readers)
=============================================================================
