------------------------------ MODULE MCTunnel ------------------------------
EXTENDS Tunnel, TLC
ConnSymmetry == Permutations(Conns)
=============================================================================
