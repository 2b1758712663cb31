------------------------------ MODULE MCVault ------------------------------
\* Two sticks and a partition of a fixed disk.
EXTENDS Vault, TLC

CONSTANTS s, t, p

TwoSticks == {s, t}
OnePart == {p}
Alike == Permutations(TwoSticks)
=============================================================================
