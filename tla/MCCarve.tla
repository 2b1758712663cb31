------------------------------- MODULE MCCarve -------------------------------
\* Every disk of a few units: gaps before, between and behind the partitions,
\* holes in the numbering, and numbers that do not follow the order on disk.
EXTENDS Carve
=============================================================================
