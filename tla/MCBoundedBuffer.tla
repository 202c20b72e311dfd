-------------------------- MODULE MCBoundedBuffer --------------------------
EXTENDS BoundedBuffer, TLC

Interchangeable == Permutations(Producers) \cup Permutations(Consumers)
=============================================================================
