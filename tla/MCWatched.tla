----------------------------- MODULE MCWatched ------------------------------
EXTENDS Watched

CONSTANTS old, new

\* A certificate and a key load together when they are of one generation.
Pairs == {[i \in 1..N |-> c] : c \in {old, new}}

=============================================================================
