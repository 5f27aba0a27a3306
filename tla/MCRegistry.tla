----------------------------- MODULE MCRegistry -----------------------------
EXTENDS Registry, TLC

CONSTANTS a, b

\* A slice and a service below it.
Nested == (a :> Root) @@ (b :> a)
\* One service that comes and goes.
Single == (a :> Root)

=============================================================================
