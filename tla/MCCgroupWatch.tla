--------------------------- MODULE MCCgroupWatch ----------------------------
EXTENDS CgroupWatch, TLC

CONSTANTS a, b, c

\* A slice, a slice below it and a service below that.
Nested == (a :> Root) @@ (b :> a) @@ (c :> b)

=============================================================================
