--------------------------- MODULE MCHousekeeping ---------------------------
EXTENDS Housekeeping

\* Doubling that lands between powers of two, no doubling, and a base interval
\* above the maximum.
Flags == {[base |-> 1, max |-> 5, dynamic |-> TRUE],
          [base |-> 1, max |-> 5, dynamic |-> FALSE],
          [base |-> 3, max |-> 2, dynamic |-> TRUE]}

MCLimits == {MaxWord, 1}

=============================================================================
