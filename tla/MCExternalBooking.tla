------------------------- MODULE MCExternalBooking -------------------------
EXTENDS ExternalBooking, TLC

AllOverlap == Requests \X Requests
Symmetry == Permutations(Calls) \cup Permutations(Keys) \cup Permutations(Requests)
=============================================================================
