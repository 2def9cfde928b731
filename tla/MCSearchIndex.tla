--------------------------- MODULE MCSearchIndex ----------------------------
EXTENDS SearchIndex, TLC

MCLines == {[kind |-> "eit", program |-> 1], [kind |-> "caption", program |-> 1]}
=============================================================================
