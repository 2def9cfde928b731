-------------------------- MODULE MCCaptionPaging ---------------------------
EXTENDS CaptionPaging

MCLines == {[kind |-> "eit", program |-> 1], [kind |-> "caption", program |-> 1]}
=============================================================================
