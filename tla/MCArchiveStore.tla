--------------------------- MODULE MCArchiveStore ---------------------------
EXTENDS ArchiveStore, TLC

MCLines == [kind : {"eit", "caption"}, program : Programs]
             \cup {[kind |-> "invalid", program |-> 1]}
(* Both programs bear one title: names then differ by their suffix.          *)
MCTitle == [k \in Programs |-> 1]

StreamSymmetry == Permutations(Streams)
=============================================================================
