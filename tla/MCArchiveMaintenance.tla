------------------------ MODULE MCArchiveMaintenance ------------------------
EXTENDS ArchiveMaintenance

MCLines == [kind : {"eit", "caption"}, program : Programs]
MCTitle == [k \in Programs |-> k]
=============================================================================
