-------------------------- MODULE MCServeProcesses --------------------------
EXTENDS ServeProcesses

CONSTANTS s1, s2, rb

(* The services share the socket path, the rebuild shares s1's directory.    *)
MCDataDir == [p \in Processes |-> IF p = s2 THEN "d2" ELSE "d1"]

(* A dead socket is there, or nothing; others come later.                   *)
MCFound == {Absent, Stale}

MCStrangers == {File, Stranger}
=============================================================================
