------------------------------ MODULE LiveFeed ------------------------------
(* What the live route promises its readers: each gets the lines sent after  *)
(* it joined, in order and each once.  A line is withheld from a reader only *)
(* when Capacity newer ones wait for it.                                     *)
EXTENDS Integers, Sequences

CONSTANTS Readers, Lines, Capacity, Null

VARIABLES
  sent,    \* the lines sent while somebody was there to read them
  reader   \* Null, or what a reader has been given and how far it is

feedVars == <<sent, reader>>

Init ==
  /\ sent = <<>>
  /\ reader = [r \in Readers |-> Null]

Send(line) ==
  /\ \E r \in Readers : reader[r] # Null
  /\ sent' = Append(sent, line)
  /\ UNCHANGED reader

Join(r) ==
  /\ reader[r] = Null
  /\ reader' = [reader EXCEPT ![r] = [at |-> Len(sent), got |-> <<>>]]
  /\ UNCHANGED sent

Deliver(r) ==
  /\ reader[r] # Null
  /\ reader[r].at < Len(sent)
  /\ reader' = [reader EXCEPT ![r] =
        [at |-> @.at + 1, got |-> Append(@.got, sent[@.at + 1])]]
  /\ UNCHANGED sent

(* The oldest lines a reader has not got are withheld from it.               *)
Withhold(r) ==
  /\ reader[r] # Null
  /\ \E at \in reader[r].at + 1 .. Len(sent) - Capacity :
        reader' = [reader EXCEPT ![r].at = at]
  /\ UNCHANGED sent

Leave(r) ==
  /\ reader[r] # Null
  /\ reader' = [reader EXCEPT ![r] = Null]
  /\ UNCHANGED sent

Next ==
  \/ \E line \in Lines : Send(line)
  \/ \E r \in Readers : Join(r) \/ Deliver(r) \/ Withhold(r) \/ Leave(r)

Spec == Init /\ [][Next]_feedVars
=============================================================================
