-------------------------------- MODULE RowLog --------------------------------
(***************************************************************************)
(* What the write path to the database promises (app/storage/writer.py,    *)
(* anti-goals 2 and 3): rows are dealt with strictly in the order they     *)
(* were submitted and none is skipped; each ends in the database, except   *)
(* the rows the database refuses, which alone are set aside.               *)
(***************************************************************************)
EXTENDS Naturals

CONSTANT Bad     \* the rows the database refuses

VARIABLES
    sent,        \* how many rows were submitted: they are 1 .. sent
    stored,      \* the rows in the database
    refused      \* the rows in the rejected file

vars == <<sent, stored, refused>>

Handled == stored \cup refused

Init == sent = 0 /\ stored = {} /\ refused = {}

Submit ==
    /\ sent' = sent + 1
    /\ UNCHANGED <<stored, refused>>

(* The oldest rows up to the n-th are dealt with together. *)
Record(n) ==
    /\ stored'  = (1 .. n) \ Bad
    /\ refused' = (1 .. n) \cap Bad
    /\ Handled \subseteq Handled'
    /\ UNCHANGED sent

Next == Submit \/ \E n \in 1 .. sent : Record(n)

Spec == Init /\ [][Next]_vars
=============================================================================
