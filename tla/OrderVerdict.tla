----------------------------- MODULE OrderVerdict -----------------------------
(***************************************************************************)
(* The promise of exchanges/base.py about one market order: whatever the   *)
(* exchange, the network and the status endpoint do, what the terminal is  *)
(* told of an order is "unknown" or true.  Nothing is told of an order     *)
(* that still works, nothing final is taken back by the exchange later,    *)
(* and an order is called absent only when the exchange did not show it    *)
(* at the moment the question was asked - which the answer to the order    *)
(* itself never does.                                                      *)
(***************************************************************************)
EXTENDS Naturals

CONSTANTS Qty,      \* units ordered
          None      \* no call of the adapter is under way, nothing was told

VARIABLES
    truth,      \* the units the order may still end with, none before it is sent
    seen,       \* the exchange shows the order to those who ask
    asked,      \* the call under way: "place", or a question put when it was "seen" or "unseen"
    verdict     \* [word, units]: what the last call returned

vars == <<truth, seen, asked, verdict>>

Amounts == 0 .. Qty
Said(word) == [word |-> word, units |-> 0]
Final(n) == [word |-> "final", units |-> n]

Init == truth = {} /\ ~seen /\ asked = None /\ verdict = Said("nothing")

Place ==
    /\ truth = {} /\ asked = None
    /\ truth' = Amounts /\ asked' = "place"
    /\ UNCHANGED <<seen, verdict>>

(* The exchange gets done with the order, or never gets it. *)
End ==
    /\ truth = Amounts
    /\ \E n \in Amounts : truth' = {n}
    /\ UNCHANGED <<seen, asked, verdict>>

Show ==
    /\ truth # {} /\ ~seen
    /\ seen' = TRUE
    /\ UNCHANGED <<truth, asked, verdict>>

Ask ==
    /\ truth # {} /\ asked = None
    /\ asked' = IF seen THEN "seen" ELSE "unseen"
    /\ UNCHANGED <<truth, seen, verdict>>

Answer ==
    /\ asked # None /\ asked' = None
    /\ \/ verdict' = Said("unknown")
       \/ \E n \in Amounts : truth = {n} /\ verdict' = Final(n)
       \/ asked = "unseen" /\ verdict' = Said("absent")
    /\ UNCHANGED <<truth, seen>>

Next == Place \/ End \/ Show \/ Ask \/ Answer

Spec == Init /\ [][Next]_vars
=============================================================================
