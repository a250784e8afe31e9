----------------------------- MODULE MCExecution -----------------------------
(* The two halves of a pair's life: from the click that opens it, with no     *)
(* button pressed after it, and from a pair that is open and hedged to the    *)
(* record that closes it, with quantities the second half can afford.         *)
EXTENDS Execution

CONSTANT HeldQty        \* tokens of each leg of the pair that is open already

VARIABLE half           \* "opening" or "closing": the half followed

InitHeld ==
    /\ trade = [status |-> "open", qty |-> HeldQty, missing |-> 0]
    /\ visible = TRUE
    /\ row = "open"
    /\ pos = [s \in Sides |-> HeldQty]
    /\ order = [x \in Slots |-> NoOrder]
    /\ ticket = [x \in Slots |-> NoTicket]
    /\ opener = Returned
    /\ closer = Idle
    /\ busy = "none"
    /\ alarmed = FALSE
    /\ liquidated = 0
    /\ restarts = 0

InitAll == (half = "opening" /\ Init) \/ (half = "closing" /\ InitHeld)

OpeningHalf ==
    /\ half = "opening"
    /\ \/ Exchanges \/ (\E x \in Slots : Answers(x)) \/ Opening
       \/ (\E complete \in BOOLEAN : Poll(complete)) \/ Restart

ClosingHalf == half = "closing" /\ Next

FairSpecAll == InitAll /\ [][(OpeningHalf \/ ClosingHalf) /\ UNCHANGED half]_<<half, vars>> /\ Fairness
=============================================================================
