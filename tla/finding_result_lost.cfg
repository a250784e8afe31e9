SPECIFICATION Spec
CONSTANTS
    None = None
    Qty = 2
    EntryFees = 2
    FeePerUnit = 1
    MovesUsd = 9
    CloseAttempts = 2
    Buttons = {"pair"}
    MaxClicks = 2
    MaxPayments = 1
INVARIANT ResultIsFixed
CHECK_DEADLOCK FALSE
