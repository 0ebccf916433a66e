SPECIFICATION Spec
CONSTANTS
    buyer = buyer
    supplier = supplier
    Buyers = {buyer}
    Suppliers = {supplier}
    Flaws <- SomeFlaws
    MaxPresses = 3
    MaxFaults = 1
INVARIANTS
    BeliefIsJustified
    RepeatsAreSafe
PROPERTIES
    KeepsThePromise
\* Users stop pressing buttons when the bound is reached.
CHECK_DEADLOCK FALSE
