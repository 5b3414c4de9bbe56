SPECIFICATION Spec
CONSTANTS
    Products = {p1}
    Suggestions = {s1}
    Generators = {g1}
    Reviewers = {r1, r2}
    Answers <- MCBounded
    CurrentPrices <- MCCurrentPrices
    Cent = 10
    MaxFaults = 0
INVARIANT
    ApprovedOnce
CHECK_DEADLOCK FALSE
