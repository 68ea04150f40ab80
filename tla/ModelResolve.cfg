\* Every pair of lists of up to four models and auto, and one refresh during a call.
SPECIFICATION Spec
CONSTANTS
    Lists <- MCLists
    Asks <- MCAsks
    Value <- MCValue
    Digits <- MCDigits
    MaxSwaps = 1
INVARIANTS TypeOK AgreesWithLists AdvertisedIsServed
CHECK_DEADLOCK FALSE
