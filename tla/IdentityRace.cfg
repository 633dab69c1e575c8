CONSTANTS
    Resolver = {r1, r2}
    MaxKey = 4
SPECIFICATION SlotSpec
INVARIANTS
    OneIdentityPerSlot
CHECK_DEADLOCK FALSE
