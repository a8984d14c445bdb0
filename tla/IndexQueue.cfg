\* A mutex that stays locked stops every user.
SPECIFICATION QueueSpec
CONSTANTS
    Users = {u1, u2}
    W = 32
    minimum = 4
    maximum = 6
INVARIANTS
    Exclusive
PROPERTIES
    RefusesOnlyWhenFull
    ExhaustedForGood
CHECK_DEADLOCK FALSE
