SPECIFICATION Spec
CONSTANTS
    Slots = {s1, s2}
    NoSlot = NoSlot
    MaxRequests = 1
INVARIANTS IdleAfterCapture
