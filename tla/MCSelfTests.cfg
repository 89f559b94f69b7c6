\* Two pods that test as often as they like, two crashes or failed statements.
CONSTANTS
    Pods = {p1, p2}
    NoPod = NoPod
    Ghost = Ghost
    MaxFaults = 2
SPECIFICATION SelfTestSpec
INVARIANTS
    LonePasses
    CleanedUp
PROPERTY StartsWhenAlone
