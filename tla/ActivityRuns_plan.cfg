\* Two planned moments in one group, with crashes and refusals, under fairness.
SPECIFICATION FairSpec
CONSTANTS
    g1 = g1
    atOnce = atOnce
    Groups = {g1}
    Moments = {2, 3}
    Plannings = {{2, 3}, {3}}
    Tokens = {}
    Never = Never
    Grace = 0
    ClaimLimit = 1
    Horizon = 4
    Faults = {"crash", "refused"}
INVARIANTS
    EveryMomentIsDecided
PROPERTIES
    OpenRunsAreDecided
    QueueKeepsToDelivery
