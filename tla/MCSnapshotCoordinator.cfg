SPECIFICATION FairSpec
CONSTANTS
    Callers = {c1, c2, c3, c4}
    Nobody = Nobody
INVARIANTS TypeOK SingleFlight NoLostWakeup WokenSeesOutcome
PROPERTIES FreshPayloadStands EveryCallReturns ImplementsSharedBuild
