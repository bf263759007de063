\* Two requests to recover one order, and CloseOrders.
SPECIFICATION PizzaFairSpec
CONSTANTS
    Builds = {1, 3}
    Requests = {q1, q2}
    MaxRuns = 3
    MaxFaults = 1
INVARIANTS
    PizzaTypeOK
    Replayable
    RecoveredRunsOnGood
    StepperTruthful
PROPERTIES
    RecoveriesDeliver
    OrdersEnd
