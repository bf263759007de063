\* Two clicks on Fix of one order.
SPECIFICATION PizzaSpec
CONSTANTS
    Builds = {1, 3}
    Requests = {q1, q2}
    MaxRuns = 3
    MaxFaults = 0
PROPERTIES
    ResetsInErrorOnly
