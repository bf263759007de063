\* One browser, and two requests that overlap with polls.
SPECIFICATION DashFairSpec
CONSTANTS
    Browsers = {b1}
    Handlers = {h1, h2}
    MaxChanges = 1
    MaxFlips = 1
    MaxFaults = 1
INVARIANTS
    DashTypeOK
    PauseReachesBrowsers
PROPERTIES
    BrowsersConverge
