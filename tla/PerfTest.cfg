SPECIFICATION FairSpec
CONSTANTS
    Handlers = {h1, h2}
    Minute = 3
    Rates = {0, 1, 3, 4}
    Sizes = {0, 2}
    Default = 2
INVARIANTS
    TickerFollowsRate
PROPERTIES
    RequestsAnswered
