CONSTANTS
    Sids = {s1}
    Reqs = {ask, run}
    Asks = {ask}
    Choices = {yes}
    Deny = deny
    MaxLoads = 1
    MaxStray = 1
    None = None
    MaxMsgs = 2  MaxRewinds = 1  MaxFrames = 2  MaxReads = 1
    Final = Final  Main = Main  Subs = {s}  Calls = {c1, c2}  MaxStream = 4
SPECIFICATION MCSpec
INVARIANTS SettledWasAnswered CardsAgree ShownIsTrue RewindAgrees StreamKept
PROPERTIES CardKeepsPlace
CHECK_DEADLOCK FALSE
