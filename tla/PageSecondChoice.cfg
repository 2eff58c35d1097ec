SPECIFICATION Spec
CONSTANTS
    w = w
    f = f
    c = c
    mode = mode
    token = token
    t1 = t1
    t2 = t2
    Updaters = {w, c}
    Windows = {w}
    MaxVersion = 2
    MaxStarts = 3
    ChanCap = 1
    Starters = {w, f}
    Attempts = 2
    MaxTries = 1
    Threads = {w, f, c}
    Remote = {c}
    Settings = {mode, token}
    Allowed = {mode}
    Forms = {f}
    Tools = {t1, t2}
    TTL = 2
    MaxTime = 4
    MaxRelease = 2
    MaxOthers = 2
    Inputs = {"exe", "folder"}
    NoInput = ""
    MaxChoices = 2
    MaxSent = 2
    MaxWire = 1
INVARIANT RunsItsChoice
CHECK_DEADLOCK FALSE
