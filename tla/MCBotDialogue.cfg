CONSTANTS
    p1 = p1
    p2 = p2
    t1 = t1
    t2 = t2
    h1 = h1
    h2 = h2
    Plans = {p1, p2}
    Targets = {t1, t2}
    Handlers = {h1, h2}
    None = None
    MaxTaps = 7
SYMMETRY MCSymmetry
CHECK_DEADLOCK FALSE
SPECIFICATION BotSpec
INVARIANTS
    DialogueTypeOK
    OncePerOffer
    OrderedAsShown
