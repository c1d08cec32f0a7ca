\* Two recipients: offers that compete, and requests that are repeated.
SPECIFICATION MCSpec
CONSTANTS
    Offers = {o1, o2}
    EditorOffers = {o1}
    Recipients = {r1, r2}
    Jobs = {j1, j2}
    MaxTime = 2
    Ttl = 2
    MinWindow = 2
    MaxLives = 2
    MaxAttempts = 2
    MaxActive = 2
    Defects = {"badPoint"}
SYMMETRY Symmetry
PROPERTIES OneTimeLink
CHECK_DEADLOCK FALSE
