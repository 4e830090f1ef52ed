SPECIFICATION Spec
CONSTANTS
    Workers = {w1, w2}
    Admins = {a1, a2}
    RuleIds = {r1}
    Kinds = {"last"}
    Samples = {1}
    Cooldowns = {0, 1}
    Window = 0
    BufferLimit = 2
    Drivers = {"postgres"}
    MaxTime = 1
    MaxPoints = 3
    MaxRequests = 2
    None = None
SYMMETRY Symmetry
INVARIANTS CooldownIsKept SilencedStaysSilent
PROPERTY WindowIsKept
