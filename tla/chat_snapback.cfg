SPECIFICATION Spec
CONSTANTS
    inbox = inbox
    bucket = bucket
    work = work
    home = home
    None = None
    Reqs = {r1, r2}
    Workers = {w1, w2}
    Spaces = {inbox, work}
    Inboxes = {inbox}
    Pending = {inbox}
    Default = inbox
    Related <- NoPairs
    Turns = {t1}
    Texts = {x1, x2}
    Tags = {k1}
    Ops = {"upsert", "move"}
    Kinds = {}
    MinTurns = 1
    MaxQueued = 1
    MaxMembers = 2
    Faults = FALSE
SYMMETRY Symmetry
PROPERTY NoSnapBack
CHECK_DEADLOCK FALSE
