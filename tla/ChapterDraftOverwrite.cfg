\* Two people on one draft, one of them saving the chapter directly.
CONSTANTS
    Edits = {e1}
    Restores = {}
    Commits = {}
    Saves = {s1}
    Opens = {}
    Inserts = {}
    Adopts = {}
    Confirms = {}
    KeyOf <- OneKey
    MaxCalls = 2
    MaxChanges = 0
    None = None
SPECIFICATION Spec
PROPERTIES DraftEditsAreNotLost
CHECK_DEADLOCK FALSE
