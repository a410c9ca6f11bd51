SPECIFICATION FairSpec
CONSTANTS
    Commits = {c1, c2}
    None = None
PROPERTIES RequestStands Answered
CHECK_DEADLOCK FALSE
