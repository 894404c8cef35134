SPECIFICATION LessonSpec
CONSTANTS
    Lessons = {1, 2}
    First = 1
    Gaps = {1}
    Steps = {"sent", "kali"}
    Panes = {"p", "q"}
    Slack = 1
    TopRung = 3
    WrongsPerHint = 2
    Overlap = TRUE
    MaxRecords = 2
    MaxMoves = 1
    MaxClicks = 0
INVARIANT StepsAreEarned
CHECK_DEADLOCK FALSE
