CONSTANTS
    t1 = t1
    x = x
    y = y
    bugfix = bugfix
    touch = touch
    Todos = {t1}
    Commands = {c1}
    Contents = {x, y}
    Outputs = {o1}
    Revisions = {bugfix, touch}
    None = None
    Text <- MCText
    Controls <- MCControls
    Statuses = {"pending", "completed"}
SPECIFICATION MCSpec
SYMMETRY MCSymmetry
CHECK_DEADLOCK FALSE
PROPERTIES CompletedWasTested CompletedBugWasDebugged CompletedKeepsProfile
