CONSTANTS
    Fds = {f1, f2}
    f1 = f1
    f2 = f2
    MaxInt = 3
    Timeouts = {2}
    Repeats = {0, 2}
    ReadSizes = {1}
    Interests <- MCInterests
    WriteSizes = {1, 3}
    SendSpace = 2
    MaxIn = 1
    MaxQueue = 3
    Budgets <- MCBudgets
    MaxStep = 1
    MaxSeams = 1
    Slack = 1
SPECIFICATION Spec
INVARIANTS SentInOrder NeverEarly RunsAsAsked
PROPERTIES TimersRun DataIsRead WrittenIsSent
CHECK_DEADLOCK FALSE
