SPECIFICATION FairSpec
CONSTANTS
    Process = {1, 2}
    Plain = {"a"}
    INPUT_BUF = 2
    UintMod = 4
    ReadSizes = {1, 3}
    TickMod = 4
    SleepTimes = {1, 2}
    Sleepers = {2}
INVARIANTS NoMissedInput
PROPERTIES ImplementsLineQueue SleepReturns
