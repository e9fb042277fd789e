CONSTANT main = main
CONSTANT t1 = t1
CONSTANT Thread = {main, t1}
CONSTANT Main = main
CONSTANT Nobody = Nobody
CONSTANT Level = {"DEBUG", "INFO", "FATAL"}
CONSTANT Fatal = "FATAL"
CONSTANT Enabled = {"INFO", "FATAL"}
CONSTANT Threshold <- MCThreshold
CONSTANT Pieces = 2
CONSTANT Signals = TRUE
CONSTANT DiskMayFill = TRUE
CONSTANT MaxStatements = 2
SPECIFICATION FairSpec
INVARIANT LogTypeOK
INVARIANT LinesAreWhole
INVARIANT StatementsInOrder
INVARIANT KillTakesFew
PROPERTY InterruptEnds
PROPERTY StatementsReturn
CHECK_DEADLOCK FALSE
