CONSTANT FileSizes <- MCFileSizes
CONSTANT ConfLine <- MCConfLine
CONSTANT EmptyLine = EmptyLine
CONSTANT CommentLine = CommentLine
CONSTANT PortOf <- MCPortOf
CONSTANT Input <- MCInput
CONSTANT Readable = {"f"}
CONSTANT NoWord = ""
CONSTANT MaxLines = 6
SPECIFICATION ProgramSpec
INVARIANT TypeOK
INVARIANT ThreadsUsedOnce
INVARIANT EveryByteSurvivesOneServer
INVARIANT CopiesAgree
INVARIANT PartsTileTheFile
INVARIANT ProgramTypeOK
INVARIANT ConfiguredAsWritten
INVARIANT CommandsFindConnections
CHECK_DEADLOCK FALSE
