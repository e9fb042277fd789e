SPECIFICATION StartSpec
CONSTANTS
  DateFormat = {"{date}"}
  ValueOf <- MCValueOf
  NumberOf <- MCNumberOf
  DigitOf <- MCDigitOf
  Rank <- MCRank
  DefaultFile = "logs/myeasylog.log"
  NullStream = "null"
  Launch <- MCLaunch
  PortNumber <- MCPortNumber
  Folder = {"DFS1"}
  Text = {"hello", "%msg", "%line"}
  SourceFile <- MCSourceFile
  EntryLists <- MCEntryLists
INVARIANTS
  StartTypeOK
  AnswersFollowTheList
  NoWriteToAbsentFile
  LinesAsFormatted
  VerboseAsAsked
  StartsAsTold
PROPERTY
  ConfiguredByLastWrite
CHECK_DEADLOCK FALSE
