\* Three files, in all small databases.
CONSTANTS
  f1 = f1
  f2 = f2
  f3 = f3
  File = {f1, f2, f3}
  Clash = Clash
  NULL = NULL
  Databases <- MCDatabases
SPECIFICATION FairSpec
INVARIANTS TypeOK TablesConsistent NothingLeftBehind BuiltOnceAtATime AnswerIsRight
PROPERTY EveryCallAnswers
