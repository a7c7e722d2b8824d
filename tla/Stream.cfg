SPECIFICATION ClientSpec
CONSTANTS
  Notes = {1}
  Conns = {1, 2}
  MaxPending = 2
INVARIANTS
  StreamTypeOK
  NothingIsMissed
  NothingNewAfterRevocation
  ListCompleteUnlessOvertaken
PROPERTIES
  NothingAfterClose
  ToldOrClosed
  RevokedIsClosed
CHECK_DEADLOCK FALSE
