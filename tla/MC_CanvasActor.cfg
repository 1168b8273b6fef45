SPECIFICATION Spec
CONSTANTS
  ObjId <- MCObjId
  NoParent <- NonePar
  NoOpId <- NoneId
  OpId <- Ids3
  OpOf <- CommentTextDelete
  Features <- TwoOps
  FirstOps <- MCFirstOps
  MaxSeen = 2
  MaxSeq = 8
  MaxCrashes = 2
INVARIANTS TypeOK AckNamesEntry LastArrivalWins ReloadKeepsObjects AckedCommentKept OriginalAck
PROPERTIES JournalAppendOnly
