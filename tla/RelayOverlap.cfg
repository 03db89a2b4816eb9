SPECIFICATION FairSpec
CONSTANTS
  L = 2
  Echo = {e1, e2}
  Data = {d1}
  FirstSeq = 1
  SeqMod = 8
  Env <- RoughOrCalm
  None = None
INVARIANTS
  TypeOK
  OnionLayers
  NonceFresh
  RepliesNotShared
  ReplyOwn
PROPERTIES
  EchoReturns
  EchoAnswered
