SPECIFICATION FairSpec
CONSTANTS
  L = 1
  Echo = {e1}
  Data = {d1}
  FirstSeq = 1
  SeqMod = 8
  Env <- OverlapOnly
  None = None
PROPERTIES
  CoverKeepsEcho
