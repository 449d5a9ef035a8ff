SPECIFICATION FairSpec
CONSTANTS
  Encoders = {e1, e2}
  Songs <- MCSongs
  FlacRequest = 3
  Mp3Request = 2
  BlockSize = 2
  PagePackets = 2
  Every = 2
  Faults = {"open", "decode", "format", "write"}
INVARIANTS
  InOrder
  WholeSong
PROPERTY EncodingEnds
