SPECIFICATION Spec
CONSTANTS
  Clients = {c1, c2}
  MaxSession = 2
  MaxUnit = 3
  Depth = 2
  GopLimit = 2
  Nals = {sps, pps}
  Codecs = {loas}
  DefaultCodec = adts
  None = none
SYMMETRY Symmetry
CHECK_DEADLOCK FALSE
INVARIANTS
  DeltasFollow
  StartsDecodable
  InStep
  SoundDeclared
