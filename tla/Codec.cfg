SPECIFICATION Spec
CONSTANTS
  M = 256
  W = 31
  Seqs = {0, 7, 255}
  Windows = {1, 255}
  Payloads <- SomePayloads
INVARIANT
  TypeOK
PROPERTIES
  DecodesAsModelled
  DecodedIsSent
