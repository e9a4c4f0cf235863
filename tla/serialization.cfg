SPECIFICATION SerializationSpec
CONSTANTS
  Octet = 2
  Narrow = 2
  Wide = 3
  Handed <- HandedOver
INVARIANTS ReaderInStep
PROPERTIES HandsOffUnchanged
