SPECIFICATION Spec
CONSTANTS
  ByteValues = 256
  IntValues = 8
  Documents <- DocumentSet
  Malformed = Malformed
  OtherMessage = OtherMessage
  NoMessage = NoMessage
  NoCommand = NoCommand
  NoFunction = NoFunction
INVARIANTS
  TypeOK
  CastsMatch
  WellFormedObeyed
  IllFormedRefused
  HaltOnRequest
PROPERTIES
  ConfiguredAtRest
