SPECIFICATION Spec
CONSTANTS
  MaxEvents = 3
INVARIANTS
  TypeOK
  CallsOnLiveCamera
  ShutterClosedBetween
  SuccessMeansPicture
