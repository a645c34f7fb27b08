SPECIFICATION FairSpec
CONSTANTS
  first = first
  second = second
  Stream <- Streams
  State = {"RUNNING", "CANCEL_REQUESTED", "FAILED", "CANCELLED"}
  MaxEvents = 3
INVARIANTS
  SeesPrefix
PROPERTIES
  EndsComplete
  EventsArrive
  StreamsEnd
  EmitIsServed
CHECK_DEADLOCK FALSE
