\* One event, for the order or the cart route, delivered up to four times,
\* two requests at a time.
CONSTANTS
  Events = {e1}
  Deliveries = {d1, d2}
  NoEvent = NoEvent
  NoDelivery = NoDelivery
  MaxAttempts = 4
SPECIFICATION Spec
INVARIANTS
  TypeOK
  OneWorker
  ProcessedIsComplete
  AckedIsRecorded
PROPERTIES
  ProcessedIsFinal
  ClaimSpec
  HeldIsReleased
