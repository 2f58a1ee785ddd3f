\* Five acts of the user (renders, saves, selections) are enough for a save in
\* flight, a queued one, a newer edit armed behind both, and a reset or an unmount
\* at any point among them.
CONSTANTS
  MaxEvents = 5
SPECIFICATION HookSpec
\* The user stops, and everything comes to rest.
CHECK_DEADLOCK FALSE
INVARIANTS
  HookKeepsItsWord
PROPERTIES
  NoStaleWrite
  EverythingSettles
