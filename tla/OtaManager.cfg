SPECIFICATION Spec
CONSTANTS
  Images <- Sent
  Files = {2, 3, 4}
  HeaderLen = 2
  Window = 3
  Buffer = 4
  StorageSize = 3
  MaxUploads = 3
  MaxRestarts = 1
INVARIANTS ReadyWhenIdle AlwaysBoots KeepsItsWord
PROPERTIES KeepsEdition
CHECK_DEADLOCK FALSE
