CONSTANTS
  BufferSize = 3
  MaxAdded = 5
SPECIFICATION BufferSpec
PROPERTIES
  AddedGoesOut
CHECK_DEADLOCK FALSE
