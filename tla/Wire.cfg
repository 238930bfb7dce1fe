SPECIFICATION Spec
CONSTANTS
  Radix = 6
  Word = 2
  Long = 2
  Packets <- SomePackets
  MaxPackets = 3
  Capacity = 4
PROPERTY ImplementsChannel
CHECK_DEADLOCK FALSE
