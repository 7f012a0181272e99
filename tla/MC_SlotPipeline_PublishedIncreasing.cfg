CONSTANTS
  a1 = a1
  a2 = a2
  Servers <- MCServers
  MaxSlot = 3
  LbQCap = 2
  RelayQCap = 1
  AgeCap = 3

SPECIFICATION Spec
PROPERTY PublishedIncreasing
