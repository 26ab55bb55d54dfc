\* The first allocations from any two ranges of 2 IPv4 and 4 IPv6 addresses.
CONSTANTS
  SetBits <- MCSetBits
  Private <- MCPrivate
  MaxGiven = 3
SPECIFICATION SetSpec
INVARIANT NoRoomIsNull
