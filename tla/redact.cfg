SPECIFICATION RedactFairSpec
CONSTANTS
  MinPan = 3
  MaxPan = 4
  Keep = 2
  MaxLength = 9
  Text <- MCText
INVARIANTS LayoutIsKept RunsAreMasked OnePassSuffices AgreesWithLast4
PROPERTIES Terminates WorkShrinks
