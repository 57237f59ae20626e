SPECIFICATION RedactSpec
CONSTANTS
  MinPan = 3
  MaxPan = 4
  Keep = 2
  MaxLength = 8
  Text <- MCText
INVARIANT NoFullPan
