SPECIFICATION Spec
CONSTANTS
  p1 = p1
  p2 = p2
  Passwords <- TwoPasswords
  Password = p1
  MaxBlocks = 3
  MaxOptions = 3
INVARIANTS SecretsInv KeyAsSpecified TLSWins
