SPECIFICATION Spec
CONSTANTS
  DigitBits = 4
  Ten = 3
  Quantum = 2
  IntBits = 5
  DoubleBits = 1
  Operands <- MCOperands
  Pairs <- MCPairs
  Samples <- MCSamples
  MaxInteger = 260
  MaxNume = 24
  MaxDeno = 17
  MaxPart = 4
  Powers <- MCPowers
  Shifts <- MCShifts
  Radices = {2, 3, 5}
INVARIANTS ResultsExact OrderRight BitsCounted FixnumsRight WordsHold ReadsBackElsewhere
