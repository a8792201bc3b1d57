SPECIFICATION Spec
CONSTANTS
  old = old  new = new  Broken = Broken  None = None
  Handshakes = {h1, h2}
  Chains = {old, new}
  Validity <- OldAndNew
  Interval = 2
  MaxNow = 5
  MaxWrites = 3
  Wide = 2
SYMMETRY HandshakeSymmetry
INVARIANTS ServedPairUsable ValidityReadExactly
PROPERTIES RotationSeen QuickReadsSpaced
