SPECIFICATION Spec
CONSTANTS
  c1 = c1
  c2 = c2
  c3 = c3
  Console <- ThreeConsoles
  MaxKeys = 4
INVARIANTS IInv OneKeyEach
PROPERTY KeyStays
