SPECIFICATION Spec
CONSTANTS
  c1 = c1
  c2 = c2
  x = x
  y = y
  f1 = f1
  f2 = f2
  Conns = {c1, c2}
  Names = {x, y}
  Fds = {f1, f2}
  None = None
  CloseWakes = TRUE
SYMMETRY Symmetry
INVARIANTS
  TypeOK
  DescriptorsOwned
  NoDescriptorLost

  
