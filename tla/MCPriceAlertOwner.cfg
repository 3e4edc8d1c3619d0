CONSTANTS
  Position = {p1, p2}
  Code = {c1}
  CodeOf <- MCCodeOf
  Price <- MCPrice
  Target <- MCTarget
  Resend = 100
  Job = {j1, j2}
SPECIFICATION Spec
SYMMETRY Symmetry
INVARIANT ReachedIsTold
