SPECIFICATION Spec
CONSTANTS
  m1 = m1
  m2 = m2
  Sizes = {1, 2}
  Shares = {m1, m2}
  None = None
  Default <- MCDefault
  Legacy <- MCLegacy
  HandEdits = {"image", "shares", "mirror"}
  MaxDisturbances = 2
INVARIANT OneVM
