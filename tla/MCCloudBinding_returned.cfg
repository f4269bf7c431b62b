SPECIFICATION Spec
CONSTANTS
  Users = {u1}
  Subjects = {s1}
  Creds = {k1, k2}
  Redemptions = {r1, r2}
  Requests = {h1, h2}
  None = None
SYMMETRY Symmetry
PROPERTIES ReturnedKeyIsBound
