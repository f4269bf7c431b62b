SPECIFICATION Spec
CONSTANTS
  Users = {u1, u2}
  Subjects = {s1, s2}
  Creds = {k1, k2}
  Redemptions = {r1, r2}
  Requests = {h1, h2}
  None = None
SYMMETRY Symmetry
INVARIANTS SubjectBoundOnce CandidateHasRequest RowsAreOfTheirKeys
PROPERTIES UndisturbedKeyIsBound
