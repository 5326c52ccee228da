CONSTANTS
  User = {u1, u2, u3}
  Word = {}
  Place = {}
  Gender = {}
  Tag = {}
  null = null
  Document <- MCDocument
  Request <- MCRequest
  Day <- MCDay
SYMMETRY MCSymmetry
SPECIFICATION Spec
INVARIANTS TypeOK AgesShown PagesComplete
