SPECIFICATION Spec
CONSTANTS
  a1 = a1
  a2 = a2
  a3 = a3
  r1 = r1
  Adders = {a1, a2, a3}
  Readers = {r1}
  Limit = 2
  MaxAdds = 2
  Empty = Empty
  Torn = Torn
SYMMETRY Symmetry
INVARIANTS
  TypeOK
  OverrunBounded
  NothingLost
  CopyAgrees
