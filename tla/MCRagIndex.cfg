CONSTANTS
  a = a
  b = b
  c = c
  Absent = Absent
  Processes = {p1, p2, p3}
  Keys = {a, b, c}
  Corpora <- MCCorpora
  Queries <- MCQueries
  MaxRestarts = 3
SPECIFICATION Spec
SYMMETRY Symmetry
INVARIANTS
  TypeOK
  SeedingHidden
  SettledCollection
