\* Two objects and three pointers: an assignment between two pointers that
\* hold the same object, with a third that keeps another one alive.
CONSTANTS
  Objects = {a, b}
  Pointers = {p, q, r}
  nullptr = nullptr
  MaxPlain = 2
SPECIFICATION RefSpec
INVARIANT
  DeletedExactlyWhenUnheld
