SPECIFICATION Spec
CONSTANTS
  Batches = {b1, b2}
  Sections = {north, south}
  Offerings = {o1}
  Routines = {e1}
  Clerks = {k1, k2}
  None = none
  MaxEdits = 2
PROPERTIES OmittedSectionsKept
