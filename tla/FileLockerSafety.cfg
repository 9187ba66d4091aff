SPECIFICATION Spec
CONSTANTS
  Tasks = {t1, t2, t3, t4}
  Inodes = {i1, i2, i3, i4, i5}
  None = None
SYMMETRY Symmetry
PROPERTIES
  ImplementsLock
