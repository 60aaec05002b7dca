\* One writer, as the comments of store.py assume.
CONSTANTS
    loop = loop  video = video
    i1 = i1  i2 = i2  i3 = i3  i4 = i4
    None = None
    Writers <- OneWriter
    Inodes <- FourInodes
    MaxChanges = 4
SPECIFICATION Spec
SYMMETRY Symmetry
INVARIANTS
    AcknowledgedSurvives
PROPERTIES
    ImplementsAtomicStore
