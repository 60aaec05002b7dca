\* The event loop and a thread of the shorts workflow save in parallel.
CONSTANTS
    loop = loop  video = video
    i1 = i1  i2 = i2  i3 = i3  i4 = i4
    None = None
    Writers <- TwoWriters
    Inodes <- FourInodes
    MaxChanges = 2
SPECIFICATION Spec
SYMMETRY Symmetry
INVARIANTS
    StoreFileIsWhole
