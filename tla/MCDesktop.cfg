\* Two profiles with two folders and two apps between them.
SPECIFICATION Spec
CONSTANTS
    Owners = {p1, p2}
    Folders = {f1, f2}
    Apps = {a1, a2}
    Names = {n1, n2}
    Links = {l1, l2}
    MinPosition <- LeastPosition
    MaxPosition = 3
INVARIANTS DesktopTypeOK FoldersNamedApart
PROPERTY PlacedAtEnd
SYMMETRY DesktopSymmetry
