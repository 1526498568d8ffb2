SPECIFICATION Spec
CONSTANTS
    buf = buf
    scratch = scratch
    str = str
    Names = {buf, scratch, str}
    Spellings = {"plain"}
    Liberties = {}
    MaxBindings = 3
    MaxDepth = 4
    MaxForms = 5
SYMMETRY MCSymmetry
INVARIANTS AcceptedIsSafe ReportsRealEscapes
PROPERTIES PortAgrees
CHECK_DEADLOCK FALSE
