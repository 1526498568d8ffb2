SPECIFICATION Spec
CONSTANTS
    buf = buf
    scratch = scratch
    str = str
    Names = {buf, scratch, str}
    Spellings = {"plain"}
    Liberties = {"early"}
    MaxBindings = 64
    MaxDepth = 3
    MaxForms = 5
SYMMETRY MCSymmetry
INVARIANTS AcceptedIsSafe
CHECK_DEADLOCK FALSE
