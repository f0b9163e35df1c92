\* A disconnect races the lookup of another connection.
SPECIFICATION Spec
CONSTANTS
    c1 = c1
    c2 = c2
    Conn = {c1, c2}
    Proc = {p1, p2}
    Entry = {e1, e2}
    Null = Null
    Screens <- MCScreens
    Exclusive = FALSE
INVARIANTS
    LookupsReadListedEntries
SYMMETRY Symmetry
