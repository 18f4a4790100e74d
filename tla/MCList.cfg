\* Two lists and four elements: lists that are empty, of one element and
\* longer are joined with each other.
SPECIFICATION Spec
CONSTANTS
    Heads = {h1, h2}
    Elems = {e1, e2, e3, e4}
    NULL = NULL
INVARIANT RingsAreClosed
PROPERTY ImplementsRings
