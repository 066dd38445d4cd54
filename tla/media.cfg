\* Four runs over one handle: two writers meet two collections.
CONSTANTS
    Runs = {r1, r2, r3, r4}
    Media = {m1}
    NoMedia = NoMedia
SYMMETRY Symmetry
SPECIFICATION Spec
INVARIANT BytesKept
CHECK_DEADLOCK FALSE
