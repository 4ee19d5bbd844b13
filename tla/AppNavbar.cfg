\* Clicks on every anchor and back/forward moves, over a history of up to
\* four entries.
CONSTANTS
    NoKey = NoKey
    MaxHistory = 4

SPECIFICATION Spec
INVARIANT TypeOK
