\* The built docs against the route table, whatever path is opened.
CONSTANTS
    Segments <- MCSegments
    MaxPathLength = 2

SPECIFICATION Spec
INVARIANT PermalinksRouted
