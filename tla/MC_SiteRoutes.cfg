\* Every path of up to five segments over the routes' own segments.
CONSTANTS
    Segments <- MCSegments
    MaxPathLength = 5

SPECIFICATION Spec
INVARIANT FirstMatchMostSpecific
INVARIANT SiteLinksResolve
