\* A provider registering an entry under "undefined.h1", the composite key
\* m computes for a top-level h1 (its parentName is missing).
CONSTANTS
    Undef = Undef
    WrapperFn = WrapperFn
    F = F
    G = G
    FnExtend = FnExtend
    FnReplace = FnReplace
    FnMutate = FnMutate
    Tabs = Tabs
    TabItem = TabItem
    Custom = {F, G}
    Shortcodes = {Tabs, TabItem}
    MaxDepth = 2
    CallFunction <- MCCallFunction
    ReturnsContext <- MCReturnsContext
    FunctionComponents <- MCFunctionsExtend
    Registries <- MCRegistriesUndefinedParent
    PageComponents <- MCPageNone
    Pages <- MCPages
    Content <- MCContent

SPECIFICATION Spec
PROPERTY AbstractSpec
