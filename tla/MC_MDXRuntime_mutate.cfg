\* A provider whose components prop is a function that assigns into the
\* context object it receives and returns it, e.g. t => { t.h1 = G; return t }.
CONSTANTS
    Undef = Undef
    WrapperFn = WrapperFn
    F = F
    G = G
    FnExtend = FnExtend
    FnReplace = FnReplace
    FnMutate = FnMutate
    Tabs = Tabs
    TabItem = TabItem
    Custom = {F, G}
    Shortcodes = {Tabs, TabItem}
    MaxDepth = 2
    CallFunction <- MCCallFunction
    ReturnsContext <- MCReturnsContext
    FunctionComponents <- MCFunctionsMutate
    Registries <- MCRegistriesTruthy
    PageComponents <- MCPageNone
    Pages <- MCPages
    Content <- MCContent

SPECIFICATION Spec
PROPERTY ScopesImmutable
