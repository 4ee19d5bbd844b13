\* Providers whose components prop is a function of the enclosing context.
CONSTANTS
    Undef = Undef
    WrapperFn = WrapperFn
    F = F
    G = G
    FnExtend = FnExtend
    FnReplace = FnReplace
    FnMutate = FnMutate
    Tabs = Tabs
    TabItem = TabItem
    Custom = {F, G}
    Shortcodes = {Tabs, TabItem}
    MaxDepth = 2
    CallFunction <- MCCallFunction
    ReturnsContext <- MCReturnsContext
    FunctionComponents <- MCFunctionsAll
    Registries <- MCRegistriesTruthy
    PageComponents <- MCPageNone
    Pages <- MCPages
    Content <- MCContent

SPECIFICATION Spec
INVARIANT ScopeInherits
