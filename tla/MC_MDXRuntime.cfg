\* Providers with every kind of components object, falsy entries and
\* context-extending functions included; pages rendered with or without
\* their own components prop.
CONSTANTS
    Undef = Undef
    WrapperFn = WrapperFn
    F = F
    G = G
    FnExtend = FnExtend
    FnReplace = FnReplace
    FnMutate = FnMutate
    Tabs = Tabs
    TabItem = TabItem
    Custom = {F, G}
    Shortcodes = {Tabs, TabItem}
    MaxDepth = 3
    CallFunction <- MCCallFunction
    ReturnsContext <- MCReturnsContext
    FunctionComponents <- MCFunctionsExtend
    Registries <- MCRegistriesAll
    PageComponents <- MCPageCode
    Pages <- MCPages
    Content <- MCContent

SPECIFICATION Spec
INVARIANT TypeOK
INVARIANT ScopeInherits
INVARIANT ResolutionTotal
PROPERTY ScopesImmutable
