\* Providers with truthy components objects for tag names and composite keys,
\* and context-extending functions; pages rendered without components, as
\* the docs theme renders them.
CONSTANTS
    Undef = Undef
    WrapperFn = WrapperFn
    F = F
    G = G
    FnExtend = FnExtend
    FnReplace = FnReplace
    FnMutate = FnMutate
    Tabs = Tabs
    TabItem = TabItem
    Custom = {F, G}
    Shortcodes = {Tabs, TabItem}
    MaxDepth = 2
    CallFunction <- MCCallFunction
    ReturnsContext <- MCReturnsContext
    FunctionComponents <- MCFunctionsExtend
    Registries <- MCRegistriesTruthy
    PageComponents <- MCPageNone
    Pages <- MCPages
    Content <- MCContent

SPECIFICATION Spec
PROPERTY AbstractSpec
