\* A provider for the theme's code block, and a nested provider whose
\* components object carries a falsy code entry (as {code: cond && C}
\* would); pages rendered without components.
CONSTANTS
    Undef = Undef
    WrapperFn = WrapperFn
    F = F
    G = G
    FnExtend = FnExtend
    FnReplace = FnReplace
    FnMutate = FnMutate
    Tabs = Tabs
    TabItem = TabItem
    Custom = {F, G}
    Shortcodes = {Tabs, TabItem}
    MaxDepth = 2
    CallFunction <- MCCallFunction
    ReturnsContext <- MCReturnsContext
    FunctionComponents <- MCFunctionsExtend
    Registries <- MCRegistriesFalsy
    PageComponents <- MCPageNone
    Pages <- MCPages
    Content <- MCContent

SPECIFICATION Spec
INVARIANT OverridesNeverLost
