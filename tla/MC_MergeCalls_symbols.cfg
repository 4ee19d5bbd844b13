\* Objects over an ordinary key and the reserved components key, one symbol key, one
\* value or undefined, enumerable or not.
CONSTANTS
    Sym = Sym
    V = V
    Undef = Undef
    SymKeys = {Sym}
    Vals = {V}
    Types = {"h1"}
    StrKeys <- MCStrKeys
SPECIFICATION Spec
CHECK_DEADLOCK FALSE
INVARIANT SymbolPropsReachComponent
