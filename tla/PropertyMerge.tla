---------------------------- MODULE PropertyMerge ----------------------------
(***************************************************************************)
(* The object helpers of the MDX runtime (webpack module 3905): Babel's   *)
(* _defineProperty (a), ownKeys (o), _objectSpread2 (i),                  *)
(* _objectWithoutProperties (l) and the for...in props copy of mdx (d),   *)
(* with the props objects each call site of the runtime builds from them. *)
(*                                                                         *)
(* An object maps each own key, a string or a symbol, to its value and    *)
(* its enumerable flag; key order is left out (spec 3: irrelevant).       *)
(* Each behaviour is one call of the runtime: the inputs are chosen, the  *)
(* call returns its object, and nothing follows.                           *)
(***************************************************************************)
EXTENDS Integers, Sequences, Functions, TLC

CONSTANTS
    StrKeys,   \* string property names the inputs may carry
    SymKeys,   \* symbol property keys the inputs may carry
    Vals,      \* property values
    Undef      \* undefined: a missing components value

Prop == [value : Vals \cup {Undef}, enumerable : BOOLEAN]

\* Every object over the input keys.
Objects == UNION {[K -> Prop] : K \in SUBSET (StrKeys \cup SymKeys)}

Enum(v) == [value |-> v, enumerable |-> TRUE]

EmptyObject == [k \in {} |-> Enum(Undef)]

\* Object.keys(e): the enumerable own string keys.
ObjectKeys(e) == {k \in DOMAIN e : k \notin SymKeys /\ e[k].enumerable}

\* Object.getOwnPropertySymbols(e): every own symbol, enumerable or not.
OwnSymbols(e) == DOMAIN e \cap SymKeys

\* Mutation: the enumerability filter on symbols is left out.
ownKeysAllSymbols(e, t) == ObjectKeys(e) \cup OwnSymbols(e)

\* o: ownKeys(e, t).  With t the symbols are filtered by enumerability.
ownKeys(e, t) ==
    ObjectKeys(e) \cup IF t THEN {k \in OwnSymbols(e) : e[k].enumerable}
                       ELSE OwnSymbols(e)

\* a: _defineProperty(e, t, n).  Whether through defineProperty (t in e)
\* or assignment, e[t] becomes an enumerable property with value n.
\* The forEach of i applies it to every key of a source; the keys are
\* distinct, so the result does not depend on their order.
DefineAll(e, src, keys) == [k \in keys |-> Enum(src[k].value)] @@ e

\* i: _objectSpread2(target, arguments[1], ...).  An odd-numbered source
\* is copied key by key through ownKeys(.., true) and _defineProperty; an
\* even-numbered one through defineProperties(getOwnPropertyDescriptors),
\* every own property with its descriptor, non-enumerable ones included.
RECURSIVE SpreadFrom(_, _, _)
SpreadFrom(target, srcs, t) ==
    IF t > Len(srcs) THEN target
    ELSE LET n == srcs[t]
         IN SpreadFrom(IF t % 2 = 1 THEN DefineAll(target, n, ownKeys(n, TRUE))
                       ELSE n @@ target,
                       srcs, t + 1)

_objectSpread2(target, srcs) == SpreadFrom(target, srcs, 1)

\* Mutation: only the loose helper, without the symbol pass.
_objectWithoutPropertiesLoose(e, t) ==
    [k \in {x \in ObjectKeys(e) : x \notin t} |-> Enum(e[k].value)]

\* l: _objectWithoutProperties(e, t).  The loose part copies Object.keys
\* not listed in t; then every symbol not in t (t holds strings, so none
\* is) that is enumerable.
_objectWithoutProperties(e, t) ==
    LET loose == [k \in {x \in ObjectKeys(e) : x \notin t} |-> Enum(e[k].value)]
        syms  == {x \in OwnSymbols(e) : x \notin t /\ e[x].enumerable}
    IN loose @@ Restrict(e, syms)

\* The for (var s in t) hasOwnProperty.call(t, s) copy of mdx: for...in
\* visits enumerable string keys only.
ForInCopy(t) == [k \in ObjectKeys(t) |-> Enum(t[k].value)]

(***************************************************************************)
(* The props objects of the runtime's call sites.                         *)
(***************************************************************************)
\* u: the merged components, i(i({}, t), e), of context t and prop e.
MergedComponents(t, e) == _objectSpread2(_objectSpread2(EmptyObject, <<t>>), <<e>>)

\* The keys m strips from its props.
Reserved == {"components", "mdxType", "originalType", "parentName"}

\* m: the props the resolved component is called with, for props e.
\* (ref is the forwarded ref; its value is left out.)
ComponentProps(e) ==
    LET n == IF "components" \in DOMAIN e THEN e["components"].value ELSE Undef
        c == _objectWithoutProperties(e, Reserved)
        r == [ref |-> Enum(Undef)]
    IN IF n # Undef
       THEN _objectSpread2(_objectSpread2(r, <<c>>),
                           <<EmptyObject, [components |-> Enum(n)]>>)
       ELSE _objectSpread2(r, <<c>>)

\* d: the props mdx(type, t) hands to MDXCreateElement for a string type.
MdxProps(type, t) ==
    [originalType |-> Enum(type), mdxType |-> Enum(type)] @@ ForInCopy(t)

=============================================================================
