----------------------------- MODULE MDXRuntime -----------------------------
(***************************************************************************)
(* The MDX runtime bundled in every docs page chunk (webpack module 3905, *)
(* @mdx-js/react v1) and the compiled MDXContent functions of the pages.  *)
(*                                                                         *)
(* A render is synchronous and depth first: theme code nests MDXProvider  *)
(* elements (each pushes a context value), then a page's MDXContent runs: *)
(* it creates the "wrapper" element and, inside it, one mdx() element per *)
(* markdown node.  Every such element is rendered by MDXCreateElement,    *)
(* which resolves the component to use from the nearest context value.    *)
(*                                                                         *)
(* Data is abstracted: a props object is a record of the four bookkeeping *)
(* keys (Undef when absent) plus the set of its other keys; a components  *)
(* registry is a function from property names (strings) to               *)
(* implementations.                                                        *)
(***************************************************************************)
EXTENDS Integers, Sequences, TLC

CONSTANTS
    Undef,              \* JavaScript undefined (any falsy value)
    WrapperFn,          \* DEFAULTS.wrapper, the function rendering a Fragment
    Custom,             \* component implementations supplied by providers
    FunctionComponents, \* components props given as functions of the context
    CallFunction(_, _), \* CallFunction(fn, ctx): what such a function returns
    ReturnsContext(_),  \* whether such a function returns the object it got
    Registries,         \* components objects a provider may receive
    PageComponents,     \* components props a page's MDXContent may receive
    Shortcodes,         \* stub components of JSX tags a page does not import
    Pages,              \* the compiled pages
    Content,            \* Content[pg]: its mdx() calls below the wrapper
    MaxDepth            \* bound on nested MDXProviders

ASSUME /\ Undef \notin Custom \cup FunctionComponents \cup Shortcodes
       /\ PageComponents \cap FunctionComponents = {}
       /\ MaxDepth \in Nat

(* Context values are objects: heap maps an object to its entries, and  *)
(* ctx holds the objects the providers pass down.  Object 0 is the       *)
(* default value of createContext({}), shared by every render.            *)
VARIABLES
    heap,   \* heap[o]: the entries of context object o
    ctx,    \* the objects MDXProvider elements provide, outermost first
    page,   \* the page being rendered, or Undef
    last    \* the last element MDXCreateElement rendered, or Undef

vars == <<heap, ctx, page, last>>

(***************************************************************************)
(* JavaScript helpers.                                                     *)
(***************************************************************************)
\* obj[k] on a plain object: undefined when the key is missing.
Get(obj, k) == IF k \in DOMAIN obj THEN obj[k] ELSE Undef

\* The || operator: the left operand when it is truthy, else the right.
OrElse(x, y) == IF x # Undef THEN x ELSE y

\* "".concat(s) of a parentName: an absent one becomes "undefined".
ParentString(s) == IF s = Undef THEN "undefined" ELSE s

EmptyObject == [k \in {} |-> Undef]

Objects == 0..MaxDepth

\* The object useContext(s) returns: createContext's default when no
\* provider encloses.
TopId == IF ctx = <<>> THEN 0 ELSE ctx[Len(ctx)]

Top == heap[TopId]

(***************************************************************************)
(* The runtime (module 3905).                                              *)
(***************************************************************************)
\* p: the built-in defaults.
DEFAULTS == [inlineCode |-> "code", wrapper |-> WrapperFn]

\* Mutation: components replace the context instead of being merged into it.
useMDXComponentsNoMerge(e, t) ==
    IF e = Undef THEN t
    ELSE IF e \in FunctionComponents THEN CallFunction(e, t)
    ELSE e

\* u: useMDXComponents(e) with t = useContext(s).  i(i({},t),e) copies t
\* then e, so e's entries win (@@ keeps its left operand's entries).
useMDXComponents(e, t) ==
    IF e = Undef THEN t
    ELSE IF e \in FunctionComponents THEN CallFunction(e, t)
    ELSE e @@ t

\* Mutation: u copies e into the context object itself, i(t, e).
ContextReturnedInPlace(e) == TRUE

\* Whether u's result is the context object t itself rather than a new
\* object: "return t" when e is falsy, or e(t) when e returns its argument.
ContextReturned(e) ==
    \/ e = Undef
    \/ e \in FunctionComponents /\ ReturnsContext(e)

\* The four keys l(e, [...]) strips before the component is called.
Bookkeeping == {"components", "mdxType", "originalType", "parentName"}

\* The property names of a props record.
PropKeys(props) ==
    props.attrs \cup {k \in Bookkeeping \cap DOMAIN props : props[k] # Undef}

\* Mutation: an entry that is present wins even when it is falsy (?? for ||).
ResolveComponentPresent(mm, req) ==
    LET ck == ParentString(req.parent) \o "." \o req.tag
    IN CASE ck \in DOMAIN mm      -> mm[ck]
         [] req.tag \in DOMAIN mm -> mm[req.tag]
         [] OTHER -> OrElse(Get(DEFAULTS, req.tag), req.original)

\* Mutation: the bare tag is looked up before the composite key.
ResolveComponentBareFirst(mm, req) ==
    OrElse(OrElse(OrElse(
        Get(mm, req.tag),
        Get(mm, ParentString(req.parent) \o "." \o req.tag)),
        Get(DEFAULTS, req.tag)), req.original)

\* The component m(...) picks for a request under the components mm:
\* mm[parentName.mdxType] || mm[mdxType] || DEFAULTS[mdxType] || originalType.
ResolveComponent(mm, req) ==
    OrElse(OrElse(OrElse(
        Get(mm, ParentString(req.parent) \o "." \o req.tag),
        Get(mm, req.tag)), Get(DEFAULTS, req.tag)), req.original)

\* m: MDXCreateElement.  Resolves the component and the props it is called
\* with; components is passed on again whenever it was given.
MDXCreateElement(props, t) ==
    LET n   == props.components
        req == [tag |-> props.mdxType, parent |-> props.parentName,
                original |-> props.originalType]
    IN [req   |-> req,
        impl  |-> ResolveComponent(useMDXComponents(n, t), req),
        props |-> {"ref"} \cup (PropKeys(props) \ Bookkeeping)
                  \cup (IF n # Undef THEN {"components"} ELSE {})]

\* d: mdx(type, props).  A string type, or props carrying mdxType, goes
\* through MDXCreateElement with originalType and mdxType set; anything
\* else is a plain createElement of the type itself.
mdx(el, t) ==
    IF el.type \in STRING \/ el.mdxType # Undef
    THEN MDXCreateElement(
           [[originalType |-> el.type] @@ el
              EXCEPT !.mdxType = IF el.type \in STRING THEN el.type
                                 ELSE el.mdxType], t)
    ELSE [req |-> [tag |-> Undef, parent |-> Undef, original |-> el.type],
          impl |-> el.type, props |-> PropKeys(el)]

\* The wrapper element a page's MDXContent creates:
\* mdx("wrapper", _extends({}, layoutProps, rest, {components, mdxType})).
WrapperElement(C) ==
    [type |-> "wrapper", mdxType |-> "MDXLayout", parentName |-> Undef,
     components |-> C, attrs |-> {"toc"}]

\* The element the shortcode stub s of helm_values renders,
\* p = function(e){return function(n){console.warn(...); return mdx("div", n)}}:
\* a div with the props n the stub was called with.  (The JSX calls of the
\* pages never pass components, so n never carries it.)
StubElement(s, n) ==
    [type |-> "div", mdxType |-> Undef, parentName |-> Undef,
     components |-> Undef, attrs |-> n \ {"components"}]

(***************************************************************************)
(* Actions.                                                                *)
(***************************************************************************)
Init ==
    /\ heap = [o \in Objects |-> EmptyObject]
    /\ ctx = <<>>
    /\ page = Undef
    /\ last = Undef

\* Mutation: the provider's value is its components prop as given.
MDXProviderRaw(C) ==
    /\ page = Undef
    /\ Len(ctx) < MaxDepth
    /\ ctx' = Append(ctx, Len(ctx) + 1)
    /\ heap' = [heap EXCEPT ![Len(ctx) + 1] = C]
    /\ UNCHANGED <<page, last>>

\* c: MDXProvider, rendered by theme code around the page content.  Its
\* value is useMDXComponents(components) read under the enclosing provider:
\* a new object, or the enclosing object itself (then written in place).
MDXProvider(C) ==
    /\ page = Undef
    /\ Len(ctx) < MaxDepth
    /\ LET o == IF ContextReturned(C) THEN TopId ELSE Len(ctx) + 1
       IN /\ ctx' = Append(ctx, o)
          /\ heap' = [heap EXCEPT ![o] = useMDXComponents(C, Top)]
    /\ UNCHANGED <<page, last>>

\* The provider's subtree has finished rendering.
LeaveProvider ==
    /\ page = Undef
    /\ ctx # <<>>
    /\ ctx' = SubSeq(ctx, 1, Len(ctx) - 1)
    /\ UNCHANGED <<heap, page, last>>

\* MDXContent(e) of page pg with e.components = C: the wrapper element is
\* created and rendered.
MDXContent(pg, C) ==
    /\ page = Undef
    /\ page' = [id |-> pg, components |-> C, pc |-> 1, stub |-> FALSE]
    /\ last' = mdx(WrapperElement(C), Top)
    /\ UNCHANGED <<heap, ctx>>

\* The next markdown node of the page, inside the wrapper, is rendered.
\* When it resolves to a shortcode stub, React renders the stub's output
\* before the next sibling (stub is set).
RenderChild ==
    /\ page # Undef
    /\ ~page.stub
    /\ page.pc <= Len(Content[page.id])
    /\ last' = mdx(Content[page.id][page.pc], Top)
    /\ page' = [page EXCEPT !.pc = @ + 1, !.stub = last'.impl \in Shortcodes]
    /\ UNCHANGED <<heap, ctx>>

\* The stub component runs: it warns, then renders mdx("div", n) with the
\* props it received, resolved under the same context; React renders that
\* element in turn, a stub again included.
RenderStub ==
    /\ page # Undef
    /\ page.stub
    /\ last' = mdx(StubElement(last.impl, last.props), Top)
    /\ page' = [page EXCEPT !.stub = last'.impl \in Shortcodes]
    /\ UNCHANGED <<heap, ctx>>

\* Every node of the page has been rendered.
FinishPage ==
    /\ page # Undef
    /\ ~page.stub
    /\ page.pc > Len(Content[page.id])
    /\ page' = Undef
    /\ UNCHANGED <<heap, ctx, last>>

Next ==
    \/ \E C \in Registries \cup FunctionComponents \cup {Undef} : MDXProvider(C)
    \/ LeaveProvider
    \/ \E pg \in Pages, C \in PageComponents : MDXContent(pg, C)
    \/ RenderChild
    \/ RenderStub
    \/ FinishPage

Spec == Init /\ [][Next]_vars

(***************************************************************************)
(* Properties.                                                             *)
(***************************************************************************)
Impl == Custom \cup Shortcodes \cup {WrapperFn} \cup STRING

IsRegistry(r) ==
    /\ r \notin {Undef} \cup FunctionComponents
    /\ DOMAIN r \subseteq STRING
    /\ \A k \in DOMAIN r : r[k] \in Impl \cup {Undef}

TypeOK ==
    /\ Len(ctx) <= MaxDepth
    /\ ctx \in Seq(Objects)
    /\ \A o \in Objects : IsRegistry(heap[o])
    /\ \/ page = Undef
       \/ /\ page.id \in Pages
          /\ page.components \in PageComponents
          /\ page.pc \in 1..Len(Content[page.id]) + 1
          /\ page.stub \in BOOLEAN
    /\ \/ last = Undef
       \/ /\ last.impl \in Impl \cup {Undef}
          /\ last.props \subseteq STRING

\* Spec 3: a scope's registry has every key of its parent's.  A nested
\* MDXProvider's value, useMDXComponents(components) under the enclosing
\* provider, keeps every component the enclosing providers defined.
ScopeInherits ==
    \A i \in 2..Len(ctx) : DOMAIN heap[ctx[i - 1]] \subseteq DOMAIN heap[ctx[i]]

\* Spec 3, 4.2 and 7: a nested scope's lookup of a tag is its own entry or
\* else its parent's, and an entry that is not a component is a
\* ConfigurationError when the scope is derived.  So a component an
\* enclosing MDXProvider registered stays found in every nested scope.
\* u's merge copies a nested provider's falsy entry over the enclosing
\* one, and m's || chain then skips it.
OverridesNeverLost ==
    \A i \in 2..Len(ctx) :
        \A k \in DOMAIN heap[ctx[i - 1]] :
            heap[ctx[i - 1]][k] # Undef => Get(heap[ctx[i]], k) # Undef

\* Spec 4.3: resolution never fails.  Whatever the providers registered,
\* falsy entries included, MDXCreateElement renders some component.
ResolutionTotal ==
    last # Undef => last.impl # Undef

\* The context objects in use: the default value and every provided one.
LiveObjects == {0} \cup {ctx[i] : i \in 1..Len(ctx)}

\* Spec 3, 4.2 and 5: scopes are immutable and the root scope is read-only
\* after initialization.  No step of a render changes the entries of a
\* context object that is in use before and after it, the shared default
\* of createContext({}) included.
ScopesImmutable ==
    [][\A o \in LiveObjects \cap LiveObjects' : heap'[o] = heap[o]]_vars

(***************************************************************************)
(* Refinement: the provider stack is the chain of scopes, the last        *)
(* rendered element the last resolution.  A component passed as the type  *)
(* of mdx() is the request's explicit override.                           *)
(***************************************************************************)
AbstractRequest(r) ==
    [tag |-> r.tag, parent |-> r.parent,
     explicit |-> IF r.original \in STRING THEN Undef ELSE r.original]

Abstract == INSTANCE ComponentScopes WITH
    Absent         <- Undef,
    CompositeKey   <- LAMBDA par, tag : par \o "." \o tag,
    BuiltinDefault <- LAMBDA r : OrElse(Get(DEFAULTS, r.tag), r.tag),
    chain          <- [i \in 1..Len(ctx) |-> heap[ctx[i]]],
    resolved       <- IF last = Undef THEN Undef
                      ELSE [req |-> AbstractRequest(last.req), impl |-> last.impl]

\* The MDX runtime implements the spec's scoped registry and resolver.
AbstractSpec == Abstract!Spec

=============================================================================
