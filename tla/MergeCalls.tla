------------------------------ MODULE MergeCalls ------------------------------
(***************************************************************************)
(* One call of the runtime's props plumbing per behaviour, from any input *)
(* objects, compared with spec 4.1's merge and omit.                      *)
(***************************************************************************)
EXTENDS PropertyMerge, SequencesExt

CONSTANTS Types   \* string element types mdx may be called with

VARIABLES
    call,     \* the call made: its site and arguments, or site "none"
    result    \* the object it returned

vars == <<call, result>>

(***************************************************************************)
(* Spec 4.1.                                                               *)
(***************************************************************************)
\* The enumerable entries of a source, as merge and omit copy them.
EnumerableEntries(s) ==
    [k \in {x \in DOMAIN s : s[x].enumerable} |-> Enum(s[k].value)]

\* merge(target, ...sources): later sources win; non-enumerable entries
\* are ignored.
SpecMerge(target, srcs) ==
    FoldLeft(LAMBDA acc, s : EnumerableEntries(s) @@ acc, target, srcs)

\* omit(source, excludedKeys).
SpecOmit(src, excluded) ==
    Restrict(EnumerableEntries(src), {k \in DOMAIN EnumerableEntries(src) :
                                        k \notin excluded})

\* Spec 4.3: the component gets the request's props without the reserved
\* keys; ref and the components value travel beside them as in the code.
SpecComponentProps(e) ==
    LET n == IF "components" \in DOMAIN e THEN e["components"].value ELSE Undef
    IN SpecMerge([ref |-> Enum(Undef)],
                 <<SpecOmit(e, Reserved),
                   IF n # Undef THEN [components |-> Enum(n)] ELSE EmptyObject>>)

(***************************************************************************)
(* The calls.                                                              *)
(***************************************************************************)
Init ==
    /\ call = [site |-> "none"]
    /\ result = EmptyObject

\* useMDXComponents(e) under context t, both plain objects.
UseMDXComponentsCall(t, e) ==
    /\ call.site = "none"
    /\ call' = [site |-> "u", ctx |-> t, components |-> e]
    /\ result' = MergedComponents(t, e)

\* MDXCreateElement with props e: the props of the rendered component.
MDXCreateElementCall(e) ==
    /\ call.site = "none"
    /\ call' = [site |-> "m", props |-> e]
    /\ result' = ComponentProps(e)

\* mdx(type, e) for a string type, then MDXCreateElement.
MdxCall(type, e) ==
    /\ call.site = "none"
    /\ call' = [site |-> "mdx", type |-> type, props |-> e]
    /\ result' = ComponentProps(MdxProps(type, e))

Next ==
    \/ \E t, e \in Objects : UseMDXComponentsCall(t, e)
    \/ \E e \in Objects : MDXCreateElementCall(e)
    \/ \E type \in Types, e \in Objects : MdxCall(type, e)

Spec == Init /\ [][Next]_vars

(***************************************************************************)
(* Properties.                                                             *)
(***************************************************************************)
\* Spec 4.1: the components useMDXComponents builds from a context and a
\* components prop are merge(context, prop): the prop wins on a shared key,
\* enumerable string and symbol entries of both are kept, non-enumerable
\* ones of either are not.
MergeMatchesSpec ==
    call.site = "u" => result = SpecMerge(EmptyObject, <<call.ctx, call.components>>)

\* Spec 4.1 and 4.3: the props object MDXCreateElement hands to
\* React.createElement is omit(props, reserved keys), enumerable symbol
\* entries included, plus ref and the components value.  (React's own copy
\* of that object into the component's props is not modelled.)
OmitMatchesSpec ==
    call.site = "m" => result = SpecComponentProps(call.props)

\* Spec 3: an enumerable symbol-keyed prop given to mdx() reaches the
\* component it renders, as symbol entries survive merge and omit.
SymbolPropsReachComponent ==
    call.site = "mdx" =>
        \A s \in OwnSymbols(call.props) :
            call.props[s].enumerable => s \in DOMAIN result

=============================================================================
