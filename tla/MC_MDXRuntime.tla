--------------------------- MODULE MC_MDXRuntime ---------------------------
(***************************************************************************)
(* Model values and page contents for checking MDXRuntime.                *)
(***************************************************************************)
EXTENDS MDXRuntime

CONSTANTS F, G,                  \* two custom components
          FnExtend, FnReplace,   \* components props given as functions
          FnMutate,
          Tabs, TabItem          \* the stubs helm_values.md creates

(* What the function forms return for the context t they are called with: *)
(* {...t, inlineCode: G}; a fresh {h1: F} without t; and t itself after   *)
(* t.h1 = G.                                                               *)
MCCallFunction(fn, t) ==
    CASE fn = FnExtend -> [inlineCode |-> G] @@ t
      [] fn = FnReplace -> [h1 |-> F]
      [] fn = FnMutate -> [h1 |-> G] @@ t

MCReturnsContext(fn) == fn = FnMutate

(* Components objects: a theme code block, a composite "pre.code" entry, *)
(* an entry for a shortcode name, and a falsy entry.                       *)
RegCode  == [code |-> F]
RegPre   == ("pre.code" :> G) @@ [p |-> F]
RegTabs  == [Tabs |-> F, h1 |-> G]
RegUndef == [code |-> Undef]

(* An entry under the composite key a top-level h1 computes: its           *)
(* parentName is missing, so m looks up "undefined.h1".                    *)
RegUndefinedParent == ("undefined.h1" :> G)

MCRegistriesAll    == {RegCode, RegPre, RegTabs, RegUndef}
MCRegistriesTruthy == {RegCode, RegPre}
MCRegistriesFalsy  == {RegCode, RegUndef}
MCRegistriesTabs   == {RegTabs}
MCRegistriesUndefinedParent == {RegUndefinedParent}
MCFunctionsExtend  == {FnExtend}
MCFunctionsAll     == {FnExtend, FnReplace}
MCFunctionsMutate  == {FnMutate}
MCPageNone         == {Undef}
MCPageCode         == {Undef, RegCode}

(* An mdx(type, props) call of a compiled page: its type, parentName and  *)
(* mdxType.  Each page lists its distinct calls in order of first use.    *)
Host(t, par) == [type |-> t, mdxType |-> Undef, parentName |-> par,
                 components |-> Undef, attrs |-> {}]
Jsx(stub, name, attrs) == [type |-> stub, mdxType |-> name, parentName |-> Undef,
                           components |-> Undef, attrs |-> attrs]

MCPages == {"metrics", "webhooks", "helm_values"}

MCContent ==
    [pg \in MCPages |->
       CASE pg = "metrics" ->
              << Host("h1", Undef), Host("p", Undef), Host("h2", Undef),
                 Host("h3", Undef), Host("h4", Undef), Host("pre", Undef),
                 Host("code", "pre"), Host("inlineCode", "p"),
                 Host("table", Undef), Host("thead", "table"),
                 Host("tr", "thead"), Host("th", "tr"), Host("tbody", "table"),
                 Host("tr", "tbody"), Host("td", "tr") >>
         [] pg = "webhooks" ->
              << Host("h1", Undef), Host("p", Undef), Host("inlineCode", "p"),
                 Host("strong", "p"), Host("table", Undef),
                 Host("thead", "table"), Host("tr", "thead"), Host("th", "tr"),
                 Host("tbody", "table"), Host("tr", "tbody"), Host("td", "tr"),
                 Host("h2", Undef), Host("pre", Undef), Host("code", "pre"),
                 Host("h3", Undef) >>
         [] OTHER ->
              << Host("h1", Undef), Host("p", Undef), Host("a", "p"),
                 Jsx(Tabs, "Tabs", {"groupId"}),
                 Jsx(TabItem, "TabItem", {"value", "label", "default"}),
                 Host("inlineCode", "p"), Host("pre", Undef),
                 Host("code", "pre"), Host("h4", Undef) >> ]

=============================================================================
