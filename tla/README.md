# TLA+ models of the docs site: MDX component resolution, routes, navbar

This directory holds TLA+ models of the code in this repository slice. The
main part is the MDX runtime. It is webpack module 3905, the
`@mdx-js/react` v1 runtime with its Babel helpers. Together with the compiled
MDXContent functions of the docs pages, it is bundled into each page chunk under
`src/assets/js/`. The three chunks (`1dba1ecf…` metrics, `39c35b2c…`
webhooks, `e4916fad…` helm_values) carry identical copies of module 3905. Each chunk is
a single minified line, so every map entry points at line 1 of a chunk. The
minified names are kept in the comments (`a`, `o`, `i`, `l`, `s`, `u`, `c`,
`p`, `m`, `d`). The TLA+ definitions use the names the runtime exports
(`useMDXComponents`, `MDXProvider`, `MDXCreateElement`, `mdx`, `DEFAULTS`) or the
Babel helper names (`ownKeys`, `_objectSpread2`, `_objectWithoutProperties`).
The other parts are the generated route table and the configuration of the
docs site, and the navbar scaffold of the `ui` app. Their models keep the
names of the source (`routes`, `baseUrl`, `routeBasePath`, `navbarItems`).

## Inventory

| Component | Code | State | Operations |
|---|---|---|---|
| Property merger | `a` `_defineProperty`, `o` `ownKeys`, `i` `_objectSpread2`, `l` `_objectWithoutProperties`, the for…in copy in `d` | none (pure) | merge sources into a target; copy without listed keys; copy props |
| Scoped override registry | `s = createContext({})`, `u` `useMDXComponents`, `c` `MDXProvider` | the React context stack: one components object per enclosing provider | derive a scope (provider), read it (`useContext`), leave it |
| Element resolver | `p` `DEFAULTS`, `m` `MDXCreateElement`, `d` `mdx` | none beyond the context it reads | create an element, resolve its component, strip bookkeeping props, render |
| Compiled pages | the `MDXContent` function of each chunk (`m`/`h`), `layoutProps`, shortcode stubs (`p("Tabs")`) | none; their `mdx()` calls are fixed | render the wrapper with the page's `components` prop, then every markdown node |
| Routes table | `src/docs/.docusaurus/routes.js` | generated constant, read by the client router | render the location's route (first match; nested docs root) |
| Site configuration | `src/docs/docusaurus.config.js` | constant | places permalinks (`baseUrl`, `routeBasePath`) and navbar links |
| Navbar | `src/ui/src/App.js` | the Nav's selected link; the browser history | click the brand or a link; back/forward |

How they interact: the Docusaurus theme renders the page inside
`MDXProvider` elements. Each provider computes its value with
`useMDXComponents(components)`, which merges the provider's `components` prop
over the enclosing context value. The page's `MDXContent` calls
`mdx("wrapper", {…layoutProps, …props, components, mdxType:"MDXLayout"})`. It
then calls one `mdx(type, props)` for each markdown node, and the compiler sets
`parentName` on each of them. `mdx` sends string types, and types that carry
`mdxType`, to `MDXCreateElement`. `MDXCreateElement` reads the context, merges in
its own `components` prop, and picks the component as
`mm[parentName.mdxType] || mm[mdxType] || DEFAULTS[mdxType] || originalType`.
It strips `components`, `mdxType`, `originalType` and `parentName`, then renders
the component with the remaining props (plus `components` again when one was
given).

What is hard here: rendering is synchronous and single-threaded, so there is
no concurrency, crash or message loss. The hard parts are the **order** of the
resolution tiers and of the merges, the **sequence** of nested providers
(including providers given as functions of the enclosing context), and the
edges of JavaScript semantics: `||` treats falsy entries as absent, a missing
`parentName` is concatenated as `"undefined"`, `for…in` skips symbol keys, and
`_objectSpread2` treats even-numbered sources differently from odd-numbered ones.

The router reads the route table: the theme's Switch renders the first route
whose path matches the location. The docs root `/consul-release-controller/`
is a prefix route that renders its own first matching child, or NotFound. The
navbar of every page links to the doc `index` at `baseUrl` + `routeBasePath`.
`onBrokenLinks: 'throw'` asks that no link of the built site lead to
NotFound. The `ui` app is separate: its navbar anchors only change the URL
fragment.

Properties each component needs (spec.md sections 3, 4, 8):

- merger: result = spec `merge`/`omit`; non-enumerable entries dropped;
  enumerable symbol entries kept.
- registry: a derived scope keeps every key of its parent, and a component
  an enclosing scope registered stays found; lookup gives the nearest
  definition; no scope in use is changed.
- resolver: explicit override, then composite key, then bare tag, then
  default; resolution never fails.
- pages: every element, stub output included, resolves.
- routes: the first match is the most specific route; links the site renders
  and the docs it built are routed.

## Modules

- `MDXRuntime.tla` models the registry, the resolver and the pages.
  - Variables: context values are objects. `heap` maps each object to its
    entries; object 0 is the `createContext({})` default shared by every
    render. `ctx` is the stack of objects the providers pass down. `page` is
    the page being rendered: its `components` prop, the index of its next
    node, and whether a shortcode stub's output is still to render. `last`
    is the last element rendered (request, component, props passed).
  - Actions: `MDXProvider(C)` models `c`. Its value is a new object, or the
    enclosing object itself when `u` returns `t` (falsy `components`, or a
    function that returns its argument); then the entries are written in
    place. `LeaveProvider` is the end of the provider's subtree.
    `MDXContent(pg, C)` models the page function rendering its wrapper.
    `RenderChild` renders the page's next `mdx()` call. `RenderStub` runs a
    shortcode stub of helm_values, which warns and renders `mdx("div", n)`
    before the next sibling. React renders that element in turn, and would
    run a stub again if it resolved to one. `FinishPage` ends the page.
  - Operators: `useMDXComponents`, `ResolveComponent`, `MDXCreateElement`,
    `mdx` and `DEFAULTS` model `u`, the lookup chain in `m`, `m`, `d` and `p`.
  - Data: a props object is its four bookkeeping keys plus the set of its
    other keys. A registry is a TLA+ function from property names (strings)
    to implementations. A composite key is built with string `\o`, as the code
    builds it with `concat`, so a missing parent gives `"undefined.tag"`.
- `ComponentScopes.tla` is the abstract specification from spec.md 4.2–4.3. A
  scope is a chain of additions, and lookup is the nearest definition.
  Resolution runs explicit → composite → bare → built-in default. The
  constants `CompositeKey` and `BuiltinDefault` are supplied by the refinement
  mapping.
- `MC_MDXRuntime.tla` supplies the model values. It has two custom components,
  three function-form `components` props (one extends the context, one
  replaces it, one assigns into it and returns it) and five components
  objects: a code-block override, a composite
  `pre.code` entry, an override of the `Tabs` shortcode, a falsy entry, and
  an entry under `"undefined.h1"`. It
  also supplies the three pages' `mdx()` calls, taken from the chunks: each
  page lists every distinct (type, parentName, mdxType) call of its chunk,
  tables included, in order of first use. Repeating an identical call under the same context gives the same
  result, so the duplicates add nothing.
- `PropertyMerge.tla` models the Babel object helpers as operators over
  objects. An object maps each own key (a string or a symbol) to its value and
  its enumerable flag. It also models the props objects each call site builds:
  `MergedComponents` (`u`), `ComponentProps` (`m`) and `MdxProps` (`d`).
- `MergeCalls.tla` makes one call per behaviour (`UseMDXComponentsCall`,
  `MDXCreateElementCall`, `MdxCall`) from any input objects. It compares the
  result with reference definitions of spec 4.1's `merge` and `omit`
  (`SpecMerge` is a `FoldLeft`). `MC_MergeCalls.tla` supplies the keys.
- `SiteRoutes.tla` models `routes.js`, the routing settings of
  `docusaurus.config.js` and the doc metadata of the chunks. A path is its
  sequence of segments. `Render` is react-router-config's `renderRoutes`
  with the docs root's NotFound fallback; it is library behaviour, so it is
  not in the map. The visitor opens any path (`Init`) and then follows the
  navbar's brand or doc link (`FollowLink`). `MC_SiteRoutes.tla` supplies the
  segments.
- `AppNavbar.tla` models `App.js`. The variables are the browser history of
  fragments, the current entry, and the Nav's `activeKey`. The actions are
  `ClickBrand`, `ClickNavLink(i)`, `Back` and `Forward`. The Nav is
  uncontrolled, so a link click stores the link's eventKey (its href). The
  Brand is outside the Nav.

## Runs

| Run | cfg | Expect | What it shows |
|---|---|---|---|
| runtime | `MC_MDXRuntime.cfg` | pass | Providers at depth ≤ 3 with any of the objects (falsy entry included) or the extending function, and pages rendered with or without `components`. Every provider keeps its parent's keys, and no step changes a context object in use. Every element, stub output included, resolves to some component. |
| refines | `MC_MDXRuntime_refines.cfg` | pass | With truthy objects and no shortcode override, the runtime implements `ComponentScopes` under the mapping chain ← the entries of `ctx`'s objects and resolved ← `last`. |
| undefined_parent | `MC_MDXRuntime_undefined.cfg` | violation | An entry under `"undefined.h1"` renders every top-level h1, a composite lookup the abstract spec never makes for an element without a parent. |
| context_mutation | `MC_MDXRuntime_mutate.cfg` | violation | A function-form `components` receives the live context object. Assigning into it changes the shared `createContext` default. |
| falsy_entry | `MC_MDXRuntime_falsy.cfg` | violation | A nested provider given `{code: undefined}` under one given `{code: F}` makes `code` absent in the nested scope: `u`'s spread copies the falsy entry over `F`, and `m`'s `||` chain skips it. Spec 4.2/8 keep the parent's lookup, and spec 7 makes the entry a ConfigurationError. No page or config of this repository passes such an object, so the run shows what the runtime would do with one. |
| function_scope | `MC_MDXRuntime_fnscope.cfg` | violation | A provider whose `components` is a function of the context can drop the enclosing providers' entries. |
| merge | `MC_MergeCalls.cfg` | pass | Over all objects on {`id`, `components`, one symbol}, with values defined or not and enumerable or not: `u`'s merge equals spec `merge`, and `m`'s props equal spec `omit` plus ref/components. |
| symbols | `MC_MergeCalls_symbols.cfg` | violation | An enumerable symbol-keyed prop given to `mdx()` never reaches the component (`for…in` skips symbols). |
| routes | `MC_SiteRoutes.cfg` | pass | For every path of up to five segments, the first route of `routes.js` that matches is the most specific one. The navbar's brand and doc links render a page. |
| permalinks | `MC_SiteRoutes_permalinks.cfg` | violation | `/consul-release-controller/metrics` and the other built docs and their pagination targets render NotFound. `routes.js` has only the index doc. |
| app_navbar | `AppNavbar.cfg` | pass | Over any clicks and back/forward moves within four history entries, the Nav's selection is one of its links and the history stays within its bound. |

Bounds:
- Three nested providers: two is the smallest depth at which inheritance
  and shadowing between providers can be seen, and a third lets a provider
  derive from a scope that was itself derived (or aliased). With the page's
  own `components` there is a fourth level. The violation and refinement
  runs use two, which is enough for each of their traces.
- Two custom components tell "the override" apart from "another override".
- The route harness opens every path of up to five segments over the eight
  segments the routes use (plus one no route names). Five is one more than
  the longest route path, so paths below every exact route are included.
- Four history entries let the visitor click three different anchors and
  go back over them.
- The merge harness enumerates all 125 objects on three keys. That covers a
  string key, a reserved key and a symbol, each enumerable or not, with a
  value that is defined or not.

Fairness: none is assumed. Rendering a page is one synchronous call, so
its completion holds by the finiteness of each page's calls and the stubs'
`div` output; a liveness property would say nothing about the code. The
visitor's clicks and navigation are not bound to happen.

## Plan

1. (done) `MDXRuntime` with the abstract `ComponentScopes` and the refinement.
2. (done) `PropertyMerge`/`MergeCalls`: the helpers against spec merge/omit.
3. (done) Shortcode stubs. The `"undefined."` key, context mutation and
   `MDXLayout` hazards. `SiteRoutes` and `AppNavbar`.
4. (done) The navbar brand link.
5. (done) Properties that only restated a definition were removed: the
   stripped bookkeeping keys, the wrapper's key, the children's scope,
   render completion, and the navbar's selection step. The explicit-override
   and forwarded-`components` runs were removed: the overridden component
   was the shortcode stub, which a provider entry is meant to replace, and
   forwarding `components` is how MDX v1 hands the layout its components.
   They were replaced by the falsy-entry run, and the runtime run was
   raised to three providers.
6. Closed: a separate `_objectSpread2` run with an even-numbered source that
   has non-enumerable properties. The merge run already goes through the
   even-numbered path in its `omit` comparison: `m`'s second source
   `{components: n}` takes it (the `u` comparison uses odd positions only). That
   source is always a literal, so it has no non-enumerable property, and no
   call site in the repository can pass one.

## Not modelled

- The settings of `docusaurus.config.js` other than `baseUrl`,
  `routeBasePath`, the navbar brand and items and `onBrokenLinks`: tagline,
  favicon, organization and project names, edit URL, theme and prism
  settings. They are presentation data. The organization and project
  names are read only by `docusaurus deploy`. `url` and `editUrl` only make
  links that leave the site. Neither deployment nor those links run code
  of this repository, so nothing of them can be checked here. With these
  left out, the configuration is "partly" modelled. The settings that
  decide where a page or a link lands are all modelled.
- The router's own matching (path-to-regexp: parameters, case, escaping).
  No route here has parameters, so segment equality and prefix are what it
  computes.
- The console warning of a shortcode stub, and the page styling.
- React's own rendering (reconciliation, refs, `forwardRef`) is out of scope.
  A ref is carried only as the key `ref`.
- Page metadata exports (`frontMatter`, `toc`, `metadata`) are data. Only each
  doc's slug and its previous/next permalinks are used, by `SiteRoutes`.
- A page's `components` prop given as a function. The docs theme passes
  none, and the model assumes it is not a function.
- Markdown text and attribute values are left out. Props are abstracted to
  their keys, except for the bookkeeping keys.
