------------------------------ MODULE SiteRoutes ------------------------------
(***************************************************************************)
(* The docs site's route table (src/docs/.docusaurus/routes.js), the      *)
(* settings of src/docs/docusaurus.config.js that place pages and links   *)
(* under it, and the doc metadata the built page chunks carry.            *)
(*                                                                         *)
(* The client router renders the table with react-router-config's         *)
(* renderRoutes: a Switch renders the FIRST route whose path matches the  *)
(* location (exact: the whole path; otherwise a prefix, segment by        *)
(* segment, a trailing slash ignored).  A route with child routes is the  *)
(* docs root (DocPage), which renders its first matching child, or the    *)
(* NotFound page when none matches.                                        *)
(*                                                                         *)
(* A path is its sequence of segments: "/consul-release-controller/" is  *)
(* <<"consul-release-controller">>; the catch-all "*" is kept as "*".     *)
(***************************************************************************)
EXTENDS Integers, Sequences, SequencesExt

CONSTANTS
    Segments,       \* path segments a visited path is made of
    MaxPathLength   \* bound on the number of segments of a visited path

VARIABLES
    location,   \* the path the browser shows
    via         \* how it was reached: "typed" (opened directly) or "link"

vars == <<location, via>>

NotFound == "NotFound"   \* ComponentCreator('*'): the theme's NotFound page

(***************************************************************************)
(* docusaurus.config.js                                                    *)
(***************************************************************************)
\* Mutation: the site is configured for the domain root.
baseUrlRoot == <<>>

\* baseUrl: '/consul-release-controller/'.
baseUrl == <<"consul-release-controller">>

\* presets docs.routeBasePath: '/'.
routeBasePath == <<>>

\* A doc's permalink: baseUrl, routeBasePath, then the doc's slug.
DocPermalink(slug) == baseUrl \o routeBasePath \o slug

\* themeConfig.navbar title and logo: the navbar brand, which links to the
\* site's root, baseUrl (logo.href is not given).
navbarBrand == [to |-> baseUrl, title |-> "Consul Release Controller"]

\* themeConfig.navbar.items: a doc item for docId 'index' (slug "/"), and
\* an href to GitHub, which leaves the site.
navbarItems ==
    << [type |-> "doc", to |-> DocPermalink(<<>>), label |-> "Getting Started"],
       [type |-> "href", to |-> "external", label |-> "GitHub"] >>

(***************************************************************************)
(* routes.js                                                               *)
(***************************************************************************)
Leaf(path, id) == [path |-> path, component |-> id, exact |-> TRUE, routes |-> <<>>]

Debug(sub) == <<"consul-release-controller", "__docusaurus", "debug">> \o sub

DocsRoot ==
    [path |-> <<"consul-release-controller">>, component |-> "618", exact |-> FALSE,
     routes |-> << Leaf(<<"consul-release-controller">>, "44b") >>]

CatchAll == [path |-> "*", component |-> NotFound, exact |-> FALSE, routes |-> <<>>]

\* Mutation: the docs root is listed before the debug routes.
routesRootFirst ==
    << DocsRoot,
       Leaf(Debug(<<>>), "261"), Leaf(Debug(<<"config">>), "fec"),
       Leaf(Debug(<<"content">>), "064"), Leaf(Debug(<<"globalData">>), "b7e"),
       Leaf(Debug(<<"metadata">>), "ec0"), Leaf(Debug(<<"registry">>), "68e"),
       Leaf(Debug(<<"routes">>), "958"),
       Leaf(<<"consul-release-controller", "markdown-page">>, "9a5"),
       CatchAll >>

\* The exported table, in its order.
routes ==
    << Leaf(Debug(<<>>), "261"), Leaf(Debug(<<"config">>), "fec"),
       Leaf(Debug(<<"content">>), "064"), Leaf(Debug(<<"globalData">>), "b7e"),
       Leaf(Debug(<<"metadata">>), "ec0"), Leaf(Debug(<<"registry">>), "68e"),
       Leaf(Debug(<<"routes">>), "958"),
       Leaf(<<"consul-release-controller", "markdown-page">>, "9a5"),
       DocsRoot,
       CatchAll >>

(***************************************************************************)
(* Doc metadata of the built page chunks (src/assets/js): each doc's      *)
(* slug and the permalinks of its previous and next docs.                 *)
(***************************************************************************)
\* metrics.md (chunk 1dba1ecf): previous webhooks, no next doc.
DocMetrics ==
    [id |-> "metrics", slug |-> <<"metrics">>,
     links |-> {<<"consul-release-controller", "webhooks">>}]

\* webhooks.md (chunk 39c35b2c): previous post_deployment_test, next metrics.
DocWebhooks ==
    [id |-> "webhooks", slug |-> <<"webhooks">>,
     links |-> {<<"consul-release-controller", "post_deployment_test">>,
                <<"consul-release-controller", "metrics">>}]

\* helm_values.md (chunk e4916fad): previous example_app, next prerequisites.
DocHelmValues ==
    [id |-> "helm_values", slug |-> <<"helm_values">>,
     links |-> {<<"consul-release-controller", "example_app">>,
                <<"consul-release-controller", "prerequisites">>}]

DocPages == {DocMetrics, DocWebhooks, DocHelmValues}

(***************************************************************************)
(* The router (react-router matchPath, Switch, DocPage).                   *)
(***************************************************************************)
Matches(r, url) ==
    \/ r.path = "*"
    \/ r.exact /\ url = r.path
    \/ ~r.exact /\ IsPrefix(r.path, url)

\* Switch: the index of the first matching route, 0 when none matches.
FirstMatch(rs, url) ==
    IF \E i \in 1..Len(rs) : Matches(rs[i], url)
    THEN CHOOSE i \in 1..Len(rs) : Matches(rs[i], url)
                                   /\ \A j \in 1..i - 1 : ~Matches(rs[j], url)
    ELSE 0

\* The components renderRoutes(rs) renders for url, outermost first.  A
\* route with children renders its first matching child, or NotFound.
RECURSIVE Render(_, _)
Render(rs, url) ==
    LET i == FirstMatch(rs, url)
    IN IF i = 0 THEN <<>>
       ELSE <<rs[i].component>> \o
            IF rs[i].routes = <<>> THEN <<>>
            ELSE LET inner == Render(rs[i].routes, url)
                 IN IF inner = <<>> THEN <<NotFound>> ELSE inner

Rendered == Render(routes, location)

\* Every page of the theme renders the navbar; its brand and its doc items
\* are the links that stay on the site.
SiteLinks == {navbarBrand.to}
             \cup {navbarItems[i].to : i \in {j \in 1..Len(navbarItems) :
                                                 navbarItems[j].type = "doc"}}

(***************************************************************************)
(* Navigation.                                                             *)
(***************************************************************************)
\* Paths a visitor may type: every sequence of at most MaxPathLength
\* segments.
Urls == UNION {[1..n -> Segments] : n \in 0..MaxPathLength}

\* The visitor opens some path directly.
Init ==
    /\ location \in Urls
    /\ via = "typed"

\* The visitor follows a link of the rendered page.
FollowLink(url) ==
    /\ url \in SiteLinks
    /\ location' = url
    /\ via' = "link"

Next == \E url \in SiteLinks : FollowLink(url)

Spec == Init /\ [][Next]_vars

(***************************************************************************)
(* Properties.                                                             *)
(***************************************************************************)
\* The route table's order is sound for the Switch that renders it: the
\* first route matching a location is the most specific one, the longest
\* matching path, with an exact route before a prefix route of the same
\* path, and the catch-all only when nothing else matches.
MostSpecific(url) ==
    LET m == {i \in 1..Len(routes) : Matches(routes[i], url) /\ routes[i].path # "*"}
        len(i) == Len(routes[i].path)
    IN IF m = {} THEN CatchAll
       ELSE routes[CHOOSE i \in m : \A j \in m : len(j) < len(i)
                                       \/ (len(j) = len(i) /\ (routes[i].exact \/ ~routes[j].exact))]

FirstMatchMostSpecific == Rendered[1] = MostSpecific(location).component

\* onBrokenLinks: 'throw': a link the site renders never leads to the
\* NotFound page.  Following the navbar's doc item renders a page.
SiteLinksResolve ==
    via = "link" => \A i \in 1..Len(Rendered) : Rendered[i] # NotFound

\* onBrokenLinks: 'throw': every doc the build emitted is routed, and so
\* is every doc its pagination links to: opening one renders a page.
DocUrls == {DocPermalink(d.slug) : d \in DocPages} \cup UNION {d.links : d \in DocPages}

PermalinksRouted ==
    location \in DocUrls => \A i \in 1..Len(Rendered) : Rendered[i] # NotFound

=============================================================================
