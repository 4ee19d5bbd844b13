---------------------------- MODULE MC_SiteRoutes ----------------------------
(***************************************************************************)
(* Paths for checking SiteRoutes: the segments of the routes' own paths,  *)
(* a doc slug and one segment no route names, up to the length of the     *)
(* debug routes plus one.                                                  *)
(***************************************************************************)
EXTENDS SiteRoutes

MCSegments == {"consul-release-controller", "__docusaurus", "debug", "config",
               "routes", "markdown-page", "metrics", "x"}

=============================================================================
