----------------------------- MODULE MCWebRoutes -----------------------------
(***************************************************************************)
(* Every path that a stage knows and one that none does, navigated to and  *)
(* fetched.                                                                *)
(***************************************************************************)
EXTENDS WebRoutes

MCPaths == {"/", "/index.html", "/index.json", "/status", "/panic", "/rails/copy", "/service-worker.js",
            "/favicon.ico", "/calendar"} \cup Bundled

MCRequests ==
  [method : {"GET", "POST"}, path : MCPaths, accept : {"text/html", "*/*", "application/json"},
   mode : {"navigate", "fetch"}]

=============================================================================
