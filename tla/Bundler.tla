------------------------------- MODULE Bundler -------------------------------
(***************************************************************************)
(* web/config/webpack.config.js: how a module that the client imports is   *)
(* found, which loaders it goes through, and what a build emits of it.     *)
(*                                                                         *)
(* A loader takes what the loader to its right has made of the file.  The  *)
(* configuration chooses loaders and options by mode and by settings; what *)
(* each loader reads and gives is the loader's own.                        *)
(***************************************************************************)
EXTENDS WebEnv

CONSTANTS
  Cases              \* the scripts and machines, the files of the app, what its code imports

ASSUME BundlerAssumption ==
  \A c \in Cases :
    /\ c.script \in Scripts
    /\ Setting(c.shell) /\ \A x \in Names : ~IsRef(c.shell[x])
    /\ DOMAIN c.files = Files /\ \A f \in Files : Setting(c.files[f])
    /\ c.request.via \in {"entry", "relative", "bare", "src/"}

VARIABLES
  world,             \* the files, and the import that is bundled
  file,              \* the file that the import means
  loaders,           \* the loaders it has still to go through, the last one first
  applied,           \* the loaders it has been through, the first one first
  content,           \* what has become of it
  output             \* what the build emits for the page

bundleVars == <<world, file, loaders, applied, content, output>>

vars == <<envVars, pc, bundleVars>>

isEnvDevelopment == script = "start"
isEnvProduction == script = "build"
shouldUseSourceMap == env["GENERATE_SOURCEMAP"] # "false"
shouldInlineRuntimeChunk == env["INLINE_RUNTIME_CHUNK"] # "false"

useTypeScript == modules.hasTsConfig

NoModule == [dir |-> "none", ext |-> "none"]
NoContent == [kind |-> "none", map |-> FALSE]

Init ==
  /\ \E c \in Cases : EnvInit(c) /\ world = [disk |-> c.disk, request |-> c.request]
  /\ file = NoModule
  /\ loaders = <<>>
  /\ applied = <<>>
  /\ content = NoContent
  /\ output = [html |-> {}, files |-> {}, precached |-> {}, cssPublicPath |-> ""]

-----------------------------------------------------------------------------
(* resolve *)

\* Mutant: the additional paths come first.
SearchAdditionalFirst(via) ==
  CASE via \in {"entry", "relative"} -> <<"src">>
    [] via = "bare" -> modules.additionalModulePaths \o <<"node_modules", "node_modules">>
    [] via = "src/" -> IF "src" \in modules.webpackAliases THEN <<"src">> ELSE <<>>

\* Where an import of the app's code is looked for: "src/" is a folder of the app if there
\* is an alias, or if the root of the app is among the additional paths.
Searched(via) ==
  CASE via \in {"entry", "relative"} -> <<"src">>
    [] via = "bare" -> <<"node_modules", "node_modules">> \o modules.additionalModulePaths
    [] via = "src/" -> IF \/ "src" \in modules.webpackAliases
                          \/ "." \in Range(modules.additionalModulePaths)
                       THEN <<"src">> ELSE <<>>

\* The extensions that may be meant in a folder: of an import with one or without, and of the
\* entry, which paths.js looks for.
Found(dir) ==
  LET there == {f.ext : f \in {g \in world.disk : g.dir = dir}} IN
  IF world.request.via = "entry" THEN there \cap {resolveModule(there)}
  ELSE IF world.request.ext = "" THEN there \cap Range(extensions(useTypeScript))
  ELSE there \cap {world.request.ext}

Extension(dir) ==
  IF world.request.via = "entry" THEN resolveModule(Found(dir))
  ELSE IF world.request.ext = "" THEN FirstOf(extensions(useTypeScript), Found(dir))
  ELSE world.request.ext

Resolve ==
  LET folders == Searched(world.request.via)
      first == SelectInSeq(folders, LAMBDA d : Found(d) # {})
      found == [dir |-> folders[first], ext |-> Extension(folders[first])]
  IN
  /\ pc = "resolve"
  /\ IF first = 0 THEN pc' = "module not found" /\ UNCHANGED file
     \* ModuleScopePlugin
     ELSE IF found.dir \notin {"src", "node_modules"} THEN pc' = "outside of src" /\ UNCHANGED file
     ELSE pc' = "match" /\ file' = found
  /\ UNCHANGED <<envVars, world, loaders, applied, content, output>>

-----------------------------------------------------------------------------
(* module.rules *)

\* The extensions that the tests of the rules match; web.js is a js file to them.
PlainJs == {"js", "mjs", "web.js", "web.mjs"}
JsExtensions == PlainJs \cup {"jsx", "ts", "tsx", "web.jsx", "web.ts", "web.tsx"}
Images == {"png"}

cssRegex(ext) == ext \in {"css", "module.css"}

cssModuleRegex(ext) == ext = "module.css"
sassRegex(ext) == ext \in {"scss", "module.scss"}
sassModuleRegex(ext) == ext = "module.scss"

Option(loader) == [loader |-> loader, importLoaders |-> 0, modules |-> FALSE, sourceMap |-> FALSE]

\* Mutant: the options of the rules for CSS, copied to those for SASS.
cssLoaderOfCss(importLoaders, local) ==
  [Option("css-loader") EXCEPT !.importLoaders = 1, !.modules = local,
                               !.sourceMap = isEnvProduction /\ shouldUseSourceMap]

cssLoader(importLoaders, local) ==
  [Option("css-loader") EXCEPT !.importLoaders = importLoaders, !.modules = local,
                               !.sourceMap = isEnvProduction /\ shouldUseSourceMap]

\* Mutant: the preprocessor makes a source map only where one is wanted.
getStyleLoadersSparing(css, preProcessor) ==
  LET maps == isEnvProduction /\ shouldUseSourceMap IN
  (IF isEnvDevelopment THEN <<Option("style-loader")>> ELSE <<Option("mini-css-extract")>>)
  \o <<css, [Option("postcss-loader") EXCEPT !.sourceMap = maps]>>
  \o (IF preProcessor = "" THEN <<>>
      ELSE <<[Option("resolve-url-loader") EXCEPT !.sourceMap = maps],
             [Option(preProcessor) EXCEPT !.sourceMap = maps]>>)

getStyleLoaders(css, preProcessor) ==
  LET maps == isEnvProduction /\ shouldUseSourceMap IN
  (IF isEnvDevelopment THEN <<Option("style-loader")>> ELSE <<Option("mini-css-extract")>>)
  \o <<css, [Option("postcss-loader") EXCEPT !.sourceMap = maps]>>
  \o (IF preProcessor = "" THEN <<>>
      ELSE <<[Option("resolve-url-loader") EXCEPT !.sourceMap = maps],
             [Option(preProcessor) EXCEPT !.sourceMap = TRUE]>>)

Rule(matches, use) == [matches |-> matches, use |-> use]

\* oneOf.  What no rule matches is left to webpack itself: json, html, and the dialects of
\* JavaScript outside of src.
rules(f) ==
  LET inSrc == f.dir = "src" IN
  <<Rule(f.ext \in Images, <<Option("url-loader")>>),
    Rule(f.ext \in JsExtensions /\ inSrc, <<Option("babel-loader: app")>>),
    Rule(f.ext \in PlainJs, <<Option("babel-loader: dependencies")>>),
    Rule(cssRegex(f.ext) /\ ~cssModuleRegex(f.ext), getStyleLoaders(cssLoader(1, FALSE), "")),
    Rule(cssModuleRegex(f.ext), getStyleLoaders(cssLoader(1, TRUE), "")),
    Rule(sassRegex(f.ext) /\ ~sassModuleRegex(f.ext),
         getStyleLoaders(cssLoader(3, FALSE), "sass-loader")),
    Rule(sassModuleRegex(f.ext), getStyleLoaders(cssLoader(3, TRUE), "sass-loader")),
    Rule(f.ext \notin JsExtensions \cup {"html", "json"}, <<Option("file-loader")>>)>>

\* The linter reads the app's own files, before all other loaders.
pre(f) ==
  IF f.ext \in JsExtensions /\ f.dir = "src" THEN <<Option("eslint-loader")>> ELSE <<>>

SourceKind(ext) ==
  CASE ext \in PlainJs -> "js"
    [] ext \in JsExtensions \ PlainJs -> "dialect"
    [] cssRegex(ext) -> "css"
    [] sassRegex(ext) -> "scss"
    [] OTHER -> ext

\* Mutant: the rules in the order from the last to the first.
MatchLast ==
  LET last == SelectLastInSeq(rules(file), LAMBDA r : r.matches) IN
  /\ pc = "match"
  /\ pc' = "load"
  /\ loaders' = (IF last = 0 THEN <<>> ELSE rules(file)[last].use) \o pre(file)
  /\ content' = [kind |-> SourceKind(file.ext), map |-> FALSE]
  /\ UNCHANGED <<envVars, world, file, applied, output>>

\* The loaders for f, the last one first to run: those of the first rule that matches.
Uses(f) ==
  LET first == SelectInSeq(rules(f), LAMBDA r : r.matches)
  IN (IF first = 0 THEN <<>> ELSE rules(f)[first].use) \o pre(f)

Match ==
  /\ pc = "match"
  /\ pc' = "load"
  /\ loaders' = Uses(file)
  /\ content' = [kind |-> SourceKind(file.ext), map |-> FALSE]
  /\ UNCHANGED <<envVars, world, file, applied, output>>

-----------------------------------------------------------------------------
(* The loaders themselves: what each reads, and what it gives. *)

Reads(o, c) ==
  CASE o.loader \in {"eslint-loader", "babel-loader: app"} -> c.kind \in {"js", "dialect"}
    [] o.loader = "babel-loader: dependencies" -> c.kind = "js"
    [] o.loader = "sass-loader" -> c.kind = "scss"
    [] o.loader = "resolve-url-loader" -> c.kind = "css" /\ c.map
    [] o.loader \in {"postcss-loader", "css-loader"} -> c.kind = "css"
    [] o.loader \in {"style-loader", "mini-css-extract"} -> c.kind = "style module"
    [] OTHER -> TRUE

Gives(o, c) ==
  CASE o.loader = "eslint-loader" -> c
    [] o.loader \in {"babel-loader: app", "babel-loader: dependencies"} -> [c EXCEPT !.kind = "es5"]
    [] o.loader \in {"sass-loader", "resolve-url-loader", "postcss-loader"} ->
         [kind |-> "css", map |-> o.sourceMap]
    [] o.loader = "css-loader" -> [kind |-> "style module", map |-> o.sourceMap]
    [] o.loader \in {"style-loader", "mini-css-extract"} -> [c EXCEPT !.kind = "es5"]
    [] OTHER -> [kind |-> "url", map |-> FALSE]

RunLoader ==
  /\ pc = "load"
  /\ loaders # <<>>
  /\ IF Reads(Last(loaders), content)
     THEN /\ content' = Gives(Last(loaders), content)
          /\ loaders' = Front(loaders)
          /\ applied' = Append(applied, Last(loaders))
          /\ UNCHANGED pc
     ELSE /\ pc' = "loader failed"
          /\ UNCHANGED <<content, loaders, applied>>
  /\ UNCHANGED <<envVars, world, file, output>>

\* What no loader is left for has to be a module that webpack understands.
Parse ==
  /\ pc = "load"
  /\ loaders = <<>>
  /\ pc' = IF content.kind \in {"es5", "js", "json", "url"} THEN "emit" ELSE "parse failed"
  /\ UNCHANGED <<envVars, world, file, loaders, applied, content, output>>

-----------------------------------------------------------------------------
(* output, optimization and plugins *)

Asset(chunk, type) == [chunk |-> chunk, type |-> type]

\* MiniCssExtractPlugin gathers what its loader has extracted.
Style == {o \in Range(applied) : o.loader = "mini-css-extract"}

Chunks ==
  {Asset("runtime", "js"), Asset("main", "js")}
    \cup (IF Style # {} THEN {Asset("main", "css")} ELSE {})

\* devtool, and the source maps of both minimizers.
Maps ==
  IF isEnvProduction /\ shouldUseSourceMap
  THEN {[a EXCEPT !.type = a.type \o ".map"] : a \in {x \in Chunks : x.type = "js" \/ content.map}}
  ELSE {}

Media == IF content.kind = "url" THEN {Asset("media", "png")} ELSE {}

\* The files of public/ that the template of the page refers to.
FromPublic == {Asset("manifest", "json"), Asset("favicon", "ico")}

\* HtmlWebpackPlugin puts the chunks into the page beside them; InlineChunkHtmlPlugin puts the
\* runtime itself there, and its file is still emitted.
Referenced ==
  FromPublic
    \cup (IF isEnvProduction /\ shouldInlineRuntimeChunk
          THEN Chunks \ {Asset("runtime", "js")} ELSE Chunks)

Page == Asset("index", "html")

EmittedFiles == Chunks \cup Maps \cup Media \cup {Page, Asset("asset-manifest", "json")}

\* Mutant: only the scripts are kept for offline use.
PrecachedScripts == {a \in EmittedFiles : a.type \in {"js", "html"}}

\* GenerateSW.
Precached ==
  {a \in EmittedFiles : a.type \notin {"js.map", "css.map"} /\ a.chunk # "asset-manifest"}

\* A style sheet is in static/css, and a relative public path is not relative to that.
CssPublicPath ==
  IF config = "./" THEN "../../" ELSE config

Emit ==
  /\ pc = "emit"
  /\ pc' = "done"
  /\ output' = [html |-> Referenced, files |-> EmittedFiles,
                precached |-> IF isEnvProduction THEN Precached ELSE {},
                cssPublicPath |-> CssPublicPath]
  /\ UNCHANGED <<envVars, world, file, loaders, applied, content>>

Ended ==
  {"crashed", "jest", "bad configuration", "module not found", "outside of src", "loader failed",
   "parse failed", "done"}

Finished ==
  /\ pc \in Ended
  /\ UNCHANGED vars

Next ==
  \/ EnvStep /\ UNCHANGED bundleVars
  \/ Resolve \/ Match \/ RunLoader \/ Parse \/ Emit
  \/ Finished

Spec == Init /\ [][Next]_vars

-----------------------------------------------------------------------------
(* Properties. *)

InSrc == file.dir = "src"

\* Every loader gets what it reads from the one before it, in both modes and with or
\* without source maps: resolve-url-loader needs a map that nobody may have asked for.
LoadersCompose == pc # "loader failed"

\* The app's own JavaScript, in any dialect, is compiled with the app's presets, after it
\* was linted as it is written.
AppIsCompiled ==
  pc = "done" /\ InSrc /\ file.ext \in JsExtensions =>
    [i \in DOMAIN applied |-> applied[i].loader] = <<"eslint-loader", "babel-loader: app">>

\* A style sheet that another one imports goes through the loaders that have worked on the
\* one that imports it: css-loader is told their number, for each of the four rules.
ImportsAreProcessed ==
  \A i \in DOMAIN applied :
    applied[i].loader = "css-loader" => applied[i].importLoaders = i - 1

\* What is installed wins over what a setting adds.  What is not installed is found only
\* where baseUrl says or, without one, where the strongest source of NODE_PATH does: a
\* shell's NODE_PATH hides that of a file.
NodeModulesWin ==
  file # NoModule /\ world.request.via = "bare" =>
    IF Found("node_modules") # {} THEN file.dir = "node_modules"
    ELSE LET given == ValueOf("NODE_PATH") IN
         \/ {project.tsconfig, project.jsconfig} \cap {"src", "./src"} # {}
         \/ /\ {project.tsconfig, project.jsconfig} \subseteq {NoFile, NoBaseUrl}
            /\ file.dir \in Range(Folders(given))

\* Without a network the page loads and runs: the service worker has the page itself, with
\* every script and style sheet that it refers to and the images that its modules name.
\* The manifest and the icon, which build.js copies from public/, the worker does not have.
BundleIsPrecached ==
  pc = "done" /\ isEnvProduction =>
    (output.html \ FromPublic) \cup Media \cup {Page} \subseteq output.precached

=============================================================================
