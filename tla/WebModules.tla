------------------------------ MODULE WebModules ------------------------------
(***************************************************************************)
(* web/config/modules.js and the resolution in web/config/paths.js: where  *)
(* the web client's absolute imports may be found, by the baseUrl of       *)
(* tsconfig.json or jsconfig.json or else by NODE_PATH, and which of       *)
(* several files with one name is meant.                                   *)
(*                                                                         *)
(* A folder is named by its path from the root of the app.                 *)
(***************************************************************************)
EXTENDS Naturals, Sequences, SequencesExt

\* A configuration file that is not there, and one that has no baseUrl.
NoFile == "no file"
NoBaseUrl == "no baseUrl"

\* path.resolve(paths.appPath, folder).
resolve(folder) ==
  CASE folder \in {"", ".", "./"} -> "."
    [] folder \in {"src", "./src"} -> "src"
    [] folder \in {"node_modules", "./node_modules"} -> "node_modules"
    [] OTHER -> folder

Paths(p) == [throws |-> FALSE, paths |-> p]
Throws == [throws |-> TRUE, paths |-> <<>>]

\* No path at all is the same to webpack.config.js as an empty list of them.  NODE_PATH
\* counts when there is no baseUrl, and every folder but two of the app is refused.
getAdditionalModulePaths(baseUrl, nodePath) ==
  IF baseUrl = NoBaseUrl THEN Paths(nodePath)
  ELSE CASE resolve(baseUrl) = "node_modules" -> Paths(<<>>)
         [] resolve(baseUrl) = "src" -> Paths(<<"src">>)
         [] resolve(baseUrl) = "." -> Paths(<<>>)
         [] OTHER -> Throws

\* An empty baseUrl is no baseUrl here.
HasBaseUrl(baseUrl) == baseUrl \notin {NoBaseUrl, ""}

getWebpackAliases(baseUrl) ==
  IF HasBaseUrl(baseUrl) /\ resolve(baseUrl) = "." THEN {"src"} ELSE {}

getJestAliases(baseUrl) ==
  IF HasBaseUrl(baseUrl) /\ resolve(baseUrl) = "." THEN {"src"} ELSE {}

\* tsconfig and jsconfig are each NoFile or the baseUrl in the file.
getModules(tsconfig, jsconfig, nodePath) ==
  LET baseUrl == IF tsconfig # NoFile THEN tsconfig
                 ELSE IF jsconfig # NoFile THEN jsconfig
                 ELSE NoBaseUrl
      additional == getAdditionalModulePaths(baseUrl, nodePath)
  IN [throws |-> (tsconfig # NoFile /\ jsconfig # NoFile) \/ additional.throws,
      additionalModulePaths |-> additional.paths,
      webpackAliases |-> getWebpackAliases(baseUrl),
      jestAliases |-> getJestAliases(baseUrl),
      hasTsConfig |-> tsconfig # NoFile]

-----------------------------------------------------------------------------

moduleFileExtensions ==
  <<"web.mjs", "mjs", "web.js", "js", "web.ts", "ts", "web.tsx", "tsx", "json", "web.jsx", "jsx">>

TsExtensions == {"web.ts", "ts", "web.tsx", "tsx"}

\* The first extension of the list for which there is a file; js if there is none.
FirstOf(list, found) ==
  LET first == SelectInSeq(list, LAMBDA x : x \in found)
  IN IF first = 0 THEN "js" ELSE list[first]

\* paths.js: found are the extensions of the files with the name.
resolveModule(found) == FirstOf(moduleFileExtensions, found)

\* webpack.config.js: without a tsconfig.json, webpack does not look for TypeScript.
extensions(useTypeScript) ==
  SelectSeq(moduleFileExtensions, LAMBDA x : useTypeScript \/ x \notin TsExtensions)

=============================================================================
