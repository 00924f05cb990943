------------------------------ MODULE MCBundler ------------------------------
(***************************************************************************)
(* Cases for Bundler: one import under every combination of a shell and    *)
(* .env files, every kind of file under every setting, and files of one    *)
(* name in several folders and dialects in every kind of project.          *)
(***************************************************************************)
EXTENDS Bundler

MCNames == {"PUBLIC_URL", "REACT_APP_TITLE", "SECRET", "NODE_PATH", "GENERATE_SOURCEMAP",
            "INLINE_RUNTIME_CHUNK", "WDS_SOCKET_HOST"}

MCRefersTo == [v \in {"$REACT_APP_TITLE", "$SECRET"} |->
                 IF v = "$SECRET" THEN "SECRET" ELSE "REACT_APP_TITLE"]

MCFoldersIn == [v \in {"src", ".:lib", "src::/usr/lib"} |->
                  CASE v = "src" -> <<"src">>
                    [] v = ".:lib" -> <<".", "lib">>
                    [] OTHER -> <<"src", "", "/usr/lib">>]

Nothing == [x \in MCNames |-> Unset]
Sets(x, v) == [Nothing EXCEPT ![x] = v]
NoFiles == [f \in Files |-> Nothing]

NoProject == [tsconfig |-> NoFile, jsconfig |-> NoFile]

Projects ==
  {NoProject, [tsconfig |-> ".", jsconfig |-> "."]}
  \cup {[tsconfig |-> NoFile, jsconfig |-> b] :
          b \in {NoBaseUrl, "", ".", "src", "./src", "node_modules", "lib"}}
  \cup {[tsconfig |-> b, jsconfig |-> NoFile] : b \in {NoBaseUrl, ".", "src"}}

Import(via, ext) == [via |-> via, ext |-> ext]
In(dir, ext) == [dir |-> dir, ext |-> ext]

Case(s, sh, f, p, d, r) ==
  [script |-> s, shell |-> sh, files |-> f, project |-> p, disk |-> d, request |-> r]

-----------------------------------------------------------------------------

Shells ==
  {Nothing,
   [Sets("PUBLIC_URL", ".") EXCEPT !["WDS_SOCKET_HOST"] = "h0"],
   [Sets("SECRET", "s0") EXCEPT !["NODE_PATH"] = ".:lib"]}

Contents ==
  {Nothing,
   Sets("PUBLIC_URL", "/app"),
   [Sets("PUBLIC_URL", "https://cdn.org/app") EXCEPT !["GENERATE_SOURCEMAP"] = "false"],
   [Sets("REACT_APP_TITLE", "$SECRET") EXCEPT !["WDS_SOCKET_HOST"] = "h1"],
   [Sets("SECRET", "s1") EXCEPT !["NODE_PATH"] = "src::/usr/lib"],
   [Sets("PUBLIC_URL", "$REACT_APP_TITLE") EXCEPT !["REACT_APP_TITLE"] = "/app"],
   [Sets("REACT_APP_TITLE", "$SECRET") EXCEPT !["SECRET"] = "$REACT_APP_TITLE"]}

\* At least one of the four files is not there.
ThreeFiles == {f \in [Files -> Contents] : \E x \in Files : f[x] = Nothing}

OfSettings ==
  {Case(s, sh, f, NoProject, {In("src", "scss")},
        Import(IF s = "build" THEN "relative" ELSE "bare", "scss")) :
     s \in Scripts, sh \in Shells, f \in ThreeFiles}

Extensions == {"js", "mjs", "jsx", "ts", "css", "module.css", "scss", "module.scss", "png", "svg",
               "json", "html"}

Builds ==
  {[Sets("PUBLIC_URL", u) EXCEPT !["GENERATE_SOURCEMAP"] = g, !["INLINE_RUNTIME_CHUNK"] = i] :
     u \in {Unset, ".", "/app"}, g \in {Unset, "false"}, i \in {Unset, "false"}}

OfKinds ==
  {Case(s, sh, NoFiles, NoProject, {In("src", x)}, Import("relative", x)) :
     s \in {"build", "start"}, sh \in Builds, x \in Extensions}

Candidates == {In("src", "js"), In("src", "ts"), In("src", "jsx"), In("node_modules", "js"),
               In("node_modules", "ts"), In("lib", "js")}

OfNames ==
  {Case(s, Sets("NODE_PATH", n), NoFiles, p, d, Import(via, "")) :
     s \in {"build", "start"}, n \in {Unset, "src", ".:lib"}, p \in Projects,
     d \in SUBSET Candidates, via \in {"entry", "relative", "bare", "src/"}}

MCCases == OfSettings \cup OfKinds \cup OfNames

=============================================================================
