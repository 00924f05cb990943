-------------------------------- MODULE WebEnv --------------------------------
(***************************************************************************)
(* How the scripts of the web client get their settings: the shell, the    *)
(* script itself, web/config/env.js with up to four .env files, and then   *)
(* web/config/paths.js and modules.js, of which the first is evaluated     *)
(* before the .env files as well.                                          *)
(*                                                                         *)
(* Modules are evaluated once and cached: what one read from process.env   *)
(* it keeps, though process.env changes until env.js is done.              *)
(***************************************************************************)
EXTENDS WebModules, FiniteSets

CONSTANTS
  Names,             \* the variables that the shell and the files may set
  RefersTo,          \* RefersTo[v]: the variable that value v refers to, as in $NAME
  FoldersIn          \* FoldersIn[v]: the folders between the colons of value v, if it has any

Unset == "unset"

IsRef(v) == v \in DOMAIN RefersTo

ASSUME WebEnvAssumption ==
  /\ IsFiniteSet(Names)
  /\ {"PUBLIC_URL", "REACT_APP_TITLE", "NODE_PATH",
      "GENERATE_SOURCEMAP", "INLINE_RUNTIME_CHUNK"} \subseteq Names
  /\ \A v \in DOMAIN RefersTo : RefersTo[v] \in Names
  /\ ~IsRef(Unset) /\ ~IsRef("") /\ Unset \notin DOMAIN FoldersIn
  /\ \A v \in DOMAIN FoldersIn : FoldersIn[v] \in Seq(STRING)

Scripts == {"build", "start", "test"}

NODE_ENV(s) == CASE s = "build" -> "production"
                 [] s = "start" -> "development"
                 [] s = "test" -> "test"

Files == {".env.MODE.local", ".env.MODE", ".env.local", ".env"}

\* What a shell or a file sets; a file that is not there sets nothing.
Setting(x) == DOMAIN x = Names

VARIABLES
  script,            \* the script that runs
  shell,             \* the variables of the shell that runs it
  files,             \* files[f]: the variables that file f sets
  project,           \* the baseUrl of tsconfig.json and of jsconfig.json
  pc,                \* the step of the script, or why it has ended
  env,               \* process.env
  nodePath,          \* the folders that env.js leaves in NODE_PATH
  todo,              \* the files that env.js has still to read
  cache,             \* the publicUrlOrPath of the cached paths module, or Unset
  config,            \* the publicUrlOrPath that the configurations have
  raw                \* the variables that the client gets

envVars == <<script, shell, files, project, env, nodePath, todo, cache, config, raw>>

EnvInit(c) ==
  /\ script = c.script
  /\ shell = c.shell
  /\ files = c.files
  /\ project = c.project
  /\ pc = "head"
  /\ env = shell
  /\ nodePath = <<>>
  /\ todo = <<>>
  /\ cache = Unset
  /\ config = Unset
  /\ raw = <<>>

-----------------------------------------------------------------------------
(* The scripts' first lines, paths.js and getPublicUrlOrPath. *)

\* test.js clears PUBLIC_URL, which no file sets again.
SetEnv ==
  /\ pc = "head"
  /\ pc' = "env.js"
  /\ env' = IF script = "test" THEN [env EXCEPT !["PUBLIC_URL"] = ""] ELSE env
  /\ UNCHANGED <<script, shell, files, project, nodePath, todo, cache, config, raw>>

\* The trailing slash is always there.  A development server uses the path of a URL, and
\* the root for a relative one.
publicUrlOrPath(mode, url) ==
  CASE url \in {Unset, ""} -> "/"
    [] url = "." -> IF mode = "development" THEN "/" ELSE "./"
    [] url = "https://cdn.org/app" -> IF mode = "development" THEN "/app/" ELSE "https://cdn.org/app/"
    [] OTHER -> "/app/"

\* What require('./paths') gives: a module is evaluated when it is not in the cache.
required == IF cache = Unset THEN publicUrlOrPath(NODE_ENV(script), env["PUBLIC_URL"]) ELSE cache

-----------------------------------------------------------------------------
(* env.js. *)

\* Mutant: .env.local is for everybody.
dotenvFilesOfAll == <<".env.MODE.local", ".env.MODE", ".env.local", ".env">>

dotenvFiles ==
  IF script = "test"
  THEN <<".env.MODE.local", ".env.MODE", ".env">>
  ELSE <<".env.MODE.local", ".env.MODE", ".env.local", ".env">>

\* Mutant: paths.js stays in the cache.
RequireEnvCached ==
  /\ pc = "env.js"
  /\ pc' = "dotenv"
  /\ todo' = dotenvFiles
  /\ cache' = required
  /\ UNCHANGED <<script, shell, files, project, env, nodePath, config, raw>>

\* paths.js is evaluated for the names of the files, and deleted from the cache.
RequireEnv ==
  /\ pc = "env.js"
  /\ pc' = "dotenv"
  /\ todo' = dotenvFiles
  /\ cache' = Unset
  /\ UNCHANGED <<script, shell, files, project, env, nodePath, config, raw>>

\* dotenv: what is set stays as it is.
SetMissing(e, file) == [x \in Names |-> IF e[x] = Unset THEN file[x] ELSE e[x]]

\* dotenv-expand: the value of a reference is what process.env has for it, which may be a
\* reference in turn, and nothing if there is none.
Follow(e, v) ==
  LET after[k \in 0..Cardinality(Names)] ==
        IF k = 0 THEN v
        ELSE LET w == after[k - 1] IN
             IF ~IsRef(w) THEN w
             ELSE IF e[RefersTo[w]] = Unset THEN "" ELSE e[RefersTo[w]]
  IN after

\* What is left of a circle of references is a reference.
Expand(e, v) == Follow(e, v)[Cardinality(Names)]

dotenv(e, file) ==
  LET set == SetMissing(e, file) IN
  [x \in Names |-> IF file[x] = Unset THEN set[x] ELSE Expand(set, set[x])]

\* A circle of references overflows the stack, and the script ends.
LoadFile ==
  /\ pc = "dotenv"
  /\ todo # <<>>
  /\ LET loaded == dotenv(env, files[Head(todo)]) IN
     IF \E x \in Names : IsRef(loaded[x])
     THEN pc' = "crashed" /\ UNCHANGED <<env, todo>>
     ELSE env' = loaded /\ todo' = Tail(todo) /\ UNCHANGED pc
  /\ UNCHANGED <<script, shell, files, project, nodePath, cache, config, raw>>

\* Empty strings between two colons go, and absolute folders, which no name of a folder of
\* the app is.
Honored(folder) == folder \notin {"", "/usr/lib"}

Folders(text) == IF text \in DOMAIN FoldersIn THEN FoldersIn[text] ELSE <<>>

honored(folders) ==
  LET kept[n \in 0..Len(folders)] ==
        IF n = 0 THEN <<>>
        ELSE IF Honored(folders[n]) THEN Append(kept[n - 1], folders[n])
        ELSE kept[n - 1]
  IN kept[Len(folders)]

\* A test has what it needs now.
ResolveNodePath ==
  /\ pc = "dotenv"
  /\ todo = <<>>
  /\ pc' = IF script = "test" THEN "jest" ELSE "require"
  /\ nodePath' = honored(Folders(env["NODE_PATH"]))
  /\ UNCHANGED <<script, shell, files, project, env, todo, cache, config, raw>>

-----------------------------------------------------------------------------
(* webpack.config.js requires paths.js and modules.js, which may throw, and gives the client
   its environment. *)

modules == getModules(project.tsconfig, project.jsconfig, nodePath)

Require ==
  /\ pc = "require"
  /\ pc' = IF modules.throws THEN "bad configuration" ELSE "configure"
  /\ cache' = required
  /\ config' = required
  /\ UNCHANGED <<script, shell, files, project, env, nodePath, todo, raw>>

\* webpack.config.js omits the trailing slash.
WithoutSlash(url) ==
  CASE url = "/" -> ""
    [] url = "./" -> "."
    [] url = "/app/" -> "/app"
    [] OTHER -> "https://cdn.org/app"

REACT_APP == Names \cap {"REACT_APP_TITLE"}

\* Mutant: every variable of the machine goes to the client.
InjectedAll == {x \in Names : env[x] # Unset}

Injected == {x \in REACT_APP : env[x] # Unset}

\* Where the client of a development server finds its socket; every build gets them, set or
\* not.
WDS_SOCKET == Names \cap {"WDS_SOCKET_HOST", "WDS_SOCKET_PATH", "WDS_SOCKET_PORT"}

getClientEnvironment(publicUrl) ==
  [x \in Injected \cup WDS_SOCKET \cup {"NODE_ENV", "PUBLIC_URL"} |->
     IF x = "NODE_ENV" THEN NODE_ENV(script)
     ELSE IF x = "PUBLIC_URL" THEN publicUrl
     ELSE env[x]]

Configure ==
  /\ pc = "configure"
  /\ pc' = "resolve"
  /\ raw' = getClientEnvironment(WithoutSlash(config))
  /\ UNCHANGED <<script, shell, files, project, env, nodePath, todo, cache, config>>

EnvStep ==
  \/ SetEnv \/ RequireEnv \/ LoadFile \/ ResolveNodePath \/ Require \/ Configure

-----------------------------------------------------------------------------
(* Properties. *)

EnvRead == pc \notin {"head", "env.js", "dotenv", "crashed"}

Configured == DOMAIN raw # {}

\* The client and both configurations use one public path, and it is the one that
\* PUBLIC_URL says when all files are read, even if only a file says it: not the one that
\* paths.js found when it was evaluated for the names of these files.
PathsFollowSettings ==
  Configured =>
    LET url == publicUrlOrPath(NODE_ENV(script), env["PUBLIC_URL"]) IN
    config = url /\ cache = url /\ raw["PUBLIC_URL"] = WithoutSlash(url)

\* What may set a variable, the strongest first: test.js itself, the shell, then the files,
\* those for one machine and one mode before the general ones.
Sources ==
  LET noUrl == [x \in Names |-> IF x = "PUBLIC_URL" THEN "" ELSE Unset] IN
  IF script = "test"
  THEN <<noUrl, shell, files[".env.MODE.local"], files[".env.MODE"], files[".env"]>>
  ELSE <<shell, files[".env.MODE.local"], files[".env.MODE"], files[".env.local"], files[".env"]>>

Setters(sources, x, k) == {i \in 1..k : sources[i][x] # Unset}

Strongest(sources, x, k) ==
  CHOOSE i \in Setters(sources, x, k) : \A j \in Setters(sources, x, k) : i <= j

\* The value of x for somebody who sees the first k sources: that of the first which sets it.
\* A reference in a file sees this file and those before it, and of those it has the values val.
Meaning(sources, val, x, k) ==
  IF Setters(sources, x, k) = {} THEN Unset
  ELSE LET first == Strongest(sources, x, k)
           v == sources[first][x]
       IN IF ~IsRef(v) THEN v
          ELSE LET w == val[RefersTo[v]][first] IN IF w = Unset THEN "" ELSE w

\* In each source a chain of references meets each variable at most once.
Depth == 5 * (Cardinality(Names) + 1)

\* Values(sources)[d][x][k]: the value of x with fewer than d references followed.
Values(sources) ==
  LET value[d \in 0..Depth] ==
        [x \in Names |->
          [k \in 1..5 |-> IF d = 0 THEN Unset ELSE Meaning(sources, value[d - 1], x, k)]]
  IN value

ValueOf(x) == Values(Sources)[Depth][x][5]

\* A variable has the value of the strongest source that sets it: no file overrides the
\* shell or a file before it, .env.local does not exist for tests, and a reference finds
\* nothing in the files that come after its own.
FirstWins ==
  EnvRead => \A x \in Names : env[x] = ValueOf(x)

\* The variables that some file refers to.
ReferredTo ==
  {RefersTo[v] : v \in {w \in DOMAIN RefersTo : \E f \in Files, x \in Names : files[f][x] = w}}

\* Beside the mode and the public path, only the variables that are for the client reach it,
\* REACT_APP_* and the three of the development server's socket, in production too, with
\* values that somebody set for them, or for a variable that a file refers to.
SecretsStay ==
  Configured =>
    \A x \in DOMAIN raw \ {"NODE_ENV", "PUBLIC_URL"} :
      /\ x \in REACT_APP \cup WDS_SOCKET
      /\ \/ raw[x] \in {Unset, ""}
         \/ \E i \in 1..5, y \in {x} \cup ReferredTo : raw[x] = Sources[i][y]

=============================================================================
