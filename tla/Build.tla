-------------------------------- MODULE Build --------------------------------
(***************************************************************************)
(* web/scripts/build.js: one production build of the web client after the  *)
(* other, in one build directory that a web server may be serving.         *)
(*                                                                         *)
(* The directory changes file by file, in no particular order, every step  *)
(* may fail, and the process may be killed between any two.                *)
(***************************************************************************)
EXTENDS Naturals

CONSTANTS
  PublicFiles,       \* the names of the files in public/
  appHtml,           \* the page: a template in public/, rendered by the compiler
  Assets,            \* Assets[n]: the names of the files that build n emits
  LastBuild          \* how many builds are run

Builds == 1..LastBuild
Names == PublicFiles \cup UNION {Assets[n] : n \in Builds}

ASSUME BuildAssumption ==
  /\ LastBuild \in Nat \ {0}
  /\ appHtml \in PublicFiles
  /\ \A n \in Builds : appHtml \in Assets[n]

\* The values of process.env.CI and of process.env.TSC_COMPILE_ON_ERROR.
CIs == {"", "true", "false", "FALSE"}
TscValues == {"", "true", "false"}

VARIABLES
  n,                 \* the build that runs, or the last one that ran
  pc,                \* its step
  env,               \* its environment
  warnings,          \* its compilation has warnings
  exit,              \* how it ended
  buildDir,          \* the file of each name: who made it, and for which build
  emitted            \* the files that this compilation has written

vars == <<n, pc, env, warnings, exit, buildDir, emitted>>

Absent == [build |-> 0, by |-> "nobody"]
Copied(k) == [build |-> k, by |-> "copy"]
Emitted(k) == [build |-> k, by |-> "webpack"]

Present == {f \in Names : buildDir[f] # Absent}

Init ==
  /\ n = 0
  /\ pc = "ended"
  /\ env = [CI |-> "", TSC_COMPILE_ON_ERROR |-> ""]
  /\ warnings = FALSE
  /\ exit = "none"
  /\ buildDir = [f \in Names |-> Absent]
  /\ emitted = {}

Goto(from, to) == pc = from /\ pc' = to

End(code) == pc' = "ended" /\ exit' = code

-----------------------------------------------------------------------------
(* Before the directory is touched. *)

Start ==
  /\ pc = "ended"
  /\ n < LastBuild
  /\ n' = n + 1
  /\ env' \in [CI : CIs, TSC_COMPILE_ON_ERROR : TscValues]
  /\ pc' = "checkRequiredFiles"
  /\ warnings' = FALSE
  /\ exit' = "none"
  /\ emitted' = {}
  /\ UNCHANGED buildDir

\* A missing page or index.js exits, and a configuration that throws ends the process.
checkRequiredFiles ==
  /\ pc = "checkRequiredFiles"
  /\ \/ pc' = "checkBrowsers" /\ UNCHANGED exit
     \/ End("1")
  /\ UNCHANGED <<n, env, warnings, buildDir, emitted>>

\* The first handler of the promise chain comes after all the steps that may reject it.
Rejects(step) ==
  /\ Goto(step, "rejected")
  /\ UNCHANGED <<n, env, warnings, exit, buildDir, emitted>>

checkBrowsers ==
  /\ Goto("checkBrowsers", "measure")
  /\ UNCHANGED <<n, env, warnings, exit, buildDir, emitted>>

\* Mutant: the old files are left where they are.
measureThenCopy ==
  /\ Goto("measure", "copy")
  /\ UNCHANGED <<n, env, warnings, exit, buildDir, emitted>>

measureFileSizesBeforeBuild ==
  /\ Goto("measure", "empty")
  /\ UNCHANGED <<n, env, warnings, exit, buildDir, emitted>>

-----------------------------------------------------------------------------
(* emptyDirSync and copyPublicFolder. *)

RemoveFile(f) ==
  /\ pc = "empty"
  /\ f \in Present
  /\ buildDir' = [buildDir EXCEPT ![f] = Absent]
  /\ UNCHANGED <<n, pc, env, warnings, exit, emitted>>

Emptied ==
  /\ Goto("empty", "copy")
  /\ Present = {}
  /\ UNCHANGED <<n, env, warnings, exit, buildDir, emitted>>

\* Mutant: copySync without its filter.
PublicAndTemplate == PublicFiles

ToCopy == PublicFiles \ {appHtml}

CopyFile(f) ==
  /\ pc = "copy"
  /\ f \in ToCopy \ Present
  /\ buildDir' = [buildDir EXCEPT ![f] = Copied(n)]
  /\ UNCHANGED <<n, pc, env, warnings, exit, emitted>>

\* Mutant: the compiler starts before the copy has ended.
MergedAtOnce ==
  /\ Goto("copy", "compile")
  /\ UNCHANGED <<n, env, warnings, exit, buildDir, emitted>>

Merged ==
  /\ Goto("copy", "compile")
  /\ ToCopy \subseteq Present
  /\ UNCHANGED <<n, env, warnings, exit, buildDir, emitted>>

-----------------------------------------------------------------------------
(* build: compiler.run and its callback. *)

\* An error in a module ends the compilation before it emits anything (bail).
Compile ==
  /\ Goto("compile", "emit")
  /\ warnings' \in BOOLEAN
  /\ UNCHANGED <<n, env, exit, buildDir, emitted>>

EmitFile(f) ==
  /\ pc = "emit"
  /\ f \in Assets[n] \ emitted
  /\ buildDir' = [buildDir EXCEPT ![f] = Emitted(n)]
  /\ emitted' = emitted \cup {f}
  /\ UNCHANGED <<n, pc, env, warnings, exit>>

toLowerCase(s) == IF s = "FALSE" THEN "false" ELSE s

TreatsWarningsAsErrors == env.CI # "" /\ toLowerCase(env.CI) # "false"

\* The callback comes when all is written: warnings are refused after the fact.
Compiled ==
  /\ Goto("emit", IF warnings /\ TreatsWarningsAsErrors THEN "rejected" ELSE "report")
  /\ Assets[n] \subseteq emitted
  /\ UNCHANGED <<n, env, warnings, exit, buildDir, emitted>>

-----------------------------------------------------------------------------
(* The handlers of the outcome. *)

Report ==
  /\ pc = "report"
  /\ End("0")
  /\ UNCHANGED <<n, env, warnings, buildDir, emitted>>

\* What prints the sizes and the instructions may throw; catch() exits.
ReportFails ==
  /\ pc = "report"
  /\ End("1")
  /\ UNCHANGED <<n, env, warnings, buildDir, emitted>>

\* Mutant: the handler only prints, and the process ends by itself.
RejectedPrints ==
  /\ pc = "rejected"
  /\ End("0")
  /\ UNCHANGED <<n, env, warnings, buildDir, emitted>>

Rejected ==
  /\ pc = "rejected"
  /\ IF env.TSC_COMPILE_ON_ERROR = "true"
     THEN End("0")
     ELSE End("1")
  /\ UNCHANGED <<n, env, warnings, buildDir, emitted>>

\* SIGKILL, a lack of memory, a cancelled image build.
Kill ==
  /\ pc # "ended"
  /\ End("killed")
  /\ UNCHANGED <<n, env, warnings, buildDir, emitted>>

MayReject == {"checkBrowsers", "measure", "empty", "copy", "compile", "emit"}

Step ==
  \/ checkRequiredFiles
  \/ checkBrowsers
  \/ measureFileSizesBeforeBuild
  \/ \E f \in Names : RemoveFile(f) \/ CopyFile(f) \/ EmitFile(f)
  \/ Emptied \/ Merged \/ Compile \/ Compiled
  \/ \E step \in MayReject : Rejects(step)
  \/ Report \/ ReportFails \/ Rejected

Next == Start \/ Step \/ Kill

Spec == Init /\ [][Next]_vars

-----------------------------------------------------------------------------
(* Properties. *)

PCs == MayReject \cup {"ended", "checkRequiredFiles", "report", "rejected"}

\* Every variable holds a value of its kind.
TypeOK ==
  /\ n \in 0..LastBuild
  /\ pc \in PCs
  /\ pc # "ended" => n \in Builds
  /\ env \in [CI : CIs, TSC_COMPILE_ON_ERROR : TscValues]
  /\ warnings \in BOOLEAN
  /\ exit \in {"none", "0", "1", "killed"}
  /\ buildDir \in [Names -> [build : 0..LastBuild, by : {"nobody", "copy", "webpack"}]]
  /\ emitted \subseteq Names

\* The files in the directory are all of one build, whatever builds have failed or were
\* killed before, and even while the next one removes them: nobody is served the page of
\* one build with the scripts of another.
NoMixture ==
  \A f, g \in Present : buildDir[f].build = buildDir[g].build

\* What a whole build of number k leaves.
Complete(k) ==
  buildDir = [f \in Names |-> IF f \in Assets[k] THEN Emitted(k)
                              ELSE IF f \in PublicFiles THEN Copied(k)
                              ELSE Absent]

\* A build that ends with status 0 has left all of its files, each as the compiler wrote
\* it where public/ has one of the same name, and no other file, and it had no warnings if
\* its environment refuses them.  TSC_COMPILE_ON_ERROR lifts this.
SuccessIsComplete ==
  exit = "0" /\ env.TSC_COMPILE_ON_ERROR # "true" =>
    Complete(n) /\ (warnings => env.CI \in {"", "false", "FALSE"})

\* The page of a build is never in the directory without the files of public/ that it
\* refers to, the manifest and the icon, wherever the build that wrote it is, failed or
\* was killed: they are all there before the compiler writes anything.
PageHasItsFiles ==
  buildDir[appHtml] = Emitted(n) => \A f \in PublicFiles : buildDir[f].build = n

\* The page in the directory is never the template, with its %PUBLIC_URL% still in it,
\* not even after a build that died on its way from public/ to the emitted page.
TemplateNeverDeployed ==
  buildDir[appHtml].by # "copy"

-----------------------------------------------------------------------------
(* What makes the safety properties inductive. *)

\* The directory, step by step: emptied, then filled from public/ alone, then by the
\* compiler over that, until it is whole when the success is reported.
DirectoryOfStep ==
  /\ pc \in {"checkRequiredFiles", "checkBrowsers", "measure", "empty", "copy", "compile"}
       => emitted = {}
  /\ pc = "copy" =>
       \A f \in Names : buildDir[f] = Absent \/ (f \in ToCopy /\ buildDir[f] = Copied(n))
  /\ pc = "compile" =>
       \A f \in Names : buildDir[f] = IF f \in ToCopy THEN Copied(n) ELSE Absent
  /\ pc = "emit" =>
       /\ emitted \subseteq Assets[n]
       /\ \A f \in Names : buildDir[f] = IF f \in emitted THEN Emitted(n)
                                         ELSE IF f \in ToCopy THEN Copied(n) ELSE Absent
  /\ pc = "report" => Complete(n) /\ (warnings => ~TreatsWarningsAsErrors)
  /\ pc # "ended" => exit = "none"

\* No file is of a later build, and none of this one before the old files are gone.
BuiltInOrder ==
  /\ \A f \in Names : buildDir[f].build <= n
  /\ pc \in {"checkRequiredFiles", "checkBrowsers", "measure", "empty"} =>
       \A f \in Names : buildDir[f].build < n

BuildInv ==
  /\ TypeOK
  /\ DirectoryOfStep
  /\ NoMixture
  /\ BuiltInOrder
  /\ SuccessIsComplete
  /\ PageHasItsFiles
  /\ TemplateNeverDeployed

=============================================================================
