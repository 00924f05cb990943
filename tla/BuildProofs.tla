----------------------------- MODULE BuildProofs -----------------------------
(***************************************************************************)
(* BuildInv is an invariant of Build for all names of files and any number *)
(* of builds: every step, failure and kill preserves it.                   *)
(***************************************************************************)
EXTENDS Build, TLAPS

LEMMA BuildInvInit == Init => BuildInv
<1> SUFFICES ASSUME Init PROVE BuildInv
  OBVIOUS
<1>1. 0 \in 0..LastBuild /\ appHtml \in Names
  BY BuildAssumption DEF Names
<1>2. TypeOK
  BY <1>1 DEF Init, TypeOK, PCs, MayReject, CIs, TscValues, Absent
<1>3. DirectoryOfStep
  BY DEF Init, DirectoryOfStep
<1>4. NoMixture /\ SuccessIsComplete /\ PageHasItsFiles /\ TemplateNeverDeployed
  BY <1>1 DEF Init, NoMixture, Present, SuccessIsComplete, PageHasItsFiles,
              TemplateNeverDeployed, Absent, Emitted
<1>5. BuiltInOrder
  <2>1. n = 0 /\ pc = "ended" /\ \A f \in Names : buildDir[f].build = 0
    BY DEF Init, Absent
  <2> QED
    BY <2>1 DEF BuiltInOrder
<1> QED
  BY <1>2, <1>3, <1>4, <1>5 DEF BuildInv

-----------------------------------------------------------------------------
(* Steps that leave the directory alone. *)

\* The files of public/ have names, and no file is of a build before the first.
LEMMA NamedFiles ==
  /\ appHtml \in Names /\ PublicFiles \subseteq Names
  /\ Absent.build = 0
  /\ \A k \in Builds : Copied(k).build = k /\ Emitted(k).build = k /\ k \in Nat \ {0}
BY BuildAssumption DEF Names, Absent, Copied, Emitted, Builds

\* Such a step keeps the directory unmixed and without the template, whatever it does else,
\* if it does not begin another build.
LEMMA DirectoryKept ==
  ASSUME BuildInv, TypeOK', DirectoryOfStep', BuiltInOrder', SuccessIsComplete',
         UNCHANGED <<n, buildDir>>
  PROVE  BuildInv'
BY DEF BuildInv, NoMixture, Present, PageHasItsFiles, Emitted, TemplateNeverDeployed, Absent

\* A new build finds the files of the last one, and has written none.
LEMMA StartInv == ASSUME BuildInv, Start PROVE BuildInv'
<1> USE DEF BuildInv, Start
<1>1. n + 1 \in Builds /\ n + 1 \in 0..LastBuild
  BY BuildAssumption DEF TypeOK, Builds
<1>2. TypeOK'
  BY <1>1 DEF TypeOK, PCs
<1>3. DirectoryOfStep' /\ SuccessIsComplete'
  BY DEF DirectoryOfStep, SuccessIsComplete
<1>4. \A f \in Names :
        buildDir[f].build \in Nat /\ buildDir[f].build <= n /\ n' = n + 1 /\ n \in Nat
  BY BuildAssumption DEF BuiltInOrder, TypeOK
<1>5. BuiltInOrder'
  BY <1>4 DEF BuiltInOrder
<1>6. PageHasItsFiles'
  <2>1. buildDir'[appHtml].build # n'
    BY <1>4, NamedFiles
  <2>2. Emitted(n').build = n'
    BY DEF Emitted
  <2> QED
    BY <2>1, <2>2 DEF PageHasItsFiles, Emitted
<1>7. NoMixture' /\ TemplateNeverDeployed'
  BY DEF NoMixture, Present, TemplateNeverDeployed, Absent
<1> QED
  BY <1>2, <1>3, <1>5, <1>6, <1>7

\* A step before the directory is emptied, or to its rejection.
LEMMA EarlyInv ==
  ASSUME BuildInv,
         \/ checkRequiredFiles \/ checkBrowsers \/ measureFileSizesBeforeBuild
         \/ \E step \in MayReject : Rejects(step)
  PROVE  BuildInv'
<1> USE DEF BuildInv, checkRequiredFiles, checkBrowsers, measureFileSizesBeforeBuild,
            Rejects, Goto, End
<1>1. TypeOK'
  BY DEF TypeOK, PCs, MayReject
<1>2. DirectoryOfStep' /\ SuccessIsComplete'
  BY DEF DirectoryOfStep, SuccessIsComplete, MayReject
<1>3. BuiltInOrder'
  BY DEF BuiltInOrder, MayReject
<1> QED
  BY <1>1, <1>2, <1>3, DirectoryKept

\* The end of a build, reported, refused or killed: status 0 needs a whole build, or
\* TSC_COMPILE_ON_ERROR.
LEMMA EndInv ==
  ASSUME BuildInv, Report \/ ReportFails \/ Rejected \/ Kill
  PROVE  BuildInv'
<1> USE DEF BuildInv, Report, ReportFails, Rejected, Kill, End
<1>1. TypeOK'
  BY DEF TypeOK, PCs
<1>2. DirectoryOfStep'
  BY DEF DirectoryOfStep
<1>3. Complete(n)' <=> Complete(n)
  BY DEF Complete
<1>4. SuccessIsComplete'
  BY <1>3 DEF DirectoryOfStep, SuccessIsComplete, TreatsWarningsAsErrors, toLowerCase, TypeOK, CIs
<1>5. BuiltInOrder'
  BY DEF BuiltInOrder
<1> QED
  BY <1>1, <1>2, <1>4, <1>5, DirectoryKept

-----------------------------------------------------------------------------
(* Steps on the directory. *)

LEMMA RemoveFileInv == ASSUME BuildInv, NEW f \in Names, RemoveFile(f) PROVE BuildInv'
<1> USE DEF BuildInv, RemoveFile
<1>1. \A g \in Names : buildDir'[g] = IF g = f THEN Absent ELSE buildDir[g]
  BY DEF TypeOK
<1>2. TypeOK'
  <2>1. Absent \in [build : 0..LastBuild, by : {"nobody", "copy", "webpack"}]
    BY BuildAssumption DEF Absent
  <2> QED
    BY <2>1 DEF TypeOK
<1>3. DirectoryOfStep' /\ SuccessIsComplete'
  BY DEF DirectoryOfStep, SuccessIsComplete
<1>4. NoMixture'
  BY <1>1 DEF NoMixture, Present
<1>5. TemplateNeverDeployed'
  BY <1>1, BuildAssumption DEF TemplateNeverDeployed, Names, Absent
<1>6. n \in Builds /\ \A g \in Names : buildDir'[g].build < n
  BY <1>1, NamedFiles DEF BuiltInOrder, TypeOK
<1>7. BuiltInOrder'
  <2>1. n \in Nat /\ \A g \in Names : buildDir'[g].build \in Nat
    BY <1>2 DEF TypeOK
  <2>2. \A g \in Names : buildDir'[g].build <= n
    BY <1>6, <2>1
  <2> QED
    BY <1>6, <2>2 DEF BuiltInOrder
<1>8. PageHasItsFiles'
  BY <1>6, NamedFiles DEF PageHasItsFiles, Builds
<1> QED
  BY <1>2, <1>3, <1>4, <1>5, <1>7, <1>8

\* When no file is left the first one may be copied.
LEMMA EmptiedInv == ASSUME BuildInv, Emptied PROVE BuildInv'
<1> USE DEF BuildInv, Emptied, Goto
<1>1. TypeOK'
  BY DEF TypeOK, PCs, MayReject
<1>2. \A f \in Names : buildDir[f] = Absent
  BY DEF Present
<1>3. DirectoryOfStep' /\ SuccessIsComplete'
  BY <1>2 DEF DirectoryOfStep, SuccessIsComplete
<1>4. BuiltInOrder'
  BY DEF BuiltInOrder
<1> QED
  BY <1>1, <1>3, <1>4, DirectoryKept

LEMMA CopyFileInv == ASSUME BuildInv, NEW f \in Names, CopyFile(f) PROVE BuildInv'
<1> USE DEF BuildInv, CopyFile
<1>1. \A g \in Names : buildDir'[g] = IF g = f THEN Copied(n) ELSE buildDir[g]
  BY DEF TypeOK
<1>2. TypeOK'
  <2>1. Copied(n) \in [build : 0..LastBuild, by : {"nobody", "copy", "webpack"}]
    BY DEF Copied, TypeOK
  <2> QED
    BY <2>1 DEF TypeOK
<1>3. \A g \in Names : buildDir'[g] = Absent \/ (g \in ToCopy /\ buildDir'[g] = Copied(n))
  BY <1>1 DEF DirectoryOfStep
<1>4. DirectoryOfStep' /\ SuccessIsComplete'
  BY <1>3 DEF DirectoryOfStep, SuccessIsComplete
<1>5. NoMixture'
  BY <1>3 DEF NoMixture, Present, Copied
<1>6. TemplateNeverDeployed'
  BY <1>3, BuildAssumption DEF TemplateNeverDeployed, Names, ToCopy, Absent
<1>7. n \in Builds /\ Copied(n).build = n
  BY NamedFiles DEF TypeOK
<1>8. BuiltInOrder'
  BY <1>1, <1>7 DEF BuiltInOrder, Builds
<1>9. PageHasItsFiles'
  BY <1>3, NamedFiles DEF PageHasItsFiles, ToCopy, Absent, Emitted, Copied
<1> QED
  BY <1>2, <1>4, <1>5, <1>6, <1>8, <1>9

\* All of public/ but the template is there, and nothing else: the compiler may start.
LEMMA MergedInv == ASSUME BuildInv, Merged \/ Compile PROVE BuildInv'
<1> USE DEF BuildInv, Merged, Compile, Goto
<1>1. TypeOK'
  BY DEF TypeOK, PCs, MayReject
<1>2. pc = "copy" => \A f \in Names : buildDir[f] = IF f \in ToCopy THEN Copied(n) ELSE Absent
  BY DEF DirectoryOfStep, Present
<1>3. DirectoryOfStep' /\ SuccessIsComplete'
  BY <1>2 DEF DirectoryOfStep, SuccessIsComplete
<1>4. BuiltInOrder'
  BY DEF BuiltInOrder
<1> QED
  BY <1>1, <1>3, <1>4, DirectoryKept

LEMMA EmitFileInv == ASSUME BuildInv, NEW f \in Names, EmitFile(f) PROVE BuildInv'
<1> USE DEF BuildInv, EmitFile
<1>1. \A g \in Names : buildDir'[g] = IF g = f THEN Emitted(n) ELSE buildDir[g]
  BY DEF TypeOK
<1>2. TypeOK'
  <2>1. Emitted(n) \in [build : 0..LastBuild, by : {"nobody", "copy", "webpack"}]
    BY DEF Emitted, TypeOK
  <2> QED
    BY <2>1 DEF TypeOK
<1>3. /\ emitted' \subseteq Assets[n]
      /\ \A g \in Names : buildDir'[g] = IF g \in emitted' THEN Emitted(n)
                                         ELSE IF g \in ToCopy THEN Copied(n) ELSE Absent
  BY <1>1 DEF DirectoryOfStep
<1>4. DirectoryOfStep' /\ SuccessIsComplete'
  BY <1>3 DEF DirectoryOfStep, SuccessIsComplete
<1>5. NoMixture'
  BY <1>3 DEF NoMixture, Present, Copied, Emitted
<1>6. TemplateNeverDeployed'
  BY <1>3, BuildAssumption DEF TemplateNeverDeployed, Names, ToCopy, Absent, Emitted
<1>7. n \in Builds /\ Emitted(n).build = n /\ Copied(n).build = n
  BY NamedFiles DEF TypeOK
<1>8. BuiltInOrder'
  BY <1>1, <1>7 DEF BuiltInOrder, Builds
<1>9. PageHasItsFiles'
  <2> SUFFICES ASSUME buildDir'[appHtml] = Emitted(n), NEW g \in PublicFiles
               PROVE  buildDir'[g].build = n
    BY DEF PageHasItsFiles, Emitted
  <2>1. CASE g = appHtml
    BY <1>7, <2>1
  <2>2. CASE g # appHtml
    <3>1. g \in ToCopy /\ g \in Names
      BY <2>2, NamedFiles DEF ToCopy
    <3> QED
      BY <1>3, <1>7, <3>1
  <2> QED
    BY <2>1, <2>2
<1> QED
  BY <1>2, <1>4, <1>5, <1>6, <1>8, <1>9

\* What is emitted when the callback comes makes the directory whole: the page of this
\* build has taken the place that the template has left.
LEMMA CompiledInv == ASSUME BuildInv, Compiled PROVE BuildInv'
<1> USE DEF BuildInv, Compiled, Goto
<1>1. TypeOK'
  BY DEF TypeOK, PCs, MayReject
<1>2. n \in Builds /\ emitted = Assets[n]
  BY DEF TypeOK, DirectoryOfStep
<1>3. \A f \in Names : buildDir[f] = IF f \in Assets[n] THEN Emitted(n)
                                     ELSE IF f \in PublicFiles THEN Copied(n) ELSE Absent
  BY <1>2, BuildAssumption DEF DirectoryOfStep, ToCopy
<1>4. Complete(n)'
  BY <1>3 DEF Complete, TypeOK
<1>5. DirectoryOfStep' /\ SuccessIsComplete'
  BY <1>4 DEF DirectoryOfStep, SuccessIsComplete, TreatsWarningsAsErrors, toLowerCase
<1>6. BuiltInOrder'
  BY DEF BuiltInOrder
<1> QED
  BY <1>1, <1>5, <1>6, DirectoryKept

-----------------------------------------------------------------------------

LEMMA BuildInvNext == BuildInv /\ [Next]_vars => BuildInv'
<1> SUFFICES ASSUME BuildInv, [Next]_vars PROVE BuildInv'
  OBVIOUS
<1>1. CASE Start
  BY <1>1, StartInv
<1>2. CASE \/ checkRequiredFiles \/ checkBrowsers \/ measureFileSizesBeforeBuild
           \/ \E step \in MayReject : Rejects(step)
  BY <1>2, EarlyInv
<1>3. CASE \E f \in Names : RemoveFile(f) \/ CopyFile(f) \/ EmitFile(f)
  BY <1>3, RemoveFileInv, CopyFileInv, EmitFileInv
<1>4. CASE Emptied
  BY <1>4, EmptiedInv
<1>5. CASE Merged \/ Compile
  BY <1>5, MergedInv
<1>6. CASE Compiled
  BY <1>6, CompiledInv
<1>7. CASE Report \/ ReportFails \/ Rejected \/ Kill
  BY <1>7, EndInv
<1>8. CASE UNCHANGED vars
  BY <1>8 DEF vars, BuildInv, TypeOK, DirectoryOfStep, TreatsWarningsAsErrors, toLowerCase,
              NoMixture, Present, BuiltInOrder, SuccessIsComplete, Complete, PageHasItsFiles,
              Emitted, TemplateNeverDeployed
<1> QED
  BY <1>1, <1>2, <1>3, <1>4, <1>5, <1>6, <1>7, <1>8 DEF Next, Step

\* The inductive invariant of builds in one directory, for any files and any number of builds.
THEOREM BuildInvariant == Spec => []BuildInv
<1> QED
  BY BuildInvInit, BuildInvNext, PTL DEF Spec

\* Every variable of the build script holds a value of its kind.
THEOREM BuildTypes == Spec => []TypeOK
<1>1. BuildInv => TypeOK
  BY DEF BuildInv
<1> QED
  BY <1>1, BuildInvariant, PTL

\* emptyDirSync, copyPublicFolder and the compiler never leave files of two builds.
THEOREM BuildNoMixture == Spec => []NoMixture
<1>1. BuildInv => NoMixture
  BY DEF BuildInv
<1> QED
  BY <1>1, BuildInvariant, PTL

\* Status 0 without TSC_COMPILE_ON_ERROR stands for a whole build, and for one without
\* warnings where CI refuses them.
THEOREM BuildSuccessIsComplete == Spec => []SuccessIsComplete
<1>1. BuildInv => SuccessIsComplete
  BY DEF BuildInv
<1> QED
  BY <1>1, BuildInvariant, PTL

\* Wherever a build is when it stops, its page has the files of public/ that it refers to.
THEOREM BuildPageHasItsFiles == Spec => []PageHasItsFiles
<1>1. BuildInv => PageHasItsFiles
  BY DEF BuildInv
<1> QED
  BY <1>1, BuildInvariant, PTL

\* The template of the page is never in the directory that is deployed.
THEOREM BuildTemplateNeverDeployed == Spec => []TemplateNeverDeployed
<1>1. BuildInv => TemplateNeverDeployed
  BY DEF BuildInv
<1> QED
  BY <1>1, BuildInvariant, PTL

=============================================================================
