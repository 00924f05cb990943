---------------------------- MODULE BundlerProofs ----------------------------
(***************************************************************************)
(* What WebEnv and Bundler promise, for every set of variables, shells,    *)
(* .env files, folders and files of the app: settings come from their      *)
(* strongest source, all readers agree on the public path, secrets stay,   *)
(* imports are found where they should be, and loaders compose.            *)
(***************************************************************************)
EXTENDS Bundler, TLAPS, FiniteSetTheorems, SequenceTheorems

-----------------------------------------------------------------------------
(* Induction and recursion. *)

\* Induction, as a fact about a set.  Were n missing from S, then i |-> i + 1 would map the part of
\* S up to n into that part without 0, which is smaller.
LEMMA Induction ==
  ASSUME NEW S \in SUBSET Nat, 0 \in S, \A n \in S : n + 1 \in S
  PROVE  S = Nat
<1>1. SUFFICES ASSUME NEW n \in Nat \ S PROVE FALSE
  OBVIOUS
<1> DEFINE T == S \cap (0..n)
           U == T \ {0}
           f == [i \in T |-> i + 1]
<1>2. IsFiniteSet(0..n)
  BY FS_Interval
<1>3. IsFiniteSet(T)
  <2>1. T \in SUBSET (0..n)
    OBVIOUS
  <2>2. QED BY <1>2, <2>1, FS_Subset
<1>4. IsFiniteSet(U) /\ Cardinality(U) < Cardinality(T)
  <2>1. 0 \in T
    OBVIOUS
  <2> HIDE DEF T
  <2>2. IsFiniteSet(U) /\ Cardinality(U) = Cardinality(T) - 1
    BY <1>3, <2>1, FS_RemoveElement
  <2>3. Cardinality(T) \in Nat
    BY <1>3, FS_CardinalityType
  <2>4. QED BY <2>2, <2>3
<1>5. f \in [T -> U]
  <2>1. \A i \in T : i + 1 \in S /\ i # n
    OBVIOUS
  <2>2. QED BY <2>1
<1>6. \E x, y \in T : x # y /\ f[x] = f[y]
  <2> HIDE DEF T, U, f
  <2> QED BY <1>3, <1>4, <1>5, FS_PigeonHole
<1>7. QED BY <1>6

LEMMA Least ==
  ASSUME NEW S \in SUBSET Nat, S # {}
  PROVE  \E m \in S : \A n \in S : m <= n
<1>1. SUFFICES ASSUME \A m \in S : \E n \in S : n < m
               PROVE FALSE
  OBVIOUS
<1> DEFINE Below == {k \in Nat : \A n \in S : k <= n}
<1>2. 0 \in Below
  OBVIOUS
<1>3. \A k \in Below : k + 1 \in Below
  BY <1>1
<1>4. Below = Nat
  <2> HIDE DEF Below
  <2>1. Below \in SUBSET Nat
    BY DEF Below
  <2> QED BY <1>2, <1>3, <2>1, Induction
<1>5. PICK m \in S : TRUE
  OBVIOUS
<1>6. m \in Nat /\ m + 1 \in Below
  <2> HIDE DEF Below
  <2> QED BY <1>4
<1>7. QED BY <1>5, <1>6

Recursive(g, n, S, s, F) ==
  /\ g \in [0..n -> S]
  /\ g[0] = s
  /\ \A k \in 1..n : g[k] = F[k][g[k - 1]]

\* A recursive function exists, when each value is made of the one before it within one set.
LEMMA Recursion ==
  ASSUME NEW n \in Nat, NEW S, NEW s \in S, NEW F \in [1..n -> [S -> S]]
  PROVE  \E g : Recursive(g, n, S, s, F)
<1> DEFINE Upto(m, g) == g[0] = s /\ \A k \in 1..m : g[k] = F[k][g[k - 1]]
           Good == {m \in Nat : m <= n => \E g \in [0..m -> S] : Upto(m, g)}
<1>1. 0 \in Good
  <2>1. [k \in 0..0 |-> s] \in [0..0 -> S] /\ Upto(0, [k \in 0..0 |-> s])
    OBVIOUS
  <2>2. QED BY <2>1
<1>2. ASSUME NEW m \in Good PROVE m + 1 \in Good
  <2>0. m \in Nat /\ m + 1 \in Nat
    BY <1>2
  <2>1. SUFFICES ASSUME m + 1 <= n
                 PROVE  \E g \in [0..(m + 1) -> S] : Upto(m + 1, g)
    <3> HIDE DEF Upto
    <3> QED BY <2>0
  <2>2. PICK g \in [0..m -> S] : Upto(m, g)
    BY <1>2, <2>1
  <2>3. m \in Nat /\ m + 1 \in 1..n /\ F[m + 1] \in [S -> S] /\ g[m] \in S
    BY <1>2, <2>1
  <2> DEFINE h == [k \in 0..(m + 1) |-> IF k <= m THEN g[k] ELSE F[m + 1][g[m]]]
  <2>4. h \in [0..(m + 1) -> S]
    BY <2>3
  <2>5. h[0] = s /\ h[m + 1] = F[m + 1][h[m]]
    BY <2>2, <2>3
  <2>6. \A k \in 1..m : h[k] = F[k][h[k - 1]]
    BY <2>2, <2>3
  <2>7. Upto(m + 1, h)
    <3> HIDE DEF h
    <3>1. \A k \in 1..(m + 1) : k \in 1..m \/ k = m + 1
      BY <2>3
    <3>2. m + 1 - 1 = m
      BY <2>3
    <3>3. SUFFICES ASSUME NEW k \in 1..(m + 1) PROVE h[k] = F[k][h[k - 1]]
      BY <2>5
    <3>4. CASE k \in 1..m
      BY <2>6, <3>4
    <3>5. CASE k = m + 1
      BY <2>5, <3>2, <3>5
    <3>6. QED BY <3>1, <3>4, <3>5
  <2>8. QED BY <2>4, <2>7
<1>3. Good = Nat
  <2> HIDE DEF Good
  <2>1. Good \in SUBSET Nat
    BY DEF Good
  <2>2. QED BY <1>1, <1>2, <2>1, Induction
<1>4. n \in Good
  BY <1>3
<1>5. QED BY <1>4 DEF Recursive

-----------------------------------------------------------------------------
(* References. *)

NamesNumber == Cardinality(Names)

LEMMA NamesNumberType == NamesNumber \in Nat
  BY WebEnvAssumption, FS_CardinalityType DEF NamesNumber

\* One step of Follow.
Referent(e, w) ==
  IF ~IsRef(w) THEN w ELSE IF e[RefersTo[w]] = Unset THEN "" ELSE e[RefersTo[w]]

LEMMA FollowDef ==
  ASSUME NEW e, NEW v
  PROVE  /\ Follow(e, v)[0] = v
         /\ \A k \in 1..NamesNumber : Follow(e, v)[k] = Referent(e, Follow(e, v)[k - 1])
         /\ Expand(e, v) = Follow(e, v)[NamesNumber]
<1> DEFINE S == {v, ""} \cup {e[x] : x \in Names}
           F == [k \in 1..NamesNumber |-> [w \in S |-> Referent(e, w)]]
           Is(g) == g = [k \in 0..NamesNumber |->
                           IF k = 0 THEN v
                           ELSE LET w == g[k - 1] IN
                                IF ~IsRef(w) THEN w
                                ELSE IF e[RefersTo[w]] = Unset THEN "" ELSE e[RefersTo[w]]]
<1>1. F \in [1..NamesNumber -> [S -> S]]
  <2>1. \A w \in S : Referent(e, w) \in S
    BY WebEnvAssumption DEF Referent, IsRef
  <2>2. QED BY <2>1
<1>2. v \in S /\ \A k \in 1..NamesNumber, w \in S : F[k][w] = Referent(e, w)
  OBVIOUS
<1> HIDE DEF S, F
<1>0. \A k \in 1..NamesNumber : k \in 0..NamesNumber /\ k - 1 \in 0..NamesNumber /\ k # 0
  BY NamesNumberType
<1>3. PICK g \in [0..NamesNumber -> S] :
        g[0] = v /\ \A k \in 1..NamesNumber : g[k] = Referent(e, g[k - 1])
  <2>1. PICK g : Recursive(g, NamesNumber, S, v, F)
    BY <1>1, <1>2, NamesNumberType, Recursion
  <2>2. \A k \in 1..NamesNumber : g[k - 1] \in S
    BY <1>0, <2>1 DEF Recursive
  <2>3. QED BY <1>2, <2>1, <2>2 DEF Recursive
<1>4. Is(g)
  <2>1. \A k \in 0..NamesNumber : k = 0 \/ k \in 1..NamesNumber
    BY NamesNumberType
  <2>2. QED BY <1>3, <2>1 DEF Referent
<1>5. Follow(e, v) = CHOOSE h : Is(h)
  BY DEF Follow, NamesNumber
<1>6. Is(Follow(e, v))
  <2> HIDE DEF Is
  <2>1. QED BY <1>4, <1>5
<1>7. 0 \in 0..NamesNumber
  BY NamesNumberType
<1>8. QED BY <1>0, <1>6, <1>7 DEF Referent, Expand, NamesNumber

\* What is no reference is left alone.
LEMMA FollowValue ==
  ASSUME NEW e, NEW v, ~IsRef(v)
  PROVE  \A k \in 0..NamesNumber : Follow(e, v)[k] = v
<1> DEFINE Same == {k \in Nat : k <= NamesNumber => Follow(e, v)[k] = v}
<1>1. 0 \in Same
  BY FollowDef
<1>2. ASSUME NEW k \in Same PROVE k + 1 \in Same
  <2>1. SUFFICES ASSUME k + 1 <= NamesNumber PROVE Follow(e, v)[k + 1] = v
    BY <1>2
  <2>2. k \in Nat /\ k + 1 \in 1..NamesNumber /\ k + 1 - 1 = k /\ Follow(e, v)[k] = v
    BY <1>2, <2>1, NamesNumberType
  <2>3. Follow(e, v)[k + 1] = Referent(e, v)
    BY <2>2, FollowDef
  <2>4. QED BY <2>3 DEF Referent
<1>3. Same = Nat
  <2> HIDE DEF Same
  <2>1. Same \in SUBSET Nat
    BY DEF Same
  <2>2. QED BY <1>1, <1>2, <2>1, Induction
<1>4. QED BY <1>3, NamesNumberType

\* Following a reference is to follow what it refers to.
LEMMA FollowShift ==
  ASSUME NEW e, NEW v
  PROVE  \A k \in 1..NamesNumber : Follow(e, v)[k] = Follow(e, Referent(e, v))[k - 1]
<1> DEFINE u == Referent(e, v)
           Good == {k \in Nat : k + 1 <= NamesNumber => Follow(e, v)[k + 1] = Follow(e, u)[k]}
<1> HIDE DEF u
<1>1. 0 \in Good
  <2>1. 1 <= NamesNumber => 1 \in 1..NamesNumber
    BY NamesNumberType
  <2>2. QED BY <2>1, FollowDef DEF u
<1>2. ASSUME NEW k \in Good PROVE k + 1 \in Good
  <2>1. SUFFICES ASSUME k + 1 + 1 <= NamesNumber
                 PROVE  Follow(e, v)[k + 1 + 1] = Follow(e, u)[k + 1]
    BY <1>2
  <2>2. /\ k \in Nat /\ k + 1 \in 1..NamesNumber /\ k + 1 + 1 \in 1..NamesNumber
        /\ k + 1 - 1 = k /\ k + 1 + 1 - 1 = k + 1
    BY <1>2, <2>1, NamesNumberType
  <2>3. Follow(e, v)[k + 1] = Follow(e, u)[k]
    BY <1>2, <2>2
  <2>4. QED BY <2>2, <2>3, FollowDef
<1>3. Good = Nat
  <2> HIDE DEF Good
  <2>1. Good \in SUBSET Nat
    BY DEF Good
  <2>2. QED BY <1>1, <1>2, <2>1, Induction
<1>4. TAKE k \in 1..NamesNumber
<1>5. k - 1 \in Good /\ k - 1 + 1 = k
  BY <1>3, NamesNumberType
<1>6. QED BY <1>5, NamesNumberType DEF u

-----------------------------------------------------------------------------
(* The folders of NODE_PATH. *)

\* The strings.  The provers do not know that a string that is written out is one.
Text == STRING \cup {"src", "node_modules"}

LEMMA Lists ==
  /\ \A s \in Seq(STRING) : s \in Seq(Text)
  /\ <<>> \in Seq(Text) /\ <<"src">> \in Seq(Text)
  /\ <<"node_modules", "node_modules">> \in Seq(Text)
<1>1. "src" \in Text /\ "node_modules" \in Text /\ STRING \subseteq Text
  BY DEF Text
<1>2. \A a \in Text : <<a>> \in Seq(Text) /\ <<a, a>> \in Seq(Text)
  OBVIOUS
<1>3. <<>> \in Seq(Text)
  OBVIOUS
<1>4. ASSUME NEW s \in Seq(STRING) PROVE s \in Seq(Text)
  BY <1>1, SeqMonotonic
<1>5. <<"src">> \in Seq(Text) /\ <<"node_modules", "node_modules">> \in Seq(Text)
  BY <1>1, <1>2, Zenon
<1>6. QED BY <1>3, <1>4, <1>5

\* honored keeps nothing but honored folders, of those there are.
LEMMA HonoredFolders ==
  ASSUME NEW folders \in Seq(Text)
  PROVE  /\ honored(folders) \in Seq(Text)
         /\ \A i \in DOMAIN honored(folders) :
              Honored(honored(folders)[i]) /\ honored(folders)[i] \in Range(folders)
<1> DEFINE n == Len(folders)
           U == {folders[i] : i \in {j \in 1..n : Honored(folders[j])}}
           S == Seq(U)
           F == [k \in 1..n |-> [q \in S |->
                   IF Honored(folders[k]) THEN Append(q, folders[k]) ELSE q]]
           Is(g) == g = [k \in 0..n |->
                           IF k = 0 THEN <<>>
                           ELSE IF Honored(folders[k]) THEN Append(g[k - 1], folders[k])
                           ELSE g[k - 1]]
<1>1. n \in Nat
  OBVIOUS
<1>2. F \in [1..n -> [S -> S]]
  <2>1. ASSUME NEW k \in 1..n, NEW q \in S
        PROVE  (IF Honored(folders[k]) THEN Append(q, folders[k]) ELSE q) \in S
    <3>1. Honored(folders[k]) => folders[k] \in U
      OBVIOUS
    <3> HIDE DEF U
    <3>2. QED BY <3>1
  <2> HIDE DEF S
  <2>2. QED BY <2>1
<1>3. /\ <<>> \in S
      /\ \A k \in 1..n, q \in S :
           F[k][q] = IF Honored(folders[k]) THEN Append(q, folders[k]) ELSE q
  <2>1. <<>> \in S
    OBVIOUS
  <2> HIDE DEF S
  <2>2. QED BY <2>1
<1>4. \A u \in U : u \in Text /\ Honored(u) /\ u \in Range(folders)
  BY DEF Range
<1> HIDE DEF n, U, F, S
<1>5. PICK g : Recursive(g, n, S, <<>>, F)
  BY <1>1, <1>2, <1>3, Recursion
<1>6. \A k \in 1..n : k \in 0..n /\ k - 1 \in 0..n /\ k # 0
  BY <1>1
<1>7. Is(g)
  <2>1. \A k \in 1..n : g[k - 1] \in S
    BY <1>5, <1>6 DEF Recursive
  <2>2. \A k \in 0..n : k = 0 \/ k \in 1..n
    BY <1>1
  <2>3. \A k \in 1..n : g[k] = IF Honored(folders[k]) THEN Append(g[k - 1], folders[k]) ELSE g[k - 1]
    BY <1>3, <1>5, <2>1 DEF Recursive
  <2>4. g = [k \in 0..n |-> g[k]] /\ g[0] = <<>>
    BY <1>5 DEF Recursive
  <2>5. QED BY <2>2, <2>3, <2>4
<1>8. honored(folders) \in S
  <2>1. honored(folders) = (CHOOSE h : Is(h))[n]
    BY DEF honored, n
  <2>2. Is(CHOOSE h : Is(h))
    <3> HIDE DEF Is
    <3>1. QED BY <1>7
  <2>3. ASSUME NEW h, Is(h) PROVE h[n] \in S
    <3>1. h[0] = <<>> /\ \A k \in 1..n :
            h[k] = IF Honored(folders[k]) THEN Append(h[k - 1], folders[k]) ELSE h[k - 1]
      <4>1. 0 \in 0..n
        BY <1>1
      <4>2. QED BY <1>6, <2>3, <4>1
    <3> DEFINE Good == {k \in Nat : k <= n => h[k] \in S}
    <3>2. 0 \in Good
      BY <1>3, <3>1
    <3>3. ASSUME NEW k \in Good PROVE k + 1 \in Good
      <4>1. SUFFICES ASSUME k + 1 <= n PROVE h[k + 1] \in S
        BY <3>3
      <4>2. k \in Nat /\ k + 1 \in 1..n /\ k + 1 - 1 = k /\ h[k] \in S
        BY <1>1, <3>3, <4>1
      <4>3. F[k + 1][h[k]] \in S
        BY <1>2, <4>2
      <4>4. QED BY <1>3, <3>1, <4>2, <4>3
    <3>4. n \in Good
      <4> HIDE DEF Good
      <4>1. Good \in SUBSET Nat
        BY DEF Good
      <4>2. QED BY <1>1, <3>2, <3>3, <4>1, Induction
    <3>5. QED BY <1>1, <3>4
  <2>4. QED BY <2>1, <2>2, <2>3
<1>9. QED BY <1>4, <1>8 DEF S

-----------------------------------------------------------------------------
(* What the sources say. *)

LEMMA StrongestIs ==
  ASSUME NEW sources, NEW x, NEW k \in Nat, Setters(sources, x, k) # {}
  PROVE  /\ Strongest(sources, x, k) \in Setters(sources, x, k)
         /\ \A j \in Setters(sources, x, k) : Strongest(sources, x, k) <= j
<1>1. Setters(sources, x, k) \in SUBSET Nat
  BY DEF Setters
<1>2. \E i \in Setters(sources, x, k) : \A j \in Setters(sources, x, k) : i <= j
  BY <1>1, Least
<1>3. QED BY <1>2 DEF Strongest

\* Only the first source that sets x counts.
LEMMA StrongestUnique ==
  ASSUME NEW sources, NEW x, NEW k \in Nat, NEW i \in Setters(sources, x, k),
         \A j \in Setters(sources, x, k) : i <= j
  PROVE  Strongest(sources, x, k) = i
<1>1. /\ Strongest(sources, x, k) \in Setters(sources, x, k)
      /\ \A j \in Setters(sources, x, k) : Strongest(sources, x, k) <= j
  BY StrongestIs
<1>2. QED BY <1>1 DEF Setters

LEMMA UpToFive == \A k \in 1..5 : k \in Nat /\ \A i \in 1..k : i \in 1..5
  OBVIOUS

LEMMA MeaningType ==
  ASSUME NEW sources, NEW V, Unset \in V, "" \in V,
         \A i \in 1..5, y \in Names : sources[i][y] \in V,
         NEW val \in [Names -> [1..5 -> V]], NEW x \in Names, NEW k \in 1..5
  PROVE  Meaning(sources, val, x, k) \in V
<1>1. CASE Setters(sources, x, k) = {}
  BY <1>1 DEF Meaning
<1>2. CASE Setters(sources, x, k) # {}
  <2> DEFINE first == Strongest(sources, x, k)
             v == sources[first][x]
  <2>1. first \in 1..5
    <3>1. k \in Nat
      BY UpToFive
    <3>2. first \in Setters(sources, x, k)
      BY <1>2, <3>1, StrongestIs
    <3> HIDE DEF first
    <3>3. first \in 1..k
      BY <3>2 DEF Setters
    <3>4. QED BY <3>3, UpToFive
  <2>2. v \in V
    BY <2>1
  <2>3. IsRef(v) => val[RefersTo[v]][first] \in V
    <3>1. IsRef(v) => RefersTo[v] \in Names
      BY WebEnvAssumption DEF IsRef
    <3> HIDE DEF first, v
    <3>2. QED BY <2>1, <3>1
  <2>4. Meaning(sources, val, x, k) =
          IF ~IsRef(v) THEN v
          ELSE IF val[RefersTo[v]][first] = Unset THEN "" ELSE val[RefersTo[v]][first]
    BY <1>2 DEF Meaning
  <2> HIDE DEF first, v
  <2>5. QED BY <2>2, <2>3, <2>4
<1>3. QED BY <1>1, <1>2

LEMMA ValuesDef ==
  ASSUME NEW sources
  PROVE  /\ Depth \in Nat
         /\ \A x \in Names, k \in 1..5 :
              /\ Values(sources)[0][x][k] = Unset
              /\ \A d \in 1..Depth :
                   Values(sources)[d][x][k] = Meaning(sources, Values(sources)[d - 1], x, k)
<1> DEFINE V == {Unset, ""} \cup UNION {{sources[i][x] : x \in Names} : i \in 1..5}
           S == [Names -> [1..5 -> V]]
           none == [x \in Names |-> [k \in 1..5 |-> Unset]]
           Next1(val) == [x \in Names |-> [k \in 1..5 |-> Meaning(sources, val, x, k)]]
           F == [d \in 1..Depth |-> [val \in S |-> Next1(val)]]
           Is(g) == g = [d \in 0..Depth |->
                           [x \in Names |-> [k \in 1..5 |->
                              IF d = 0 THEN Unset ELSE Meaning(sources, g[d - 1], x, k)]]]
<1>0. /\ Unset \in V /\ "" \in V
      /\ \A i \in 1..5, y \in Names : sources[i][y] \in V
  <2> DEFINE Of(i) == {sources[i][x] : x \in Names}
             All == {Of(i) : i \in 1..5}
  <2>1. ASSUME NEW i \in 1..5, NEW y \in Names PROVE sources[i][y] \in UNION All
    <3>1. sources[i][y] \in Of(i)
      OBVIOUS
    <3> HIDE DEF Of
    <3>2. Of(i) \in All
      OBVIOUS
    <3> HIDE DEF All
    <3>3. QED BY <3>1, <3>2
  <2> HIDE DEF All
  <2>2. Unset \in {Unset, ""} \cup UNION All /\ "" \in {Unset, ""} \cup UNION All
    OBVIOUS
  <2>3. V = {Unset, ""} \cup UNION All
    BY DEF All
  <2> HIDE DEF V
  <2>4. QED BY <2>1, <2>2, <2>3
<1>1. Depth \in Nat
  BY NamesNumberType DEF Depth, NamesNumber
<1>2. none \in S
  OBVIOUS
<1>3. ASSUME NEW val \in S, NEW x \in Names, NEW k \in 1..5
      PROVE  Meaning(sources, val, x, k) \in V
  <2> HIDE DEF V
  <2>1. QED BY <1>3, <1>0, MeaningType
<1>4. F \in [1..Depth -> [S -> S]]
  <2>1. ASSUME NEW val \in S PROVE Next1(val) \in S
    <3> HIDE DEF V
    <3>1. QED BY <1>3
  <2> HIDE DEF Next1, S
  <2>2. QED BY <2>1
<1>5. \A d \in 1..Depth, val \in S : F[d][val] = Next1(val)
  <2> HIDE DEF Next1, S
  <2>1. QED OBVIOUS
<1> HIDE DEF V, S, F
<1>6. PICK g : Recursive(g, Depth, S, none, F)
  <2> HIDE DEF none
  <2> QED BY <1>1, <1>2, <1>4, Recursion
<1>7. \A d \in 1..Depth : d \in 0..Depth /\ d - 1 \in 0..Depth /\ d # 0
  BY <1>1
<1>8. Is(g)
  <2>1. \A d \in 1..Depth : g[d - 1] \in S
    BY <1>6, <1>7 DEF Recursive
  <2>2. \A d \in 1..Depth : g[d] = Next1(g[d - 1])
    <3> HIDE DEF Next1
    <3> QED BY <1>5, <1>6, <2>1 DEF Recursive
  <2>3. \A d \in 0..Depth : d = 0 \/ d \in 1..Depth
    BY <1>1
  <2>4. g = [d \in 0..Depth |-> g[d]] /\ g[0] = none
    BY <1>6 DEF Recursive
  <2>5. \A d \in 0..Depth : g[d] = [x \in Names |-> [k \in 1..5 |->
                              IF d = 0 THEN Unset ELSE Meaning(sources, g[d - 1], x, k)]]
    <3> SUFFICES ASSUME NEW d \in 0..Depth
                 PROVE  g[d] = [x \in Names |-> [k \in 1..5 |->
                              IF d = 0 THEN Unset ELSE Meaning(sources, g[d - 1], x, k)]]
      OBVIOUS
    <3>1. CASE d = 0
      BY <2>4, <3>1
    <3>2. CASE d # 0
      BY <2>2, <2>3, <3>2
    <3>3. QED BY <3>1, <3>2
  <2>6. QED BY <2>4, <2>5
<1>9. Is(Values(sources))
  <2>1. Values(sources) = CHOOSE h : Is(h)
    BY DEF Values
  <2> HIDE DEF Is
  <2>2. QED BY <1>8, <2>1
<1>10. 0 \in 0..Depth
  BY <1>1
<1>11. \A x \in Names, k \in 1..5 : Values(sources)[0][x][k] = Unset
  BY <1>9, <1>10
<1>12. ASSUME NEW x \in Names, NEW k \in 1..5, NEW d \in 1..Depth
       PROVE  Values(sources)[d][x][k] = Meaning(sources, Values(sources)[d - 1], x, k)
  <2>1. d \in 0..Depth /\ d # 0
    BY <1>7
  <2>2. Values(sources)[d] = [y \in Names |-> [l \in 1..5 |->
          IF d = 0 THEN Unset ELSE Meaning(sources, Values(sources)[d - 1], y, l)]]
    BY <1>9, <2>1, Zenon
  <2>3. QED BY <2>1, <2>2
<1>13. QED BY <1>1, <1>11, <1>12

-----------------------------------------------------------------------------
(* One source more. *)

LEMMA SettersNext ==
  ASSUME NEW sources, NEW x, NEW k \in Nat
  PROVE  Setters(sources, x, k + 1) =
           Setters(sources, x, k) \cup (IF sources[k + 1][x] # Unset THEN {k + 1} ELSE {})
<1>1. \A i : i \in 1..(k + 1) <=> i \in 1..k \/ i = k + 1
  OBVIOUS
<1>2. QED BY <1>1 DEF Setters

\* What a source sets stays, whatever comes after it.
LEMMA SetBefore ==
  ASSUME NEW sources, NEW x \in Names, NEW k \in 1..4, NEW d \in 1..Depth,
         Setters(sources, x, k) # {}
  PROVE  Values(sources)[d][x][k + 1] = Values(sources)[d][x][k]
<1> DEFINE i == Strongest(sources, x, k)
<1>1. k \in Nat /\ k \in 1..5 /\ k + 1 \in 1..5 /\ k + 1 \in Nat
  OBVIOUS
<1>2. i \in Setters(sources, x, k) /\ \A j \in Setters(sources, x, k) : i <= j
  BY <1>1, StrongestIs
<1>3. i \in Setters(sources, x, k + 1) /\ \A j \in Setters(sources, x, k + 1) : i <= j
  <2> HIDE DEF i
  <2>1. i \in 1..k
    BY <1>2 DEF Setters
  <2>2. QED BY <1>1, <1>2, <2>1, SettersNext
<1>4. Strongest(sources, x, k + 1) = i
  <2> HIDE DEF i
  <2>1. QED BY <1>1, <1>3, StrongestUnique
<1>5. Meaning(sources, Values(sources)[d - 1], x, k + 1) = Meaning(sources, Values(sources)[d - 1], x, k)
  BY <1>3, <1>4 DEF Meaning
<1>6. QED BY <1>1, <1>5, ValuesDef

\* A reference to nothing means the empty text.
TextOf(w) == IF w = Unset THEN "" ELSE w

LEMMA TextOfText == \A w : TextOf(w) # Unset /\ TextOf(TextOf(w)) = TextOf(w)
  BY DEF Unset, TextOf

LEMMA ValueStep ==
  ASSUME NEW sources, NEW x \in Names, NEW k \in 1..5, NEW d \in 1..Depth
  PROVE  LET v == sources[Strongest(sources, x, k)][x] IN
         Values(sources)[d][x][k] =
           IF Setters(sources, x, k) = {} THEN Unset
           ELSE IF ~IsRef(v) THEN v
           ELSE TextOf(Values(sources)[d - 1][RefersTo[v]][Strongest(sources, x, k)])
<1>1. Values(sources)[d][x][k] = Meaning(sources, Values(sources)[d - 1], x, k)
  BY ValuesDef
<1>2. QED BY <1>1 DEF Meaning, TextOf

LEMMA NotSet ==
  ASSUME NEW sources, NEW x \in Names, NEW k \in 1..5, NEW d \in 0..Depth,
         Setters(sources, x, k) = {}
  PROVE  Values(sources)[d][x][k] = Unset
<1>1. CASE d = 0
  BY <1>1, ValuesDef
<1>2. CASE d # 0
  <2>1. d \in 1..Depth
    BY <1>2, ValuesDef
  <2>2. QED BY <2>1, ValueStep
<1>3. QED BY <1>1, <1>2

LEMMA IsSet ==
  ASSUME NEW sources, NEW x \in Names, NEW k \in 1..5, NEW d \in 1..Depth,
         Setters(sources, x, k) # {}
  PROVE  Values(sources)[d][x][k] # Unset
<1>1. sources[Strongest(sources, x, k)][x] # Unset
  <2>1. k \in Nat
    BY UpToFive
  <2>2. Strongest(sources, x, k) \in Setters(sources, x, k)
    BY <2>1, StrongestIs
  <2>3. QED BY <2>2 DEF Setters
<1>2. QED BY <1>1, ValueStep, TextOfText

LEMMA SetNow ==
  ASSUME NEW sources, NEW x \in Names, NEW k \in 1..4, NEW d \in 1..Depth,
         Setters(sources, x, k) = {}, sources[k + 1][x] # Unset
  PROVE  LET v == sources[k + 1][x] IN
         Values(sources)[d][x][k + 1] =
           IF ~IsRef(v) THEN v ELSE TextOf(Values(sources)[d - 1][RefersTo[v]][k + 1])
<1>1. k \in Nat /\ k \in 1..5 /\ k + 1 \in 1..5 /\ k + 1 \in Nat
  OBVIOUS
<1>2. Setters(sources, x, k + 1) = {k + 1}
  BY <1>1, SettersNext
<1>3. Strongest(sources, x, k + 1) = k + 1
  BY <1>1, <1>2, StrongestUnique
<1>4. Setters(sources, x, k + 1) # {}
  BY <1>2
<1>5. QED BY <1>1, <1>3, <1>4, ValueStep

\* The values e are those of all who see k sources and follow d references or more.
Knows(sources, e, k, d) ==
  \A x \in Names : \A l \in d..Depth : Values(sources)[l][x][k] = e[x]

\* dotenv adds a source: if e has the values of the first k and no reference in it, then what
\* env.js has after the next file are those of the first k + 1, or there is a circle in it.
LEMMA DotenvAddsSource ==
  ASSUME NEW sources, NEW e, NEW k \in 1..4, NEW d \in Nat, d >= 1,
         Knows(sources, e, k, d),
         \A x \in Names : ~IsRef(e[x]),
         \A x \in Names : ~IsRef(dotenv(e, sources[k + 1])[x])
  PROVE  Knows(sources, dotenv(e, sources[k + 1]), k + 1, d + NamesNumber + 1)
<1> DEFINE next == sources[k + 1]
           set == SetMissing(e, next)
           V(l, x) == Values(sources)[l][x][k + 1]
<1>1. SUFFICES ASSUME NEW x \in Names, NEW l \in (d + NamesNumber + 1)..Depth
               PROVE  V(l, x) = dotenv(e, next)[x]
  BY DEF Knows
<1>2. /\ Depth \in Nat /\ NamesNumber \in Nat /\ k \in 1..5 /\ k + 1 \in 1..5
      /\ \A m \in d..Depth : m \in 1..Depth /\ m \in 0..Depth
      /\ Depth \in d..Depth
  BY ValuesDef, NamesNumberType
<1>3. \A y \in Names : Setters(sources, y, k) = {} <=> e[y] = Unset
  <2>1. \A y \in Names : Values(sources)[Depth][y][k] = e[y]
    BY <1>2 DEF Knows
  <2>2. QED BY <1>2, <2>1, NotSet, IsSet
<1>4. \A y \in Names : set[y] = IF e[y] = Unset THEN next[y] ELSE e[y]
  BY DEF SetMissing
\* Before this file.
<1>5. \A y \in Names, m \in d..Depth : e[y] # Unset => V(m, y) = e[y]
  BY <1>2, <1>3, SetBefore DEF Knows
\* Nowhere.
<1>6. \A y \in Names, m \in d..Depth : e[y] = Unset /\ next[y] = Unset => V(m, y) = Unset
  <2>1. \A y \in Names : e[y] = Unset /\ next[y] = Unset => Setters(sources, y, k + 1) = {}
    BY <1>2, <1>3, SettersNext
  <2>2. QED BY <1>2, <2>1, NotSet
\* In this file.
<1>7. \A y \in Names, m \in d..Depth : e[y] = Unset /\ next[y] # Unset =>
        V(m, y) = IF ~IsRef(next[y]) THEN next[y] ELSE TextOf(V(m - 1, RefersTo[next[y]]))
  BY <1>2, <1>3, SetNow
\* A chain of references ends where the strongest source of each of its variables says.
<1>8. \A v \in DOMAIN RefersTo, m \in (d + NamesNumber)..Depth :
        ~IsRef(Follow(set, v)[NamesNumber]) =>
          Follow(set, v)[NamesNumber] = TextOf(V(m, RefersTo[v]))
  <2> DEFINE Good == {j \in Nat : j <= NamesNumber =>
               \A v \in DOMAIN RefersTo, m \in (d + j)..Depth :
                 ~IsRef(Follow(set, v)[j]) => Follow(set, v)[j] = TextOf(V(m, RefersTo[v]))}
  <2> HIDE DEF set, V
  <2>1. 0 \in Good
    <3>1. \A v \in DOMAIN RefersTo : IsRef(Follow(set, v)[0])
      BY FollowDef DEF IsRef
    <3>2. QED BY <3>1
  <2>2. ASSUME NEW j \in Good PROVE j + 1 \in Good
    <3>1. j \in Nat
      OBVIOUS
    <3>2. SUFFICES ASSUME j + 1 <= NamesNumber,
                          NEW v \in DOMAIN RefersTo, NEW m \in (d + (j + 1))..Depth,
                          ~IsRef(Follow(set, v)[j + 1])
                   PROVE  Follow(set, v)[j + 1] = TextOf(V(m, RefersTo[v]))
      BY <3>1
    <3> DEFINE u == Referent(set, v)
               y == RefersTo[v]
    <3>3. y \in Names /\ u = TextOf(set[y])
      BY WebEnvAssumption DEF Referent, IsRef, TextOf
    <3>4. /\ j + 1 \in 1..NamesNumber /\ j + 1 - 1 = j /\ j \in 0..NamesNumber /\ j <= NamesNumber
          /\ m \in d..Depth /\ m - 1 \in (d + j)..Depth /\ m \in Int
      BY <1>2, <3>1, <3>2
    <3>5. Follow(set, v)[j + 1] = Follow(set, u)[j]
      BY <3>4, FollowShift
    <3> HIDE DEF u
    <3>6. \A w \in DOMAIN RefersTo :
            ~IsRef(Follow(set, w)[j]) => Follow(set, w)[j] = TextOf(V(m - 1, RefersTo[w]))
      BY <2>2, <3>4
    <3> HIDE DEF Good, y
    <3>7. CASE ~IsRef(u)
      <4>1. Follow(set, v)[j + 1] = u
        BY <3>4, <3>5, <3>7, FollowValue
      <4>2. CASE e[y] # Unset
        BY <1>4, <1>5, <3>3, <3>4, <4>1, <4>2 DEF y
      <4>3. CASE e[y] = Unset /\ next[y] = Unset
        BY <1>4, <1>6, <3>3, <3>4, <4>1, <4>3 DEF y
      <4>4. CASE e[y] = Unset /\ next[y] # Unset
        <5>1. u = next[y]
          BY <1>4, <3>3, <4>4 DEF TextOf
        <5>2. V(m, y) = next[y]
          BY <1>7, <3>3, <3>4, <3>7, <4>4, <5>1
        <5>3. QED BY <4>1, <4>4, <5>1, <5>2 DEF TextOf, y
      <4>5. QED BY <4>2, <4>3, <4>4
    <3>8. CASE IsRef(u)
      <4>1. e[y] = Unset /\ next[y] # Unset /\ u = next[y]
        BY <1>4, <3>3, <3>8, WebEnvAssumption DEF TextOf
      <4>2. V(m, y) = TextOf(V(m - 1, RefersTo[u]))
        BY <1>7, <3>3, <3>4, <3>8, <4>1
      <4>3. Follow(set, u)[j] = TextOf(V(m - 1, RefersTo[u]))
        BY <3>2, <3>5, <3>6, <3>8 DEF IsRef
      <4>4. QED BY <3>5, <4>2, <4>3, TextOfText DEF y
    <3>9. QED BY <3>7, <3>8
  <2>3. Good = Nat
    <3> HIDE DEF Good
    <3>1. Good \in SUBSET Nat
      BY DEF Good
    <3>2. QED BY <2>1, <2>2, <3>1, Induction
  <2>4. NamesNumber \in Good
    BY <1>2, <2>3
  <2>5. QED BY <2>4
<1>9. /\ l \in d..Depth /\ l - 1 \in (d + NamesNumber)..Depth
  BY <1>2
<1> HIDE DEF V, set
<1>10. CASE next[x] = Unset
  <2>1. dotenv(e, next)[x] = e[x]
    BY <1>4, <1>10 DEF dotenv, set
  <2>2. QED BY <1>5, <1>6, <1>9, <1>10, <2>1
<1>11. CASE next[x] # Unset
  <2>1. dotenv(e, next)[x] = Expand(set, set[x])
    BY <1>11 DEF dotenv, set
  <2>2. Expand(set, set[x]) = Follow(set, set[x])[NamesNumber]
    BY FollowDef
  <2>3. ~IsRef(set[x]) => Expand(set, set[x]) = set[x]
    BY <1>2, <2>2, FollowValue
  <2>4. CASE e[x] # Unset
    BY <1>4, <1>5, <1>9, <2>1, <2>3, <2>4
  <2>5. CASE e[x] = Unset /\ ~IsRef(next[x])
    BY <1>4, <1>7, <1>9, <1>11, <2>1, <2>3, <2>5
  <2>6. CASE e[x] = Unset /\ IsRef(next[x])
    <3>1. set[x] = next[x]
      BY <1>4, <2>6
    <3>2. V(l, x) = TextOf(V(l - 1, RefersTo[next[x]]))
      BY <1>7, <1>9, <1>11, <2>6
    <3>3. ~IsRef(Follow(set, next[x])[NamesNumber])
      BY <2>1, <2>2, <3>1
    <3>4. Follow(set, next[x])[NamesNumber] = TextOf(V(l - 1, RefersTo[next[x]]))
      BY <1>8, <1>9, <2>6, <3>3 DEF IsRef
    <3>5. QED BY <2>1, <2>2, <3>1, <3>2, <3>4
  <2>7. QED BY <2>4, <2>5, <2>6
<1>12. QED BY <1>10, <1>11

-----------------------------------------------------------------------------
(* Searching a list. *)

LEMMA MinIs ==
  ASSUME NEW S \in SUBSET Nat, S # {}
  PROVE  Min(S) \in S /\ \A n \in S : Min(S) <= n
  BY Least DEF Min

\* SelectInSeq, for the two tests that the model has.
LEMMA FirstFolder ==
  ASSUME NEW folders, Len(folders) \in Nat
  PROVE  LET first == SelectInSeq(folders, LAMBDA d : Found(d) # {}) IN
         first # 0 =>
           /\ first \in 1..Len(folders)
           /\ Found(folders[first]) # {}
           /\ \A i \in 1..Len(folders) : Found(folders[i]) # {} => first <= i
<1> DEFINE S == {i \in 1..Len(folders) : Found(folders[i]) # {}}
<1>1. SelectInSeq(folders, LAMBDA d : Found(d) # {}) = IF S # {} THEN Min(S) ELSE 0
  BY DEF SelectInSeq
<1>2. CASE S = {}
  BY <1>1, <1>2
<1>3. CASE S # {}
  <2>1. S \in SUBSET Nat
    OBVIOUS
  <2>2. Min(S) \in S /\ \A i \in S : Min(S) <= i
    <3> HIDE DEF S
    <3> QED BY <1>3, <2>1, MinIs
  <2>3. SelectInSeq(folders, LAMBDA d : Found(d) # {}) = Min(S)
    BY <1>1, <1>3
  <2>4. QED BY <2>2, <2>3
<1>4. QED BY <1>2, <1>3

LEMMA FirstRule ==
  ASSUME NEW f
  PROVE  LET first == SelectInSeq(rules(f), LAMBDA r : r.matches) IN
         \/ first = 0 /\ \A i \in 1..8 : ~rules(f)[i].matches
         \/ /\ first \in 1..8
            /\ rules(f)[first].matches
            /\ \A i \in 1..8 : rules(f)[i].matches => first <= i
<1> DEFINE S == {i \in 1..8 : rules(f)[i].matches}
<1>0. Len(rules(f)) = 8
  BY DEF rules
<1>1. SelectInSeq(rules(f), LAMBDA r : r.matches) = IF S # {} THEN Min(S) ELSE 0
  BY <1>0 DEF SelectInSeq
<1>2. CASE S = {}
  BY <1>1, <1>2
<1>3. CASE S # {}
  <2>1. S \in SUBSET Nat
    OBVIOUS
  <2>2. Min(S) \in S /\ \A i \in S : Min(S) <= i
    <3> HIDE DEF S
    <3> QED BY <1>3, <2>1, MinIs
  <2>3. SelectInSeq(rules(f), LAMBDA r : r.matches) = Min(S)
    BY <1>1, <1>3
  <2>4. QED BY <2>2, <2>3
<1>4. QED BY <1>2, <1>3

LEMMA RulesAre ==
  ASSUME NEW f
  PROVE  /\ rules(f)[1].matches <=> f.ext \in Images
         /\ rules(f)[2].matches <=> f.ext \in JsExtensions /\ f.dir = "src"
         /\ rules(f)[3].matches <=> f.ext \in PlainJs
         /\ rules(f)[4].matches <=> f.ext = "css"
         /\ rules(f)[5].matches <=> f.ext = "module.css"
         /\ rules(f)[6].matches <=> f.ext = "scss"
         /\ rules(f)[7].matches <=> f.ext = "module.scss"
         /\ rules(f)[8].matches <=> f.ext \notin JsExtensions \cup {"html", "json"}
  BY Zenon DEF rules, Rule, cssRegex, cssModuleRegex, sassRegex, sassModuleRegex

-----------------------------------------------------------------------------
(* The loaders of a file. *)

\* The loaders of style sheets with the options that they get.
StyleTag == IF isEnvDevelopment THEN Option("style-loader") ELSE Option("mini-css-extract")
Wanted == isEnvProduction /\ shouldUseSourceMap
Post == [Option("postcss-loader") EXCEPT !.sourceMap = Wanted]
ResolveUrl == [Option("resolve-url-loader") EXCEPT !.sourceMap = Wanted]
Sass == [Option("sass-loader") EXCEPT !.sourceMap = TRUE]

LEMMA StyleLoaders ==
  ASSUME NEW css
  PROVE  /\ getStyleLoaders(css, "") = <<StyleTag, css, Post>>
         /\ getStyleLoaders(css, "sass-loader") = <<StyleTag, css, Post, ResolveUrl, Sass>>
<1> DEFINE a == StyleTag
<1>1. (IF isEnvDevelopment THEN <<Option("style-loader")>> ELSE <<Option("mini-css-extract")>>) = <<a>>
  BY DEF StyleTag
<1>2. getStyleLoaders(css, "") = <<a>> \o <<css, Post>> \o <<>>
  BY <1>1, "" # "sass-loader" DEF getStyleLoaders, Post, Wanted
<1>3. getStyleLoaders(css, "sass-loader") = <<a>> \o <<css, Post>> \o <<ResolveUrl, Sass>>
  BY <1>1 DEF getStyleLoaders, Post, ResolveUrl, Sass, Wanted
<1> HIDE DEF a
<1>4. ASSUME NEW p, NEW q, NEW r
      PROVE  <<p>> \o <<q, r>> = <<p, q, r>>
  <2> DEFINE S == {p, q, r}
             T == <<p>> \o <<q, r>>
  <2>1. <<p>> \in Seq(S) /\ <<q, r>> \in Seq(S) /\ <<p, q, r>> \in Seq(S)
    OBVIOUS
  <2>2. T \in Seq(S) /\ Len(T) = 3 /\ T[1] = p /\ T[2] = q /\ T[3] = r
    BY <2>1
  <2> HIDE DEF S, T
  <2>3. \A i \in 1..3 : T[i] = <<p, q, r>>[i]
    BY <2>2
  <2>4. QED BY <2>1, <2>2, <2>3, SeqEqual DEF T
<1>6. ASSUME NEW p, NEW q, NEW r, NEW x, NEW y
      PROVE  <<p, q, r>> \o <<x, y>> = <<p, q, r, x, y>>
  <2> DEFINE S == {p, q, r, x, y}
             T == <<p, q, r>> \o <<x, y>>
  <2>1. <<p, q, r>> \in Seq(S) /\ <<x, y>> \in Seq(S) /\ <<p, q, r, x, y>> \in Seq(S)
    OBVIOUS
  <2>2. T \in Seq(S) /\ Len(T) = 5 /\ T[1] = p /\ T[2] = q /\ T[3] = r /\ T[4] = x /\ T[5] = y
    BY <2>1
  <2> HIDE DEF S, T
  <2>3. \A i \in 1..5 : T[i] = <<p, q, r, x, y>>[i]
    BY <2>2
  <2>4. QED BY <2>1, <2>2, <2>3, SeqEqual DEF T
<1>7. <<a, css, Post>> \o <<>> = <<a, css, Post>>
  <2>1. <<a, css, Post>> \in Seq({a, css, Post})
    OBVIOUS
  <2>2. QED BY <2>1
<1>8. <<a>> \o <<css, Post>> = <<a, css, Post>>
  BY <1>4
<1>9. <<a, css, Post>> \o <<ResolveUrl, Sass>> = <<a, css, Post, ResolveUrl, Sass>>
  BY <1>6
<1>10. getStyleLoaders(css, "") = <<a, css, Post>>
  BY <1>2, <1>7, <1>8, Zenon
<1>11. getStyleLoaders(css, "sass-loader") = <<a, css, Post, ResolveUrl, Sass>>
  BY <1>3, <1>8, <1>9, Zenon
<1>12. QED BY <1>10, <1>11 DEF a

LEMMA UsesAre ==
  ASSUME NEW f
  PROVE  \/ ~(f.dir = "src" /\ f.ext \in JsExtensions) /\ Uses(f) = <<>>
         \/ f.ext \in Images /\ Uses(f) = <<Option("url-loader")>>
         \/ /\ f.dir = "src" /\ f.ext \in JsExtensions
            /\ Uses(f) = <<Option("babel-loader: app"), Option("eslint-loader")>>
         \/ /\ f.dir # "src" /\ f.ext \in PlainJs
            /\ Uses(f) = <<Option("babel-loader: dependencies")>>
         \/ \E local \in BOOLEAN :
              /\ f.ext \in {"css", "module.css"}
              /\ Uses(f) = <<StyleTag, cssLoader(1, local), Post>>
         \/ \E local \in BOOLEAN :
              /\ f.ext \in {"scss", "module.scss"}
              /\ Uses(f) = <<StyleTag, cssLoader(3, local), Post, ResolveUrl, Sass>>
         \/ f.ext \notin JsExtensions /\ Uses(f) = <<Option("file-loader")>>
<1>0. PICK r :
        /\ Uses(f) = (IF r = 0 THEN <<>> ELSE rules(f)[r].use) \o pre(f)
        /\ \/ r = 0 /\ \A i \in 1..8 : ~rules(f)[i].matches
           \/ r \in 1..8 /\ rules(f)[r].matches /\ \A i \in 1..8 : rules(f)[i].matches => r <= i
  <2>1. WITNESS SelectInSeq(rules(f), LAMBDA q : q.matches)
  <2>2. QED BY FirstRule, Zenon DEF Uses
<1>1. Uses(f) = (IF r = 0 THEN <<>> ELSE rules(f)[r].use) \o pre(f)
  BY <1>0
<1>2. \/ r = 0 /\ \A i \in 1..8 : ~rules(f)[i].matches
      \/ r \in 1..8 /\ rules(f)[r].matches /\ \A i \in 1..8 : rules(f)[i].matches => r <= i
  BY <1>0
<1>3. /\ Images \cap JsExtensions = {} /\ PlainJs \subseteq JsExtensions
      /\ "css" \notin JsExtensions /\ "module.css" \notin JsExtensions
      /\ "scss" \notin JsExtensions /\ "module.scss" \notin JsExtensions
  BY DEF Images, JsExtensions, PlainJs
<1>4. /\ rules(f)[1].use = <<Option("url-loader")>>
      /\ rules(f)[2].use = <<Option("babel-loader: app")>>
      /\ rules(f)[3].use = <<Option("babel-loader: dependencies")>>
      /\ rules(f)[4].use = getStyleLoaders(cssLoader(1, FALSE), "")
      /\ rules(f)[5].use = getStyleLoaders(cssLoader(1, TRUE), "")
      /\ rules(f)[6].use = getStyleLoaders(cssLoader(3, FALSE), "sass-loader")
      /\ rules(f)[7].use = getStyleLoaders(cssLoader(3, TRUE), "sass-loader")
      /\ rules(f)[8].use = <<Option("file-loader")>>
  BY Zenon DEF rules, Rule
<1>5. pre(f) = IF f.ext \in JsExtensions /\ f.dir = "src" THEN <<Option("eslint-loader")>> ELSE <<>>
  BY DEF pre
<1>6. /\ \A p : <<p>> \o <<>> = <<p>>
      /\ \A p, q, t : <<p, q, t>> \o <<>> = <<p, q, t>>
      /\ \A p, q, t, x, y : <<p, q, t, x, y>> \o <<>> = <<p, q, t, x, y>>
      /\ <<>> \o <<>> = <<>>
  <2>1. ASSUME NEW S, NEW q \in Seq(S) PROVE q \o <<>> = q
    BY ConcatEmptySeq
  <2>2. /\ \A p : <<p>> \in Seq({p})
        /\ \A p, q, t : <<p, q, t>> \in Seq({p, q, t})
        /\ \A p, q, t, x, y : <<p, q, t, x, y>> \in Seq({p, q, t, x, y})
        /\ <<>> \in Seq({})
    OBVIOUS
  <2>3. QED BY <2>1, <2>2
<1>7. <<Option("babel-loader: app")>> \o <<Option("eslint-loader")>> =
        <<Option("babel-loader: app"), Option("eslint-loader")>>
  <2>1. ASSUME NEW p, NEW q PROVE <<p>> \o <<q>> = <<p, q>>
    <3> DEFINE S == {p, q}
               T == <<p>> \o <<q>>
    <3>1. <<p>> \in Seq(S) /\ <<q>> \in Seq(S) /\ <<p, q>> \in Seq(S)
      OBVIOUS
    <3>2. T \in Seq(S) /\ Len(T) = 2 /\ T[1] = p /\ T[2] = q
      BY <3>1
    <3> HIDE DEF S, T
    <3>3. \A i \in 1..2 : T[i] = <<p, q>>[i]
      BY <3>2
    <3>4. QED BY <3>1, <3>2, <3>3, SeqEqual DEF T
  <2>2. QED BY <2>1
<1>8. CASE r = 0
  <2>1. f.ext \notin JsExtensions \/ f.dir # "src"
    BY <1>2, <1>8, RulesAre
  <2>2. pre(f) = <<>>
    BY <1>5, <2>1, Zenon
  <2>3. Uses(f) = <<>>
    BY <1>1, <1>6, <1>8, <2>2, Zenon
  <2>4. QED BY <2>1, <2>3
<1>9. CASE r = 1
  <2>1. f.ext \in Images
    BY <1>2, <1>9, RulesAre
  <2>2. pre(f) = <<>>
    BY <1>3, <1>5, <2>1, Zenon
  <2>3. r # 0
    BY <1>9
  <2>4. rules(f)[r].use = <<Option("url-loader")>>
    BY <1>4, <1>9, Zenon
  <2>5. Uses(f) = <<Option("url-loader")>>
    BY <1>1, <1>6, <2>2, <2>3, <2>4, Zenon
  <2>6. QED BY <2>1, <2>5
<1>10. CASE r = 2
  <2>1. f.ext \in JsExtensions /\ f.dir = "src"
    BY <1>2, <1>10, RulesAre
  <2>2. pre(f) = <<Option("eslint-loader")>>
    BY <1>5, <2>1, Zenon
  <2>3. r # 0
    BY <1>10
  <2>4. rules(f)[r].use = <<Option("babel-loader: app")>>
    BY <1>4, <1>10, Zenon
  <2>5. Uses(f) = <<Option("babel-loader: app"), Option("eslint-loader")>>
    BY <1>1, <1>7, <2>2, <2>3, <2>4, Zenon
  <2>6. QED BY <2>1, <2>5
<1>11. CASE r = 3
  <2>1. f.ext \in PlainJs
    BY <1>2, <1>11, RulesAre
  <2>2. f.dir # "src"
    <3>1. f.ext \in JsExtensions /\ f.dir = "src" => rules(f)[2].matches
      BY RulesAre
    <3>2. ~rules(f)[2].matches
      BY <1>2, <1>11
    <3>3. QED BY <1>3, <2>1, <3>1, <3>2, Zenon
  <2>3. pre(f) = <<>>
    BY <1>5, <2>2, Zenon
  <2>4. r # 0
    BY <1>11
  <2>5. rules(f)[r].use = <<Option("babel-loader: dependencies")>>
    BY <1>4, <1>11, Zenon
  <2>6. Uses(f) = <<Option("babel-loader: dependencies")>>
    BY <1>1, <1>6, <2>3, <2>4, <2>5, Zenon
  <2>7. QED BY <2>1, <2>2, <2>6
<1>12. CASE r \in {4, 5}
  <2>1. PICK local \in BOOLEAN : rules(f)[r].use = getStyleLoaders(cssLoader(1, local), "")
    BY <1>4, <1>12
  <2>2. f.ext \in {"css", "module.css"}
    BY <1>2, <1>12, RulesAre
  <2>3. pre(f) = <<>>
    BY <1>3, <1>5, <2>2, Zenon
  <2>4. r # 0
    BY <1>12
  <2>5. rules(f)[r].use = <<StyleTag, cssLoader(1, local), Post>>
    BY <2>1, StyleLoaders, Zenon
  <2>6. Uses(f) = <<StyleTag, cssLoader(1, local), Post>>
    BY <1>1, <1>6, <2>3, <2>4, <2>5, Zenon
  <2>7. QED BY <2>2, <2>6
<1>13. CASE r \in {6, 7}
  <2>1. PICK local \in BOOLEAN : rules(f)[r].use = getStyleLoaders(cssLoader(3, local), "sass-loader")
    BY <1>4, <1>13
  <2>2. f.ext \in {"scss", "module.scss"}
    BY <1>2, <1>13, RulesAre
  <2>3. pre(f) = <<>>
    BY <1>3, <1>5, <2>2, Zenon
  <2>4. r # 0
    BY <1>13
  <2>5. rules(f)[r].use = <<StyleTag, cssLoader(3, local), Post, ResolveUrl, Sass>>
    BY <2>1, StyleLoaders, Zenon
  <2>6. Uses(f) = <<StyleTag, cssLoader(3, local), Post, ResolveUrl, Sass>>
    BY <1>1, <1>6, <2>3, <2>4, <2>5, Zenon
  <2>7. QED BY <2>2, <2>6
<1>14. CASE r = 8
  <2>1. f.ext \notin JsExtensions
    BY <1>2, <1>14, RulesAre
  <2>2. pre(f) = <<>>
    BY <1>5, <2>1, Zenon
  <2>3. r # 0
    BY <1>14
  <2>4. rules(f)[r].use = <<Option("file-loader")>>
    BY <1>4, <1>14, Zenon
  <2>5. Uses(f) = <<Option("file-loader")>>
    BY <1>1, <1>6, <2>2, <2>3, <2>4, Zenon
  <2>6. QED BY <2>1, <2>5
<1>15. r = 0 \/ r = 1 \/ r = 2 \/ r = 3 \/ r \in {4, 5} \/ r \in {6, 7} \/ r = 8
  BY <1>2
<1>16. QED BY <1>8, <1>9, <1>10, <1>11, <1>12, <1>13, <1>14, <1>15, Zenon

\* What the loaders l make of a file that starts as c.
Composes(l, c) ==
  /\ \E S : l \in Seq(S)
  /\ \A n \in 2..Len(l) : \A d : Reads(l[n], d) => Reads(l[n - 1], Gives(l[n], d))
  /\ Len(l) > 0 => Reads(l[Len(l)], c)
  /\ \A n \in 1..Len(l) : l[n].loader = "css-loader" => l[n].importLoaders = Len(l) - n

LEMMA LoaderNames ==
  /\ \A n : Option(n).loader = n
  /\ \A k, local : cssLoader(k, local).loader = "css-loader" /\ cssLoader(k, local).importLoaders = k
  /\ Post.loader = "postcss-loader"
  /\ ResolveUrl.loader = "resolve-url-loader"
  /\ Sass.loader = "sass-loader" /\ Sass.sourceMap = TRUE
  /\ StyleTag.loader \in {"style-loader", "mini-css-extract"}
  BY DEF Option, cssLoader, Post, ResolveUrl, Sass, StyleTag

\* What each kind of loader reads, and that the next one reads what it gives.
LEMMA LoaderPairs ==
  ASSUME NEW a, NEW b, NEW d
  PROVE  /\ a.loader = "babel-loader: app" /\ b.loader = "eslint-loader" /\ Reads(b, d) =>
              Reads(a, Gives(b, d))
         /\ a.loader = "resolve-url-loader" /\ b.loader = "sass-loader" /\ b.sourceMap = TRUE =>
              Reads(a, Gives(b, d))
         /\ a.loader = "postcss-loader" /\ b.loader = "resolve-url-loader" => Reads(a, Gives(b, d))
         /\ a.loader = "css-loader" /\ b.loader = "postcss-loader" => Reads(a, Gives(b, d))
         /\ a.loader \in {"style-loader", "mini-css-extract"} /\ b.loader = "css-loader" =>
              Reads(a, Gives(b, d))
<1>1. a.loader = "babel-loader: app" /\ b.loader = "eslint-loader" /\ Reads(b, d) =>
        Reads(a, Gives(b, d))
  BY DEF Reads, Gives
<1>2. a.loader = "resolve-url-loader" /\ b.loader = "sass-loader" /\ b.sourceMap = TRUE =>
        Reads(a, Gives(b, d))
  BY DEF Reads, Gives
<1>3. a.loader = "postcss-loader" /\ b.loader = "resolve-url-loader" => Reads(a, Gives(b, d))
  BY DEF Reads, Gives
<1>4. a.loader = "css-loader" /\ b.loader = "postcss-loader" => Reads(a, Gives(b, d))
  BY DEF Reads, Gives
<1>5. a.loader \in {"style-loader", "mini-css-extract"} /\ b.loader = "css-loader" =>
        Reads(a, Gives(b, d))
  BY DEF Reads, Gives
<1>6. QED BY <1>1, <1>2, <1>3, <1>4, <1>5

LEMMA FirstReads ==
  ASSUME NEW o, NEW ext
  PROVE  LET c == [kind |-> SourceKind(ext), map |-> FALSE] IN
         /\ o.loader \in {"url-loader", "file-loader"} => Reads(o, c)
         /\ o.loader = "eslint-loader" /\ ext \in JsExtensions => Reads(o, c)
         /\ o.loader = "babel-loader: dependencies" /\ ext \in PlainJs => Reads(o, c)
         /\ o.loader = "postcss-loader" /\ ext \in {"css", "module.css"} => Reads(o, c)
         /\ o.loader = "sass-loader" /\ ext \in {"scss", "module.scss"} => Reads(o, c)
<1> DEFINE c == [kind |-> SourceKind(ext), map |-> FALSE]
<1>1. c.kind = SourceKind(ext)
  OBVIOUS
<1>2. /\ ext \in PlainJs => SourceKind(ext) = "js"
      /\ ext \in JsExtensions => SourceKind(ext) \in {"js", "dialect"}
      /\ ext \in {"css", "module.css"} => SourceKind(ext) = "css"
      /\ ext \in {"scss", "module.scss"} => SourceKind(ext) = "scss"
  BY DEF SourceKind, PlainJs, JsExtensions, cssRegex, sassRegex
<1> HIDE DEF c
<1>3. o.loader \in {"url-loader", "file-loader"} => Reads(o, c)
  BY DEF Reads
<1>4. o.loader = "eslint-loader" /\ ext \in JsExtensions => Reads(o, c)
  BY <1>1, <1>2 DEF Reads
<1>5. o.loader = "babel-loader: dependencies" /\ ext \in PlainJs => Reads(o, c)
  BY <1>1, <1>2 DEF Reads
<1>6. o.loader = "postcss-loader" /\ ext \in {"css", "module.css"} => Reads(o, c)
  BY <1>1, <1>2 DEF Reads
<1>7. o.loader = "sass-loader" /\ ext \in {"scss", "module.scss"} => Reads(o, c)
  BY <1>1, <1>2 DEF Reads
<1>8. QED BY <1>3, <1>4, <1>5, <1>6, <1>7 DEF c

LEMMA UsesCompose ==
  ASSUME NEW f
  PROVE  Composes(Uses(f), [kind |-> SourceKind(f.ext), map |-> FALSE])
<1> DEFINE c == [kind |-> SourceKind(f.ext), map |-> FALSE]
<1>0. /\ \A o : o.loader = "url-loader" => Reads(o, c)
      /\ \A o : o.loader = "file-loader" => Reads(o, c)
      /\ \A o : o.loader = "eslint-loader" /\ f.ext \in JsExtensions => Reads(o, c)
      /\ \A o : o.loader = "babel-loader: dependencies" /\ f.ext \in PlainJs => Reads(o, c)
      /\ \A o : o.loader = "postcss-loader" /\ f.ext \in {"css", "module.css"} => Reads(o, c)
      /\ \A o : o.loader = "sass-loader" /\ f.ext \in {"scss", "module.scss"} => Reads(o, c)
  BY FirstReads
<1> SUFFICES Composes(Uses(f), c)
  OBVIOUS
<1> HIDE DEF c
<1>1. CASE Uses(f) = <<>>
  <2>1. <<>> \in Seq({})
    OBVIOUS
  <2>2. QED BY <1>1, <2>1 DEF Composes
<1>2. ASSUME NEW o, Uses(f) = <<o>>, Reads(o, c), o.loader # "css-loader"
      PROVE  Composes(Uses(f), c)
  <2>1. <<o>> \in Seq({o}) /\ Len(<<o>>) = 1 /\ <<o>>[1] = o /\ 2..1 = {} /\ 1..1 = {1}
    OBVIOUS
  <2>2. QED BY <1>2, <2>1 DEF Composes
<1>3. ASSUME NEW a, NEW b, Uses(f) = <<a, b>>, Reads(b, c),
             \A d : Reads(b, d) => Reads(a, Gives(b, d)),
             a.loader # "css-loader", b.loader # "css-loader"
      PROVE  Composes(Uses(f), c)
  <2> DEFINE U == <<a, b>>
  <2>1. U \in Seq({a, b}) /\ Len(U) = 2 /\ U[1] = a /\ U[2] = b
    OBVIOUS
  <2> HIDE DEF U
  <2>2. \A n \in 2..Len(U) : \A d : Reads(U[n], d) => Reads(U[n - 1], Gives(U[n], d))
    <3>1. \A n \in 2..2 : n = 2 /\ n - 1 = 1
      OBVIOUS
    <3>2. QED BY <1>3, <2>1, <3>1
  <2>3. \A n \in 1..Len(U) : U[n].loader # "css-loader"
    <3>1. \A n \in 1..2 : n = 1 \/ n = 2
      OBVIOUS
    <3>2. QED BY <1>3, <2>1, <3>1
  <2>4. Uses(f) = U
    BY <1>3 DEF U
  <2>5. Composes(U, c)
    BY <1>3, <2>1, <2>2, <2>3 DEF Composes
  <2>6. QED BY <2>4, <2>5
<1>4. ASSUME NEW p1, NEW p2, NEW p3, Uses(f) = <<p1, p2, p3>>, Reads(p3, c),
             \A d : Reads(p3, d) => Reads(p2, Gives(p3, d)),
             \A d : Reads(p2, d) => Reads(p1, Gives(p2, d)),
             p1.loader # "css-loader", p3.loader # "css-loader", p2.importLoaders = 1
      PROVE  Composes(Uses(f), c)
  <2> DEFINE U == <<p1, p2, p3>>
  <2>1. U \in Seq({p1, p2, p3}) /\ Len(U) = 3 /\ U[1] = p1 /\ U[2] = p2 /\ U[3] = p3
    OBVIOUS
  <2> HIDE DEF U
  <2>2. \A n \in 2..Len(U) : \A d : Reads(U[n], d) => Reads(U[n - 1], Gives(U[n], d))
    <3>1. \A n \in 2..3 : (n = 2 /\ n - 1 = 1) \/ (n = 3 /\ n - 1 = 2)
      OBVIOUS
    <3>2. QED BY <1>4, <2>1, <3>1
  <2>3. \A n \in 1..Len(U) : U[n].loader = "css-loader" => U[n].importLoaders = Len(U) - n
    <3>1. \A n \in 1..3 : n = 1 \/ (n = 2 /\ 3 - n = 1) \/ n = 3
      OBVIOUS
    <3>2. QED BY <1>4, <2>1, <3>1
  <2>4. Uses(f) = U
    BY <1>4 DEF U
  <2>5. Composes(U, c)
    BY <1>4, <2>1, <2>2, <2>3 DEF Composes
  <2>6. QED BY <2>4, <2>5
<1>5. ASSUME NEW p1, NEW p2, NEW p3, NEW p4, NEW p5, Uses(f) = <<p1, p2, p3, p4, p5>>, Reads(p5, c),
             \A d : Reads(p5, d) => Reads(p4, Gives(p5, d)),
             \A d : Reads(p4, d) => Reads(p3, Gives(p4, d)),
             \A d : Reads(p3, d) => Reads(p2, Gives(p3, d)),
             \A d : Reads(p2, d) => Reads(p1, Gives(p2, d)),
             p1.loader # "css-loader", p3.loader # "css-loader", p4.loader # "css-loader",
             p5.loader # "css-loader", p2.importLoaders = 3
      PROVE  Composes(Uses(f), c)
  <2> DEFINE U == <<p1, p2, p3, p4, p5>>
  <2>1. /\ U \in Seq({p1, p2, p3, p4, p5}) /\ Len(U) = 5
        /\ U[1] = p1 /\ U[2] = p2 /\ U[3] = p3 /\ U[4] = p4 /\ U[5] = p5
    OBVIOUS
  <2> HIDE DEF U
  <2>2. \A n \in 2..Len(U) : \A d : Reads(U[n], d) => Reads(U[n - 1], Gives(U[n], d))
    <3>1. \A n \in 2..5 : n = 2 \/ n = 3 \/ n = 4 \/ n = 5
      OBVIOUS
    <3>3. 2 - 1 = 1 /\ 3 - 1 = 2 /\ 4 - 1 = 3 /\ 5 - 1 = 4
      OBVIOUS
    <3>2. QED BY <1>5, <2>1, <3>1, <3>3
  <2>3. \A n \in 1..Len(U) : U[n].loader = "css-loader" => U[n].importLoaders = Len(U) - n
    <3>1. \A n \in 1..5 : n = 1 \/ (n = 2 /\ 5 - n = 3) \/ n = 3 \/ n = 4 \/ n = 5
      OBVIOUS
    <3>2. QED BY <1>5, <2>1, <3>1
  <2>4. Uses(f) = U
    BY <1>5 DEF U
  <2>5. Composes(U, c)
    BY <1>5, <2>1, <2>2, <2>3 DEF Composes
  <2>6. QED BY <2>4, <2>5
<1>6. CASE f.ext \in Images /\ Uses(f) = <<Option("url-loader")>>
  <2>1. PICK o : o = Option("url-loader")
    OBVIOUS
  <2>2. o.loader = "url-loader"
    BY <2>1, LoaderNames
  <2>3. Reads(o, c) /\ o.loader # "css-loader"
    BY <1>0, <2>2
  <2>4. QED BY <1>2, <1>6, <2>1, <2>3, Zenon
<1>7. CASE f.ext \in JsExtensions /\ Uses(f) = <<Option("babel-loader: app"), Option("eslint-loader")>>
  <2> DEFINE a == Option("babel-loader: app")
             b == Option("eslint-loader")
  <2>3. Uses(f) = <<a, b>>
    BY <1>7
  <2>1. a.loader = "babel-loader: app" /\ b.loader = "eslint-loader"
    BY LoaderNames
  <2> HIDE DEF a, b
  <2>2. Reads(b, c) /\ \A d : Reads(b, d) => Reads(a, Gives(b, d))
    BY <1>0, <1>7, <2>1, LoaderPairs
  <2>4. a.loader # "css-loader" /\ b.loader # "css-loader"
    BY <2>1
  <2>5. QED BY <1>3, <2>2, <2>3, <2>4, Zenon
<1>8. CASE f.ext \in PlainJs /\ Uses(f) = <<Option("babel-loader: dependencies")>>
  <2>1. PICK o : o = Option("babel-loader: dependencies")
    OBVIOUS
  <2>2. o.loader = "babel-loader: dependencies"
    BY <2>1, LoaderNames
  <2>3. Reads(o, c) /\ o.loader # "css-loader"
    BY <1>0, <1>8, <2>2
  <2>4. QED BY <1>2, <1>8, <2>1, <2>3, Zenon
<1>9. ASSUME NEW local, f.ext \in {"css", "module.css"},
             Uses(f) = <<StyleTag, cssLoader(1, local), Post>>
      PROVE  Composes(Uses(f), c)
  <2> DEFINE css == cssLoader(1, local)
  <2>1. css.loader = "css-loader" /\ css.importLoaders = 1
    BY LoaderNames
  <2>2. Uses(f) = <<StyleTag, css, Post>>
    BY <1>9
  <2> HIDE DEF css
  <2>3. /\ Reads(Post, c)
        /\ \A d : Reads(Post, d) => Reads(css, Gives(Post, d))
        /\ \A d : Reads(css, d) => Reads(StyleTag, Gives(css, d))
    BY <1>0, <1>9, <2>1, LoaderNames, LoaderPairs
  <2>4. StyleTag.loader # "css-loader" /\ Post.loader # "css-loader"
    BY LoaderNames
  <2>5. QED BY <1>4, <2>1, <2>2, <2>3, <2>4
<1>10. ASSUME NEW local, f.ext \in {"scss", "module.scss"},
              Uses(f) = <<StyleTag, cssLoader(3, local), Post, ResolveUrl, Sass>>
       PROVE  Composes(Uses(f), c)
  <2> DEFINE css == cssLoader(3, local)
  <2>1. css.loader = "css-loader" /\ css.importLoaders = 3
    BY LoaderNames
  <2>2. Uses(f) = <<StyleTag, css, Post, ResolveUrl, Sass>>
    BY <1>10
  <2> HIDE DEF css
  <2>3. /\ Reads(Sass, c)
        /\ \A d : Reads(Sass, d) => Reads(ResolveUrl, Gives(Sass, d))
        /\ \A d : Reads(ResolveUrl, d) => Reads(Post, Gives(ResolveUrl, d))
        /\ \A d : Reads(Post, d) => Reads(css, Gives(Post, d))
        /\ \A d : Reads(css, d) => Reads(StyleTag, Gives(css, d))
    BY <1>0, <1>10, <2>1, LoaderNames, LoaderPairs
  <2>4. /\ StyleTag.loader # "css-loader" /\ Post.loader # "css-loader"
        /\ ResolveUrl.loader # "css-loader" /\ Sass.loader # "css-loader"
    BY LoaderNames
  <2>5. QED BY <1>5, <2>1, <2>2, <2>3, <2>4
<1>11. CASE Uses(f) = <<Option("file-loader")>>
  <2>1. PICK o : o = Option("file-loader")
    OBVIOUS
  <2>2. o.loader = "file-loader"
    BY <2>1, LoaderNames
  <2>3. Reads(o, c) /\ o.loader # "css-loader"
    BY <1>0, <2>2
  <2>4. QED BY <1>2, <1>11, <2>1, <2>3, Zenon
<1>12. CASE \E local \in BOOLEAN : /\ f.ext \in {"css", "module.css"}
                                 /\ Uses(f) = <<StyleTag, cssLoader(1, local), Post>>
  BY <1>9, <1>12
<1>13. CASE \E local \in BOOLEAN : /\ f.ext \in {"scss", "module.scss"}
                                 /\ Uses(f) = <<StyleTag, cssLoader(3, local), Post, ResolveUrl, Sass>>
  BY <1>10, <1>13
<1>14. QED BY <1>1, <1>6, <1>7, <1>8, <1>11, <1>12, <1>13, UsesAre

-----------------------------------------------------------------------------
(* The inductive invariant. *)

\* The steps before the configurations are made, and those before modules are bundled.
Unconfigured == {"head", "env.js", "dotenv", "crashed", "jest", "require"}
Unbundled == Unconfigured \cup {"bad configuration", "configure"}

\* What never changes is what a case says.
Static ==
  \E c \in Cases :
    script = c.script /\ shell = c.shell /\ files = c.files /\ world.request = c.request

\* While env.js reads the files, process.env has what the sources before those still to read
\* say, with as many references followed as there can be in these.
Reading ==
  /\ todo \in Seq(Files)
  /\ Len(todo) \in 0..4
  /\ \A i \in 1..Len(todo) : files[todo[i]] = Sources[5 - Len(todo) + i]
  /\ \A x \in Names : ~IsRef(env[x])
  /\ Knows(Sources, env, 5 - Len(todo), (5 - Len(todo)) * (NamesNumber + 1))

EnvInv ==
  /\ pc = "head" => env = shell
  /\ pc = "env.js" => env = IF script = "test" THEN [shell EXCEPT !["PUBLIC_URL"] = ""] ELSE shell
  /\ pc = "dotenv" => Reading
  /\ FirstWins

\* paths.js is not in the cache until the files are read, and what reads it afterwards gets
\* the same path.
UrlInv ==
  /\ pc \in {"dotenv", "require"} => cache = Unset
  /\ pc \notin Unconfigured =>
       LET url == publicUrlOrPath(NODE_ENV(script), env["PUBLIC_URL"]) IN config = url /\ cache = url
  /\ raw = IF pc \in Unbundled THEN <<>> ELSE getClientEnvironment(WithoutSlash(config))

\* A folder is the first of those that are searched in which there is something.
FirstFound(folders, dir) ==
  \E n \in 1..Len(folders) :
    /\ dir = folders[n]
    /\ Found(dir) # {}
    /\ \A m \in 1..Len(folders) : Found(folders[m]) # {} => n <= m

FileInv ==
  /\ EnvRead => nodePath = honored(Folders(env["NODE_PATH"]))
  /\ pc \notin Unconfigured \cup {"bad configuration"} => ~modules.throws
  /\ file # NoModule =>
       /\ pc \notin Unbundled
       /\ file.dir \in {"src", "node_modules"}
       /\ FirstFound(Searched(world.request.via), file.dir)

-----------------------------------------------------------------------------
(* Settings. *)

\* Nothing that a run of the script does changes what it was given.
LEMMA GivenStays ==
  [Next]_vars => UNCHANGED <<script, shell, files, project, world>>
  BY DEF Next, EnvStep, SetEnv, RequireEnv, LoadFile, ResolveNodePath, Require, Configure,
         Resolve, Match, RunLoader, Parse, Emit, Finished, vars, envVars, bundleVars

LEMMA StaticStays == Static /\ [Next]_vars => Static'
  BY GivenStays DEF Static

LEMMA StaticFacts ==
  ASSUME Static
  PROVE  /\ script \in Scripts
         /\ \A x \in Names : ~IsRef(shell[x])
         /\ DOMAIN shell = Names /\ DOMAIN files = Files
         /\ world.request.via \in {"entry", "relative", "bare", "src/"}
  BY BundlerAssumption DEF Static, Setting

LEMMA SourcesAre ==
  /\ script # "test" =>
       /\ Sources[1] = shell /\ Sources[2] = files[".env.MODE.local"] /\ Sources[3] = files[".env.MODE"]
       /\ Sources[4] = files[".env.local"] /\ Sources[5] = files[".env"]
  /\ script = "test" =>
       /\ \A x \in Names : Sources[1][x] = IF x = "PUBLIC_URL" THEN "" ELSE Unset
       /\ Sources[2] = shell /\ Sources[3] = files[".env.MODE.local"] /\ Sources[4] = files[".env.MODE"]
       /\ Sources[5] = files[".env"]
<1> DEFINE noUrl == [x \in Names |-> IF x = "PUBLIC_URL" THEN "" ELSE Unset]
<1>1. Sources = IF script = "test"
                THEN <<noUrl, shell, files[".env.MODE.local"], files[".env.MODE"], files[".env"]>>
                ELSE <<shell, files[".env.MODE.local"], files[".env.MODE"], files[".env.local"], files[".env"]>>
  BY DEF Sources
<1>2. \A x \in Names : noUrl[x] = IF x = "PUBLIC_URL" THEN "" ELSE Unset
  OBVIOUS
<1> HIDE DEF noUrl
<1>3. CASE script # "test"
  BY <1>1, <1>3
<1>4. CASE script = "test"
  BY <1>1, <1>2, <1>4
<1>5. QED BY <1>3, <1>4

LEMMA KnowsFirst ==
  ASSUME NEW sources, \A x \in Names : ~IsRef(sources[1][x])
  PROVE  Knows(sources, sources[1], 1, 1)
<1>1. SUFFICES ASSUME NEW x \in Names, NEW l \in 1..Depth
               PROVE  Values(sources)[l][x][1] = sources[1][x]
  BY DEF Knows
<1>2. 1 \in 1..5 /\ 1 \in Nat /\ l \in 0..Depth
  BY ValuesDef
<1>3. CASE sources[1][x] = Unset
  <2>1. Setters(sources, x, 1) = {}
    BY <1>3 DEF Setters
  <2>2. QED BY <1>2, <1>3, <2>1, NotSet
<1>4. CASE sources[1][x] # Unset
  <2>1. Setters(sources, x, 1) = {1}
    BY <1>4 DEF Setters
  <2>2. Strongest(sources, x, 1) = 1
    BY <1>2, <2>1, StrongestUnique
  <2>3. QED BY <1>2, <2>1, <2>2, ValueStep
<1>5. QED BY <1>3, <1>4

\* What has no reference is set as it is.
LEMMA NoReferences ==
  ASSUME NEW e, NEW next, NEW x \in Names, ~IsRef(e[x]), ~IsRef(next[x])
  PROVE  dotenv(e, next)[x] = IF e[x] = Unset THEN next[x] ELSE e[x]
<1> DEFINE set == SetMissing(e, next)
<1>1. set[x] = IF e[x] = Unset THEN next[x] ELSE e[x]
  BY DEF SetMissing
<1>2. dotenv(e, next)[x] = IF next[x] = Unset THEN set[x] ELSE Expand(set, set[x])
  BY DEF dotenv
<1>3. ~IsRef(set[x])
  BY <1>1
<1> HIDE DEF set
<1>4. Expand(set, set[x]) = set[x]
  BY <1>3, FollowDef, FollowValue, NamesNumberType
<1>5. QED BY <1>1, <1>2, <1>4

LEMMA Followed ==
  /\ \A k \in 1..5 : k * (NamesNumber + 1) \in Nat /\ k * (NamesNumber + 1) >= k
  /\ \A k \in 1..4 : (k + 1) * (NamesNumber + 1) = k * (NamesNumber + 1) + NamesNumber + 1
  /\ Depth = 5 * (NamesNumber + 1)
<1>1. /\ \A k \in 1..5 : k = 1 \/ k = 2 \/ k = 3 \/ k = 4 \/ k = 5
      /\ \A k \in 1..4 : k = 1 \/ k = 2 \/ k = 3 \/ k = 4
  OBVIOUS
<1>2. \A n \in Nat :
        /\ 1 * (n + 1) = n + 1 /\ 2 * (n + 1) = n + n + 2 /\ 3 * (n + 1) = n + n + n + 3
        /\ 4 * (n + 1) = n + n + n + n + 4 /\ 5 * (n + 1) = n + n + n + n + n + 5
  OBVIOUS
<1>3. \A k \in 1..5 : k * (NamesNumber + 1) \in Nat /\ k * (NamesNumber + 1) >= k
  BY <1>1, <1>2, NamesNumberType
<1>4. \A k \in 1..4 : (k + 1) * (NamesNumber + 1) = k * (NamesNumber + 1) + NamesNumber + 1
  BY <1>1, <1>2, NamesNumberType
<1>5. QED BY <1>3, <1>4 DEF Depth, NamesNumber

\* When env.js has its list of files, it knows what the shell says.
LEMMA ListIsReading ==
  ASSUME Static, EnvInv, RequireEnv
  PROVE  Reading'
<1>1. /\ pc = "env.js" /\ todo' = dotenvFiles
      /\ UNCHANGED <<script, shell, files, env>>
  BY DEF RequireEnv
<1>2. env = IF script = "test" THEN [shell EXCEPT !["PUBLIC_URL"] = ""] ELSE shell
  BY <1>1 DEF EnvInv
<1>3. Sources' = Sources
  BY <1>1 DEF Sources
<1>4. \A x \in Names : ~IsRef(env[x])
  BY <1>2, StaticFacts, WebEnvAssumption
<1>5. CASE script # "test"
  <2>1. todo' = <<".env.MODE.local", ".env.MODE", ".env.local", ".env">>
    BY <1>1, <1>5 DEF dotenvFiles
  <2>2. todo' \in Seq(Files) /\ Len(todo') = 4
    BY <2>1 DEF Files
  <2>3. \A i \in 1..4 : files[todo'[i]] = Sources[1 + i]
    <3>1. \A i \in 1..4 : \/ i = 1 /\ 1 + i = 2
                          \/ i = 2 /\ 1 + i = 3
                          \/ i = 3 /\ 1 + i = 4
                          \/ i = 4 /\ 1 + i = 5
      OBVIOUS
    <3>2. /\ todo'[1] = ".env.MODE.local" /\ todo'[2] = ".env.MODE"
          /\ todo'[3] = ".env.local" /\ todo'[4] = ".env"
      BY <2>1
    <3>3. QED BY <1>5, <3>1, <3>2, SourcesAre
  <2>4. Knows(Sources, env, 1, 1)
    BY <1>2, <1>4, <1>5, KnowsFirst, SourcesAre
  <2>5. Knows(Sources, env, 1, 1 * (NamesNumber + 1))
    <3>1. \A l \in (1 * (NamesNumber + 1))..Depth : l \in 1..Depth
      BY NamesNumberType, ValuesDef
    <3>2. QED BY <2>4, <3>1 DEF Knows
  <2>6. 5 - 4 = 1 /\ 4 \in 0..4
    OBVIOUS
  <2>7. QED BY <1>1, <1>3, <1>4, <2>2, <2>3, <2>5, <2>6 DEF Reading
<1>6. CASE script = "test"
  <2>1. todo' = <<".env.MODE.local", ".env.MODE", ".env">>
    BY <1>1, <1>6 DEF dotenvFiles
  <2>2. todo' \in Seq(Files) /\ Len(todo') = 3
    BY <2>1 DEF Files
  <2>3. \A i \in 1..3 : files[todo'[i]] = Sources[2 + i]
    <3>1. \A i \in 1..3 : \/ i = 1 /\ 2 + i = 3
                          \/ i = 2 /\ 2 + i = 4
                          \/ i = 3 /\ 2 + i = 5
      OBVIOUS
    <3>2. todo'[1] = ".env.MODE.local" /\ todo'[2] = ".env.MODE" /\ todo'[3] = ".env"
      BY <2>1
    <3>3. QED BY <1>6, <3>1, <3>2, SourcesAre
  <2>4. \A x \in Names : ~IsRef(Sources[1][x]) /\ ~IsRef(Sources[2][x])
    BY <1>6, SourcesAre, StaticFacts, WebEnvAssumption
  <2>5. Knows(Sources, Sources[1], 1, 1)
    BY <2>4, KnowsFirst
  <2>6. \A x \in Names : dotenv(Sources[1], Sources[2])[x] = env[x]
    <3>1. \A x \in Names : dotenv(Sources[1], Sources[2])[x] =
                             IF Sources[1][x] = Unset THEN Sources[2][x] ELSE Sources[1][x]
      BY <2>4, NoReferences
    <3>2. \A x \in Names : env[x] = IF x = "PUBLIC_URL" THEN "" ELSE shell[x]
      BY <1>2, <1>6, StaticFacts
    <3>3. "" # Unset
      BY DEF Unset
    <3>4. QED BY <1>6, <3>1, <3>2, <3>3, SourcesAre
  <2>7. Knows(Sources, dotenv(Sources[1], Sources[2]), 2, 1 + NamesNumber + 1)
    <3>1. 1 \in 1..4 /\ 1 + 1 = 2 /\ 1 \in Nat /\ 1 >= 1
      OBVIOUS
    <3>2. \A x \in Names : ~IsRef(dotenv(Sources[1], Sources[2])[x])
      BY <1>4, <2>6
    <3>3. QED BY <2>4, <2>5, <3>1, <3>2, DotenvAddsSource
  <2>8. Knows(Sources, env, 2, 2 * (NamesNumber + 1))
    <3>1. \A l \in (2 * (NamesNumber + 1))..Depth : l \in (1 + NamesNumber + 1)..Depth
      BY NamesNumberType, ValuesDef
    <3>2. QED BY <2>6, <2>7, <3>1 DEF Knows
  <2>9. 5 - 3 = 2 /\ 3 \in 0..4
    OBVIOUS
  <2>10. QED BY <1>1, <1>3, <1>4, <2>2, <2>3, <2>8, <2>9 DEF Reading
<1>7. QED BY <1>5, <1>6

LEMMA LoadFileReads ==
  ASSUME Static, Reading, LoadFile, pc' = "dotenv"
  PROVE  Reading'
<1> DEFINE next == files[Head(todo)]
           loaded == dotenv(env, next)
           k == 5 - Len(todo)
           d == k * (NamesNumber + 1)
<1>1. /\ todo # <<>> /\ env' = loaded /\ todo' = Tail(todo)
      /\ \A x \in Names : ~IsRef(loaded[x])
      /\ UNCHANGED <<script, shell, files>>
  BY DEF LoadFile
<1>2. Sources' = Sources
  BY <1>1 DEF Sources
<1>3. todo \in Seq(Files) /\ Len(todo) \in 1..4
  BY <1>1 DEF Reading
<1>4. k \in 1..4 /\ Len(todo) - 1 \in 0..4 /\ 5 - (Len(todo) - 1) = k + 1
  <2>1. \A n \in 1..4 : 5 - n \in 1..4 /\ n - 1 \in 0..4 /\ 5 - (n - 1) = 5 - n + 1
    OBVIOUS
  <2>2. QED BY <1>3, <2>1
<1>5. /\ todo' \in Seq(Files) /\ Len(todo') = Len(todo) - 1
      /\ \A i \in 1..(Len(todo) - 1) : todo'[i] = todo[i + 1]
      /\ Head(todo) = todo[1]
  BY <1>1, <1>3, HeadTailProperties
<1>6. \A i \in 1..(Len(todo) - 1) : files[todo'[i]] = Sources[k + 1 + i]
  <2>1. \A i \in 1..(Len(todo) - 1) : i + 1 \in 1..Len(todo) /\ k + (i + 1) = k + 1 + i
    BY <1>3
  <2>2. QED BY <1>5, <2>1 DEF Reading
<1>7. next = Sources[k + 1]
  <2>1. 1 \in 1..Len(todo)
    BY <1>3
  <2>2. QED BY <1>5, <2>1 DEF Reading
<1>8. Knows(Sources, loaded, k + 1, (k + 1) * (NamesNumber + 1))
  <2>1. /\ Knows(Sources, env, k, d) /\ \A x \in Names : ~IsRef(env[x])
    BY DEF Reading
  <2>2. d \in Nat /\ d >= 1 /\ (k + 1) * (NamesNumber + 1) = d + NamesNumber + 1
    <3>1. k \in 1..5 /\ k >= 1
      BY <1>4
    <3> HIDE DEF k
    <3>2. d \in Nat /\ d >= k /\ k \in Int
      BY <3>1, Followed
    <3>3. (k + 1) * (NamesNumber + 1) = d + NamesNumber + 1
      BY <1>4, Followed
    <3> HIDE DEF d
    <3>4. QED BY <3>1, <3>2, <3>3
  <2>3. \A x \in Names : ~IsRef(dotenv(env, Sources[k + 1])[x])
    BY <1>1, <1>7
  <2> HIDE DEF d, k, next
  <2>4. Knows(Sources, dotenv(env, Sources[k + 1]), k + 1, d + NamesNumber + 1)
    BY <1>4, <2>1, <2>2, <2>3, DotenvAddsSource
  <2>5. QED BY <1>7, <2>2, <2>4
<1> HIDE DEF loaded, k
<1>9. QED BY <1>1, <1>2, <1>4, <1>5, <1>6, <1>8 DEF Reading

\* When no file is left, it knows everything.
LEMMA ReadingEnds ==
  ASSUME Reading, todo = <<>>
  PROVE  \A x \in Names : env[x] = ValueOf(x)
<1>1. Len(todo) = 0 /\ 5 - 0 = 5 /\ 5 * (NamesNumber + 1) = Depth
  BY Followed
<1>2. Knows(Sources, env, 5, Depth)
  BY <1>1 DEF Reading
<1>3. Depth \in Depth..Depth
  BY ValuesDef
<1>4. QED BY <1>2, <1>3 DEF Knows, ValueOf

LEMMA Steps ==
  ASSUME [Next]_vars
  PROVE  \/ SetEnv /\ UNCHANGED bundleVars
         \/ RequireEnv /\ UNCHANGED bundleVars
         \/ LoadFile /\ UNCHANGED bundleVars
         \/ ResolveNodePath /\ UNCHANGED bundleVars
         \/ Require /\ UNCHANGED bundleVars
         \/ Configure /\ UNCHANGED bundleVars
         \/ Resolve \/ Match \/ RunLoader \/ Parse \/ Emit
         \/ UNCHANGED vars
  BY DEF Next, EnvStep, Finished

\* What the bundler does with the settings: nothing.
LEMMA EnvVarsStay ==
  ASSUME Resolve \/ Match \/ RunLoader \/ Parse \/ Emit
  PROVE  /\ UNCHANGED envVars
         /\ pc \in {"resolve", "match", "load", "emit"}
         /\ pc' \in {"module not found", "outside of src", "match", "load", "loader failed",
                     "emit", "parse failed", "done"}
  BY DEF Resolve, Match, RunLoader, Parse, Emit

LEMMA ValuesStay ==
  ASSUME UNCHANGED <<script, shell, files>>
  PROVE  Sources' = Sources /\ \A x : ValueOf(x)' = ValueOf(x)
  BY DEF Sources, ValueOf

LEMMA EnvInvStays ==
  ASSUME Static, EnvInv, [Next]_vars
  PROVE  EnvInv'
<1>0. UNCHANGED <<script, shell, files, project, world>>
  BY GivenStays
<1>1. CASE SetEnv
  <2>1. /\ pc = "head" /\ pc' = "env.js"
        /\ env' = IF script = "test" THEN [shell EXCEPT !["PUBLIC_URL"] = ""] ELSE shell
    BY <1>1 DEF SetEnv, EnvInv
  <2>2. QED BY <1>0, <2>1 DEF EnvInv, FirstWins, EnvRead
<1>2. CASE RequireEnv
  <2>1. Reading' /\ pc' = "dotenv"
    BY <1>2, ListIsReading DEF RequireEnv
  <2>2. QED BY <2>1 DEF EnvInv, FirstWins, EnvRead
<1>3. CASE LoadFile
  <2>1. pc = "dotenv" /\ pc' \in {"crashed", "dotenv"}
    BY <1>3 DEF LoadFile
  <2>2. pc' = "dotenv" => Reading'
    BY <1>3, <2>1, LoadFileReads DEF EnvInv
  <2>3. QED BY <2>1, <2>2 DEF EnvInv, FirstWins, EnvRead
<1>4. CASE ResolveNodePath
  <2>1. pc = "dotenv" /\ todo = <<>> /\ pc' \in {"jest", "require"} /\ env' = env
    BY <1>4 DEF ResolveNodePath
  <2>2. \A x \in Names : env[x] = ValueOf(x)
    BY <2>1, ReadingEnds DEF EnvInv
  <2>3. FirstWins'
    BY <1>0, <2>1, <2>2, ValuesStay DEF FirstWins
  <2>4. QED BY <2>1, <2>3 DEF EnvInv
<1>5. CASE Require \/ Configure \/ Resolve \/ Match \/ RunLoader \/ Parse \/ Emit
  <2>1. /\ pc \notin {"head", "env.js", "dotenv", "crashed"}
        /\ pc' \notin {"head", "env.js", "dotenv", "crashed"}
        /\ env' = env
    BY <1>5, EnvVarsStay DEF Require, Configure, envVars
  <2>2. FirstWins'
    BY <1>0, <2>1, ValuesStay DEF EnvInv, FirstWins, EnvRead
  <2>3. QED BY <2>1, <2>2 DEF EnvInv
<1>6. CASE UNCHANGED vars
  <2>1. UNCHANGED <<pc, env, todo>>
    BY <1>6 DEF vars, envVars
  <2>2. Sources' = Sources /\ \A x : ValueOf(x)' = ValueOf(x)
    BY <1>0, ValuesStay
  <2>3. Reading => Reading'
    BY <1>0, <2>1, <2>2 DEF Reading
  <2>4. FirstWins'
    BY <2>1, <2>2 DEF EnvInv, FirstWins, EnvRead
  <2>5. QED BY <1>0, <2>1, <2>3, <2>4 DEF EnvInv
<1>7. QED BY <1>1, <1>2, <1>3, <1>4, <1>5, <1>6, Steps

-----------------------------------------------------------------------------
(* The public path. *)

LEMMA UrlInvStays ==
  ASSUME UrlInv, [Next]_vars
  PROVE  UrlInv'
<1>0. script' = script
  BY GivenStays
<1>1. CASE SetEnv
  BY <1>0, <1>1 DEF SetEnv, UrlInv, Unconfigured, Unbundled
<1>2. CASE RequireEnv
  BY <1>0, <1>2 DEF RequireEnv, UrlInv, Unconfigured, Unbundled
<1>3. CASE LoadFile
  <2>1. pc = "dotenv" /\ pc' \in {"crashed", "dotenv"} /\ UNCHANGED <<cache, config, raw>>
    BY <1>3 DEF LoadFile
  <2>2. QED BY <2>1 DEF UrlInv, Unconfigured, Unbundled
<1>4. CASE ResolveNodePath
  <2>1. pc = "dotenv" /\ pc' \in {"jest", "require"} /\ UNCHANGED <<cache, config, raw>>
    BY <1>4 DEF ResolveNodePath
  <2>2. QED BY <2>1 DEF UrlInv, Unconfigured, Unbundled
<1>5. CASE Require
  <2>1. /\ pc = "require" /\ pc' \in {"bad configuration", "configure"}
        /\ cache' = required /\ config' = required /\ UNCHANGED <<env, raw>>
    BY <1>5 DEF Require
  <2>2. required = publicUrlOrPath(NODE_ENV(script), env["PUBLIC_URL"])
    BY <2>1 DEF UrlInv, required
  <2>3. QED BY <1>0, <2>1, <2>2 DEF UrlInv, Unconfigured, Unbundled
<1>6. CASE Configure
  <2>1. /\ pc = "configure" /\ pc' = "resolve"
        /\ raw' = getClientEnvironment(WithoutSlash(config))
        /\ UNCHANGED <<script, env, cache, config>>
    BY <1>6 DEF Configure
  <2>2. getClientEnvironment(WithoutSlash(config))' = getClientEnvironment(WithoutSlash(config))
    BY <2>1 DEF getClientEnvironment, Injected, WDS_SOCKET
  <2>3. /\ pc \notin Unconfigured /\ pc' \notin {"dotenv", "require"}
        /\ pc' \notin Unbundled
    BY <2>1 DEF Unconfigured, Unbundled
  <2>4. QED BY <2>1, <2>2, <2>3 DEF UrlInv
<1>7. CASE Resolve \/ Match \/ RunLoader \/ Parse \/ Emit
  <2>1. UNCHANGED <<script, env, cache, config, raw>>
    BY <1>7, EnvVarsStay DEF envVars
  <2>2. getClientEnvironment(WithoutSlash(config))' = getClientEnvironment(WithoutSlash(config))
    BY <2>1 DEF getClientEnvironment, Injected, WDS_SOCKET
  <2>3. /\ pc \notin Unbundled /\ pc' \notin Unbundled
        /\ pc \notin Unconfigured /\ pc' \notin {"dotenv", "require"}
    BY <1>7, EnvVarsStay DEF Unbundled, Unconfigured
  <2>4. QED BY <2>1, <2>2, <2>3 DEF UrlInv
<1>8. CASE UNCHANGED vars
  <2>1. UNCHANGED <<pc, script, env, cache, config, raw>>
    BY <1>8 DEF vars, envVars
  <2>2. getClientEnvironment(WithoutSlash(config))' = getClientEnvironment(WithoutSlash(config))
    BY <2>1 DEF getClientEnvironment, Injected, WDS_SOCKET
  <2>3. QED BY <2>1, <2>2 DEF UrlInv
<1>9. QED BY <1>1, <1>2, <1>3, <1>4, <1>5, <1>6, <1>7, <1>8, Steps

\* The variables that the sources refer to are in R.
ReferWithin(sources, R) ==
  \A i \in 1..5, y \in Names : IsRef(sources[i][y]) => RefersTo[sources[i][y]] \in R

\* w is the text of some source for x or for a variable of R.
ComesFrom(sources, R, w, x) ==
  w \in {Unset, ""} \/ \E i \in 1..5, y \in {x} \cup R : w = sources[i][y]

LEMMA ValuesComeFromSources ==
  ASSUME NEW sources, NEW R, ReferWithin(sources, R), NEW x \in Names
  PROVE  ComesFrom(sources, R, Values(sources)[Depth][x][5], x)
<1> DEFINE Comes(w, y) == ComesFrom(sources, R, w, y)
           Good == {d \in Nat : d <= Depth =>
                      \A y \in Names, k \in 1..5 : Comes(Values(sources)[d][y][k], y)}
<1>1. 0 \in Good
  <2>1. \A y \in Names, k \in 1..5 : Values(sources)[0][y][k] = Unset
    BY ValuesDef
  <2>2. QED BY <2>1 DEF ComesFrom
<1>2. ASSUME NEW d \in Good PROVE d + 1 \in Good
  <2>1. d \in Nat
    OBVIOUS
  <2> HIDE DEF Comes
  <2>2. SUFFICES ASSUME d + 1 <= Depth, NEW y \in Names, NEW k \in 1..5
                 PROVE  Comes(Values(sources)[d + 1][y][k], y)
    BY <2>1
  <2>3. d + 1 \in 1..Depth /\ d + 1 - 1 = d /\ d <= Depth /\ k \in Nat
    BY <2>1, <2>2, ValuesDef
  <2> DEFINE s == Strongest(sources, y, k)
             v == sources[s][y]
  <2>4. Values(sources)[d + 1][y][k] =
          IF Setters(sources, y, k) = {} THEN Unset
          ELSE IF ~IsRef(v) THEN v ELSE TextOf(Values(sources)[d][RefersTo[v]][s])
    <3> DEFINE Step(n) ==
          IF Setters(sources, y, k) = {} THEN Unset
          ELSE IF ~IsRef(v) THEN v ELSE TextOf(Values(sources)[n][RefersTo[v]][s])
    <3>1. \A n \in 1..Depth : Values(sources)[n][y][k] = Step(n - 1)
      BY ValueStep
    <3> HIDE DEF Step
    <3>2. Values(sources)[d + 1][y][k] = Step(d)
      BY <2>3, <3>1
    <3>3. QED BY <3>2 DEF Step
  <2>5. Setters(sources, y, k) # {} => s \in 1..5
    <3>1. Setters(sources, y, k) # {} => s \in 1..k
      BY <2>3, StrongestIs DEF Setters
    <3> HIDE DEF s
    <3>2. QED BY <3>1, UpToFive
  <2> HIDE DEF s
  <2>6. CASE Setters(sources, y, k) = {}
    BY <2>4, <2>6 DEF Comes, ComesFrom
  <2>7. CASE Setters(sources, y, k) # {} /\ ~IsRef(v)
    BY <2>4, <2>5, <2>7 DEF Comes, ComesFrom
  <2>8. CASE Setters(sources, y, k) # {} /\ IsRef(v)
    <3>1. RefersTo[v] \in Names /\ RefersTo[v] \in R
      BY <2>5, <2>8, WebEnvAssumption DEF IsRef, ReferWithin
    <3> DEFINE w == Values(sources)[d][RefersTo[v]][s]
    <3>2. Comes(w, RefersTo[v])
      BY <2>3, <2>5, <2>8, <3>1
    <3> HIDE DEF v, w
    <3>3. Comes(TextOf(w), y)
      BY <3>1, <3>2 DEF Comes, ComesFrom, TextOf
    <3>4. QED BY <2>4, <2>8, <3>3 DEF w
  <2>9. QED BY <2>6, <2>7, <2>8
<1>3. Good = Nat
  <2> HIDE DEF Good
  <2>1. Good \in SUBSET Nat
    BY DEF Good
  <2>2. QED BY <1>1, <1>2, <2>1, Induction
<1>4. Depth \in Good
  <2> HIDE DEF Good
  <2>1. QED BY <1>3, ValuesDef
<1>5. 5 \in 1..5 /\ Depth <= Depth
  BY ValuesDef
<1>6. QED BY <1>4, <1>5

LEMMA SecretsStayBy ==
  ASSUME Static, EnvInv, UrlInv
  PROVE  SecretsStay
<1>1. SUFFICES ASSUME Configured, NEW x \in DOMAIN raw \ {"NODE_ENV", "PUBLIC_URL"}
               PROVE  /\ x \in REACT_APP \cup WDS_SOCKET
                      /\ \/ raw[x] \in {Unset, ""}
                         \/ \E i \in 1..5, y \in {x} \cup ReferredTo : raw[x] = Sources[i][y]
  BY DEF SecretsStay
<1>2. pc \notin Unbundled /\ raw = getClientEnvironment(WithoutSlash(config))
  BY <1>1 DEF UrlInv, Configured
<1>3. x \in REACT_APP \cup WDS_SOCKET /\ x \in Names /\ raw[x] = env[x]
  BY <1>2 DEF getClientEnvironment, Injected, REACT_APP, WDS_SOCKET
<1>4. env[x] = ValueOf(x)
  BY <1>2, <1>3 DEF EnvInv, FirstWins, EnvRead, Unbundled, Unconfigured
<1>5. ReferWithin(Sources, ReferredTo)
  <2>1. \A f \in Files, y \in Names : IsRef(files[f][y]) => RefersTo[files[f][y]] \in ReferredTo
    BY DEF ReferredTo, IsRef
  <2>2. \A i \in 1..5 : i = 1 \/ i = 2 \/ i = 3 \/ i = 4 \/ i = 5
    OBVIOUS
  <2>3. /\ ".env.MODE.local" \in Files /\ ".env.MODE" \in Files
        /\ ".env.local" \in Files /\ ".env" \in Files
    BY DEF Files
  <2>4. CASE script # "test"
    BY <2>1, <2>2, <2>3, <2>4, SourcesAre, StaticFacts DEF ReferWithin
  <2>5. CASE script = "test"
    BY <2>1, <2>2, <2>3, <2>5, SourcesAre, StaticFacts, WebEnvAssumption DEF ReferWithin
  <2>6. QED BY <2>4, <2>5
<1>6. ComesFrom(Sources, ReferredTo, ValueOf(x), x)
  BY <1>3, <1>5, ValuesComeFromSources DEF ValueOf
<1>7. QED BY <1>3, <1>4, <1>6 DEF ComesFrom

-----------------------------------------------------------------------------
(* Where imports are found. *)

LEMMA AdditionalPaths ==
  ASSUME NEW tsconfig, NEW jsconfig, NEW path \in Seq(Text),
         ~getModules(tsconfig, jsconfig, path).throws
  PROVE  LET paths == getModules(tsconfig, jsconfig, path).additionalModulePaths IN
         /\ paths \in Seq(Text)
         /\ \/ paths = <<>>
            \/ paths = <<"src">> /\ {tsconfig, jsconfig} \cap {"src", "./src"} # {}
            \/ paths = path /\ {tsconfig, jsconfig} \subseteq {NoFile, NoBaseUrl}
<1> DEFINE baseUrl == IF tsconfig # NoFile THEN tsconfig
                      ELSE IF jsconfig # NoFile THEN jsconfig
                      ELSE NoBaseUrl
           paths == getModules(tsconfig, jsconfig, path).additionalModulePaths
           additional == getAdditionalModulePaths(baseUrl, path)
<1>1. /\ tsconfig = NoFile \/ jsconfig = NoFile
      /\ ~additional.throws
      /\ paths = additional.paths
  BY DEF getModules
<1>2. CASE baseUrl = NoBaseUrl
  <2>1. paths = path
    BY <1>1, <1>2 DEF getAdditionalModulePaths, Paths
  <2>2. {tsconfig, jsconfig} \subseteq {NoFile, NoBaseUrl}
    BY <1>1, <1>2
  <2>3. QED BY <2>1, <2>2
<1>3. CASE baseUrl # NoBaseUrl
  <2> HIDE DEF baseUrl
  <2>1. \/ resolve(baseUrl) \in {"node_modules", "."} /\ additional = Paths(<<>>)
        \/ resolve(baseUrl) = "src" /\ additional = Paths(<<"src">>)
        \/ additional = Throws
    BY <1>3 DEF getAdditionalModulePaths
  <2>2. additional # Throws
    BY <1>1 DEF Throws
  <2>3. CASE additional = Paths(<<>>)
    <3>1. paths = <<>>
      BY <1>1, <2>3 DEF Paths
    <3>2. QED BY <3>1
  <2>4. CASE resolve(baseUrl) = "src" /\ additional = Paths(<<"src">>)
    <3>1. paths = <<"src">>
      BY <1>1, <2>4 DEF Paths
    <3>2. baseUrl \in {"src", "./src"}
      BY <2>4 DEF resolve
    <3>3. baseUrl \in {tsconfig, jsconfig}
      BY <1>3 DEF baseUrl
    <3>4. {tsconfig, jsconfig} \cap {"src", "./src"} # {}
      BY <3>2, <3>3
    <3>5. QED BY <3>1, <3>4, Lists, Zenon
  <2>5. QED BY <2>1, <2>2, <2>3, <2>4
<1>4. QED BY <1>2, <1>3

LEMMA NodePathIsList ==
  ASSUME NEW text
  PROVE  /\ Folders(text) \in Seq(Text)
         /\ honored(Folders(text)) \in Seq(Text)
         /\ Range(honored(Folders(text))) \subseteq Range(Folders(text))
<1>1. Folders(text) \in Seq(Text)
  <2>1. CASE text \in DOMAIN FoldersIn
    <3>1. FoldersIn[text] \in Seq(STRING)
      BY <2>1, WebEnvAssumption, Zenon
    <3>2. QED BY <2>1, <3>1, Lists, Zenon DEF Folders
  <2>2. CASE text \notin DOMAIN FoldersIn
    BY <2>2, Lists, Zenon DEF Folders
  <2>3. QED BY <2>1, <2>2
<1>2. QED BY <1>1, HonoredFolders DEF Range

LEMMA SearchedIsList ==
  ASSUME Static, nodePath \in Seq(Text), ~modules.throws
  PROVE  Searched(world.request.via) \in Seq(Text)
<1>1. modules.additionalModulePaths \in Seq(Text)
  BY AdditionalPaths DEF modules
<1>2. <<"node_modules", "node_modules">> \o modules.additionalModulePaths \in Seq(Text)
  BY <1>1, Lists, ConcatProperties
<1>3. QED BY <1>2, Lists, StaticFacts DEF Searched

LEMMA FoundStays ==
  ASSUME UNCHANGED <<world, project, nodePath>>
  PROVE  /\ modules' = modules
         /\ \A dir : Found(dir)' = Found(dir)
         /\ Searched(world.request.via)' = Searched(world.request.via)
<1>1. modules' = modules
  BY DEF modules
<1>2. useTypeScript' = useTypeScript
  BY <1>1 DEF useTypeScript
<1>3. \A dir : Found(dir)' = Found(dir)
  BY <1>2 DEF Found
<1>4. Searched(world.request.via)' = Searched(world.request.via)
  BY <1>1 DEF Searched
<1>5. QED BY <1>1, <1>3, <1>4

LEMMA FileInvStays ==
  ASSUME Static, FileInv, [Next]_vars
  PROVE  FileInv'
<1>0. UNCHANGED <<script, shell, files, project, world>>
  BY GivenStays
<1>1. CASE (SetEnv \/ RequireEnv \/ LoadFile) /\ UNCHANGED bundleVars
  <2>1. /\ pc \in {"head", "env.js", "dotenv"} /\ pc' \in {"env.js", "dotenv", "crashed"}
        /\ file' = file
    BY <1>1 DEF SetEnv, RequireEnv, LoadFile, bundleVars
  <2>2. QED BY <2>1 DEF FileInv, EnvRead, Unconfigured, Unbundled
<1>2. CASE ResolveNodePath /\ UNCHANGED bundleVars
  <2>1. /\ pc = "dotenv" /\ pc' \in {"jest", "require"}
        /\ nodePath' = honored(Folders(env["NODE_PATH"])) /\ env' = env /\ file' = file
    BY <1>2 DEF ResolveNodePath, bundleVars
  <2>2. QED BY <2>1 DEF FileInv, EnvRead, Unconfigured, Unbundled
<1>3. CASE Require /\ UNCHANGED bundleVars
  <2>1. /\ pc = "require" /\ pc' = IF modules.throws THEN "bad configuration" ELSE "configure"
        /\ UNCHANGED <<env, nodePath, file>>
    BY <1>3 DEF Require, bundleVars
  <2>2. modules' = modules
    BY <1>0, <2>1, FoundStays
  <2>3. QED BY <2>1, <2>2 DEF FileInv, EnvRead, Unconfigured, Unbundled
<1>4. CASE Configure /\ UNCHANGED bundleVars
  <2>1. pc = "configure" /\ pc' = "resolve" /\ UNCHANGED <<env, nodePath, file>>
    BY <1>4 DEF Configure, bundleVars
  <2>2. modules' = modules
    BY <1>0, <2>1, FoundStays
  <2>3. QED BY <2>1, <2>2 DEF FileInv, EnvRead, Unconfigured, Unbundled
<1>5. CASE Resolve \/ Match \/ RunLoader \/ Parse \/ Emit
  <2>1. /\ UNCHANGED <<env, nodePath>>
        /\ pc \in {"resolve", "match", "load", "emit"}
        /\ pc' \notin Unbundled
    BY <1>5, EnvVarsStay DEF envVars, Unbundled, Unconfigured
  <2>2. /\ nodePath = honored(Folders(env["NODE_PATH"])) /\ ~modules.throws
        /\ file # NoModule => /\ file.dir \in {"src", "node_modules"}
                              /\ FirstFound(Searched(world.request.via), file.dir)
    BY <2>1 DEF FileInv, EnvRead, Unconfigured
  <2>3. nodePath \in Seq(Text)
    BY <2>2, NodePathIsList
  <2>4. \/ file' = file
        \/ /\ file'.dir \in {"src", "node_modules"}
           /\ FirstFound(Searched(world.request.via), file'.dir)
    <3>1. CASE Resolve
      <4> DEFINE folders == Searched(world.request.via)
                 first == SelectInSeq(folders, LAMBDA d : Found(d) # {})
                 dir == folders[first]
                 found == [dir |-> dir, ext |-> Extension(dir)]
      <4>1. \/ file' = file
            \/ first # 0 /\ found.dir \in {"src", "node_modules"} /\ file' = found
        <5> HIDE DEF dir
        <5>1. QED BY <3>1, Zenon DEF Resolve, dir
      <4>2. folders \in Seq(Text) /\ Len(folders) \in Nat
        BY <2>2, <2>3, SearchedIsList
      <4>3. first # 0 =>
              /\ first \in 1..Len(folders)
              /\ Found(dir) # {}
              /\ \A i \in 1..Len(folders) : Found(folders[i]) # {} => first <= i
        <5> HIDE DEF folders
        <5>1. QED BY <4>2, FirstFolder, Zenon
      <4>4. found.dir = dir
        <5> HIDE DEF dir
        <5>1. QED OBVIOUS
      <4> HIDE DEF folders, first
      <4>5. first # 0 => FirstFound(folders, dir)
        BY <4>3 DEF FirstFound
      <4> HIDE DEF dir, found
      <4>6. QED BY <4>1, <4>4, <4>5 DEF folders
    <3>2. CASE Match \/ RunLoader \/ Parse \/ Emit
      BY <3>2 DEF Match, RunLoader, Parse, Emit
    <3>3. QED BY <1>5, <3>1, <3>2
  <2>5. file' # NoModule =>
          /\ file'.dir \in {"src", "node_modules"}
          /\ FirstFound(Searched(world.request.via), file'.dir)
    BY <2>2, <2>4
  <2>6. modules' = modules
    BY <1>0, <2>1, FoundStays
  <2>7. file' # NoModule => FirstFound(Searched(world.request.via), file.dir)'
    BY <1>0, <2>1, <2>5, FoundStays DEF FirstFound
  <2>8. QED BY <2>1, <2>2, <2>5, <2>6, <2>7 DEF FileInv, EnvRead
<1>6. CASE UNCHANGED vars
  <2>1. UNCHANGED <<pc, env, nodePath, file>>
    BY <1>6 DEF vars, envVars, bundleVars
  <2>2. modules' = modules
    BY <1>0, <2>1, FoundStays
  <2>3. FirstFound(Searched(world.request.via), file.dir) =>
          FirstFound(Searched(world.request.via), file.dir)'
    BY <1>0, <2>1, FoundStays DEF FirstFound
  <2>4. QED BY <2>1, <2>2, <2>3 DEF FileInv, EnvRead
<1>7. QED BY <1>1, <1>2, <1>3, <1>4, <1>5, <1>6, Steps

-----------------------------------------------------------------------------
(* Loading. *)

\* l and a are what is left and what is done, in reverse, of a chain of loaders in which each
\* reads what the one before it gives, and the next one reads c.
Chain(all, f, l, a, c) ==
  /\ Composes(all, [kind |-> SourceKind(f.ext), map |-> FALSE])
  /\ f.dir = "src" /\ f.ext \in JsExtensions =>
       all = <<Option("babel-loader: app"), Option("eslint-loader")>>
  /\ \E S : l \in Seq(S) /\ a \in Seq(S)
  /\ Len(l) + Len(a) = Len(all)
  /\ \A i \in 1..Len(l) : l[i] = all[i]
  /\ \A i \in 1..Len(a) : a[i] = all[Len(all) + 1 - i]
  /\ l # <<>> => Reads(Last(l), c)

LoadInv ==
  /\ IF pc \in {"load", "parse failed", "emit", "done"}
     THEN \E all : Chain(all, file, loaders, applied, content)
     ELSE applied = <<>>
  /\ pc \in {"emit", "done"} => loaders = <<>>
  /\ LoadersCompose

LEMMA ChainStarts ==
  ASSUME NEW f
  PROVE  Chain(Uses(f), f, Uses(f), <<>>, [kind |-> SourceKind(f.ext), map |-> FALSE])
<1> DEFINE U == Uses(f)
           c == [kind |-> SourceKind(f.ext), map |-> FALSE]
<1>1. Composes(U, c)
  BY UsesCompose
<1>2. f.dir = "src" /\ f.ext \in JsExtensions =>
        U = <<Option("babel-loader: app"), Option("eslint-loader")>>
  BY UsesAre DEF JsExtensions, PlainJs, Images
<1> HIDE DEF U, c
<1>3. PICK S : U \in Seq(S)
  BY <1>1 DEF Composes
<1>4. <<>> \in Seq(S) /\ Len(<<>>) = 0 /\ Len(U) \in Nat
  BY <1>3
<1>5. Len(U) + Len(<<>>) = Len(U) /\ \A i \in 1..Len(<<>>) : FALSE
  BY <1>4
<1>6. U # <<>> => Reads(Last(U), c)
  BY <1>1, <1>3 DEF Composes, Last
<1>7. Chain(U, f, U, <<>>, c)
  BY <1>1, <1>2, <1>3, <1>4, <1>5, <1>6 DEF Chain, c
<1>8. QED BY <1>7 DEF U, c

LEMMA ChainGoesOn ==
  ASSUME NEW all, NEW f, NEW l, NEW a, NEW c, Chain(all, f, l, a, c), l # <<>>
  PROVE  Chain(all, f, Front(l), Append(a, Last(l)), Gives(Last(l), c))
<1> DEFINE n == Len(l)
           b == Append(a, Last(l))
           m == Front(l)
<1>1. PICK S : l \in Seq(S) /\ a \in Seq(S)
  BY DEF Chain
<1>2. n \in Nat /\ n >= 1 /\ Last(l) = l[n] /\ Last(l) \in S /\ Len(a) \in Nat
  BY <1>1 DEF Last
<1>3. /\ b \in Seq(S) /\ Len(b) = Len(a) + 1 /\ b[Len(a) + 1] = l[n]
      /\ \A i \in 1..Len(a) : b[i] = a[i]
  BY <1>1, <1>2, AppendProperties
<1>4. /\ m \in Seq(S) /\ Len(m) = n - 1
      /\ \A i \in 1..(n - 1) : m[i] = l[i]
  <2>1. n - 1 \in Int /\ 1 \in Int /\ \A i \in 1..(n - 1) : l[i] \in S
    BY <1>1, <1>2
  <2>2. m = SubSeq(l, 1, n - 1)
    BY DEF Front
  <2> HIDE DEF m, n
  <2>3. /\ m \in Seq(S) /\ Len(m) = IF 1 <= n - 1 THEN n - 1 - 1 + 1 ELSE 0
        /\ \A i \in 1..(n - 1 - 1 + 1) : m[i] = l[1 + i - 1]
    BY <2>1, <2>2, SubSeqProperties
  <2>4. n - 1 - 1 + 1 = n - 1 /\ \A i \in 1..(n - 1) : 1 + i - 1 = i
    BY <1>2
  <2>5. QED BY <1>2, <2>3, <2>4
<1>5. Len(all) = n + Len(a) /\ \A i \in 1..n : l[i] = all[i]
  BY <1>1, <1>2 DEF Chain
<1> HIDE DEF n, b, m
<1>6. Len(m) + Len(b) = Len(all)
  BY <1>2, <1>3, <1>4, <1>5
<1>7. \A i \in 1..Len(m) : m[i] = all[i]
  <2>1. \A i \in 1..(n - 1) : i \in 1..n
    BY <1>2
  <2>2. QED BY <1>4, <1>5, <2>1
<1>8. \A i \in 1..Len(b) : b[i] = all[Len(all) + 1 - i]
  <2>1. \A i \in 1..(Len(a) + 1) : i \in 1..Len(a) \/ i = Len(a) + 1
    BY <1>2
  <2>2. n + Len(a) + 1 - (Len(a) + 1) = n /\ n \in 1..n
    BY <1>2
  <2>3. \A i \in 1..Len(a) : b[i] = all[Len(all) + 1 - i]
    BY <1>3 DEF Chain
  <2>4. b[Len(a) + 1] = all[Len(all) + 1 - (Len(a) + 1)]
    BY <1>3, <1>5, <2>2
  <2>5. QED BY <1>3, <2>1, <2>3, <2>4
<1>9. m # <<>> => Reads(Last(m), Gives(Last(l), c))
  <2>1. SUFFICES ASSUME m # <<>> PROVE Reads(Last(m), Gives(Last(l), c))
    OBVIOUS
  <2>2. n \in 2..Len(all) /\ n - 1 \in 1..(n - 1) /\ n - 1 \in 1..n /\ n \in 1..n
    BY <1>2, <1>4, <1>5, <2>1
  <2>3. Last(m) = all[n - 1] /\ Last(l) = all[n]
    BY <1>2, <1>4, <1>5, <2>2 DEF Last
  <2>4. Reads(all[n], c)
    BY <2>3 DEF Chain
  <2>5. Reads(all[n - 1], Gives(all[n], c))
    BY <2>2, <2>4 DEF Chain, Composes
  <2>6. QED BY <2>3, <2>5
<1>10. /\ Composes(all, [kind |-> SourceKind(f.ext), map |-> FALSE])
       /\ f.dir = "src" /\ f.ext \in JsExtensions =>
            all = <<Option("babel-loader: app"), Option("eslint-loader")>>
  BY DEF Chain
<1>11. Chain(all, f, m, b, Gives(Last(l), c))
  BY <1>3, <1>4, <1>6, <1>7, <1>8, <1>9, <1>10 DEF Chain
<1>12. QED BY <1>11 DEF b, m

LEMMA LoadInvStays ==
  ASSUME LoadInv, [Next]_vars
  PROVE  LoadInv'
<1>1. CASE UNCHANGED <<loaders, applied, content, file>> /\
           (pc \in {"load", "parse failed", "emit", "done"} <=>
              pc' \in {"load", "parse failed", "emit", "done"}) /\
           (pc' \in {"emit", "done"} => loaders = <<>>) /\ pc' # "loader failed"
  BY <1>1 DEF LoadInv, LoadersCompose
<1>2. CASE (SetEnv \/ RequireEnv \/ LoadFile \/ ResolveNodePath \/ Require \/ Configure)
           /\ UNCHANGED bundleVars
  <2>1. /\ pc \in {"head", "env.js", "dotenv", "require", "configure"}
        /\ pc' \in {"env.js", "dotenv", "crashed", "jest", "require", "bad configuration",
                    "configure", "resolve"}
        /\ UNCHANGED <<loaders, applied, content, file>>
    BY <1>2 DEF SetEnv, RequireEnv, LoadFile, ResolveNodePath, Require, Configure, bundleVars
  <2>2. QED BY <1>1, <2>1
<1>3. CASE Resolve
  <2>1. pc = "resolve" /\ pc' \in {"module not found", "outside of src", "match"} /\ applied' = applied
    BY <1>3 DEF Resolve
  <2>2. QED BY <2>1 DEF LoadInv, LoadersCompose
<1>4. CASE Match
  <2>1. /\ pc = "match" /\ pc' = "load" /\ UNCHANGED <<file, applied>>
        /\ loaders' = Uses(file) /\ content' = [kind |-> SourceKind(file.ext), map |-> FALSE]
    BY <1>4 DEF Match
  <2>2. applied = <<>>
    BY <2>1 DEF LoadInv
  <2>3. Chain(Uses(file), file, loaders', applied', content')
    BY <2>1, <2>2, ChainStarts
  <2>4. \E all : Chain(all, file', loaders', applied', content')
    BY <2>1, <2>3
  <2>5. QED BY <2>1, <2>4 DEF LoadInv, LoadersCompose
<1>5. CASE RunLoader
  <2>1. pc = "load" /\ loaders # <<>> /\ file' = file
    BY <1>5 DEF RunLoader
  <2>2. PICK all : Chain(all, file, loaders, applied, content)
    BY <2>1 DEF LoadInv
  <2>3. Reads(Last(loaders), content)
    BY <2>1, <2>2 DEF Chain
  <2>4. /\ pc' = pc /\ loaders' = Front(loaders) /\ applied' = Append(applied, Last(loaders))
        /\ content' = Gives(Last(loaders), content)
    BY <1>5, <2>3 DEF RunLoader
  <2>5. Chain(all, file', loaders', applied', content')
    BY <2>1, <2>2, <2>4, ChainGoesOn
  <2>6. QED BY <2>1, <2>4, <2>5 DEF LoadInv, LoadersCompose
<1>6. CASE Parse \/ Emit
  <2>1. /\ pc \in {"load", "emit"} /\ pc' \in {"emit", "parse failed", "done"}
        /\ UNCHANGED <<loaders, applied, content, file>> /\ loaders = <<>>
    BY <1>6 DEF Parse, Emit, LoadInv
  <2>2. QED BY <1>1, <2>1
<1>7. CASE UNCHANGED vars
  <2>1. UNCHANGED <<pc, loaders, applied, content, file>>
    BY <1>7 DEF vars, bundleVars
  <2>2. QED BY <1>1, <2>1 DEF LoadInv, LoadersCompose
<1>8. QED BY <1>2, <1>3, <1>4, <1>5, <1>6, <1>7, Steps

LEMMA PageStays ==
  ASSUME BundleIsPrecached, [Next]_vars
  PROVE  BundleIsPrecached'
<1>1. CASE Emit
  <2>1. /\ UNCHANGED <<script, env, content>>
        /\ output'.html = Referenced /\ isEnvProduction => output'.precached = Precached
    BY <1>1 DEF Emit, envVars
  <2>2. (Referenced \ FromPublic) \cup Media \cup {Page} \subseteq Precached
    BY DEF Referenced, FromPublic, Chunks, Media, Page, Precached, EmittedFiles, Asset
  <2>3. /\ Media' = Media /\ Page' = Page /\ FromPublic' = FromPublic
        /\ isEnvProduction' = isEnvProduction
    BY <2>1 DEF Media, Page, FromPublic, isEnvProduction, Asset
  <2>4. output'.html = Referenced
    BY <1>1 DEF Emit
  <2>5. QED BY <2>1, <2>2, <2>3, <2>4 DEF BundleIsPrecached
<1>2. CASE UNCHANGED vars
  <2>1. UNCHANGED <<pc, script, content, output>>
    BY <1>2 DEF vars, envVars, bundleVars
  <2>2. Media' = Media /\ Page' = Page /\ FromPublic' = FromPublic
    BY <2>1 DEF Media, Page, FromPublic, Asset
  <2>3. QED BY <2>1, <2>2 DEF BundleIsPrecached, isEnvProduction
<1>3. CASE pc' # "done"
  BY <1>3 DEF BundleIsPrecached
<1>4. (SetEnv \/ RequireEnv \/ LoadFile \/ ResolveNodePath \/ Require \/ Configure
       \/ Resolve \/ Match \/ RunLoader \/ Parse) => pc' # "done"
  BY DEF SetEnv, RequireEnv, LoadFile, ResolveNodePath, Require, Configure, Resolve, Match,
         RunLoader, Parse
<1>5. QED BY <1>1, <1>2, <1>3, <1>4, Steps

-----------------------------------------------------------------------------
(* The theorems. *)

BundlerInv == Static /\ EnvInv /\ UrlInv /\ FileInv /\ LoadInv /\ BundleIsPrecached

LEMMA BundlerInit == Init => BundlerInv
<1> SUFFICES ASSUME Init PROVE BundlerInv
  OBVIOUS
<1>1. /\ pc = "head" /\ env = shell /\ cache = Unset /\ raw = <<>>
      /\ file = NoModule /\ loaders = <<>> /\ applied = <<>>
  BY DEF Init, EnvInit
<1>2. Static
  <2>1. PICK c \in Cases : EnvInit(c) /\ world = [disk |-> c.disk, request |-> c.request]
    BY DEF Init
  <2>2. world.request = c.request
    BY <2>1
  <2>3. QED BY <2>1, <2>2 DEF Static, EnvInit
<1>3. EnvInv
  BY <1>1 DEF EnvInv, FirstWins, EnvRead
<1>4. UrlInv
  BY <1>1 DEF UrlInv, Unconfigured, Unbundled
<1>5. FileInv
  BY <1>1 DEF FileInv, EnvRead, Unconfigured
<1>6. LoadInv
  BY <1>1 DEF LoadInv, LoadersCompose
<1>7. BundleIsPrecached
  BY <1>1 DEF BundleIsPrecached
<1>8. QED BY <1>2, <1>3, <1>4, <1>5, <1>6, <1>7 DEF BundlerInv

LEMMA BundlerStep == BundlerInv /\ [Next]_vars => BundlerInv'
  BY StaticStays, EnvInvStays, UrlInvStays, FileInvStays, LoadInvStays, PageStays DEF BundlerInv

\* The inductive invariant: what env.js knows when it has read some of the files, which path
\* is in the cache and in the configurations, where an import was found, and which of its
\* loaders are left.
THEOREM BundlerInvariant == Spec => []BundlerInv
  BY BundlerInit, BundlerStep, PTL DEF Spec

\* The client and both configurations have the public path of the settings as they are when
\* all files are read.
THEOREM BundlerPathsFollowSettings == Spec => []PathsFollowSettings
<1>1. BundlerInv => PathsFollowSettings
  <2> SUFFICES ASSUME BundlerInv, Configured PROVE PathsFollowSettings
    BY DEF PathsFollowSettings
  <2>1. pc \notin Unbundled /\ pc \notin Unconfigured /\ raw = getClientEnvironment(WithoutSlash(config))
    <3>1. pc \notin Unbundled /\ raw = getClientEnvironment(WithoutSlash(config))
      BY DEF BundlerInv, UrlInv, Configured
    <3>2. QED BY <3>1 DEF Unbundled
  <2>2. config = publicUrlOrPath(NODE_ENV(script), env["PUBLIC_URL"]) /\ cache = config
    BY <2>1 DEF BundlerInv, UrlInv
  <2>3. raw["PUBLIC_URL"] = WithoutSlash(config)
    BY <2>1 DEF getClientEnvironment
  <2>4. QED BY <2>2, <2>3 DEF PathsFollowSettings
<1>2. QED BY <1>1, BundlerInvariant, PTL

\* Every variable has the value of the strongest source that sets it, whatever the files say
\* and whatever they refer to.
THEOREM BundlerFirstWins == Spec => []FirstWins
<1>1. BundlerInv => FirstWins
  BY DEF BundlerInv, EnvInv
<1>2. QED BY <1>1, BundlerInvariant, PTL

\* Nothing reaches the client but what is for it, or what a file makes a variable for it
\* refer to.
THEOREM BundlerSecretsStay == Spec => []SecretsStay
<1>1. BundlerInv => SecretsStay
  BY SecretsStayBy DEF BundlerInv
<1>2. QED BY <1>1, BundlerInvariant, PTL

\* What is installed wins, and nothing else is found but by baseUrl or the strongest NODE_PATH.
THEOREM BundlerNodeModulesWin == Spec => []NodeModulesWin
<1>1. BundlerInv => NodeModulesWin
  <2> SUFFICES ASSUME BundlerInv, file # NoModule, world.request.via = "bare"
               PROVE  IF Found("node_modules") # {} THEN file.dir = "node_modules"
                      ELSE \/ {project.tsconfig, project.jsconfig} \cap {"src", "./src"} # {}
                           \/ /\ {project.tsconfig, project.jsconfig} \subseteq {NoFile, NoBaseUrl}
                              /\ file.dir \in Range(Folders(ValueOf("NODE_PATH")))
    BY DEF NodeModulesWin
  <2> DEFINE given == ValueOf("NODE_PATH")
             paths == modules.additionalModulePaths
             two == <<"node_modules", "node_modules">>
  <2>1. /\ pc \notin Unbundled /\ pc \notin Unconfigured \cup {"bad configuration"} /\ EnvRead
    BY DEF BundlerInv, FileInv, Unbundled, Unconfigured, EnvRead
  <2>2. env["NODE_PATH"] = given
    BY <2>1, WebEnvAssumption DEF BundlerInv, EnvInv, FirstWins
  <2>3. nodePath = honored(Folders(given)) /\ ~modules.throws
    BY <2>1, <2>2 DEF BundlerInv, FileInv
  <2>4. nodePath \in Seq(Text) /\ Range(nodePath) \subseteq Range(Folders(given))
    BY <2>3, NodePathIsList
  <2>5. /\ paths \in Seq(Text)
        /\ \/ paths = <<>>
           \/ {project.tsconfig, project.jsconfig} \cap {"src", "./src"} # {}
           \/ paths = nodePath /\ {project.tsconfig, project.jsconfig} \subseteq {NoFile, NoBaseUrl}
    BY <2>3, <2>4, AdditionalPaths DEF modules
  <2>6. FirstFound(two \o paths, file.dir)
    BY DEF BundlerInv, FileInv, Searched
  <2> HIDE DEF given, paths
  <2>7. /\ Len(two \o paths) = 2 + Len(paths) /\ Len(paths) \in Nat
        /\ (two \o paths)[1] = "node_modules" /\ (two \o paths)[2] = "node_modules"
        /\ \A n \in 3..(2 + Len(paths)) : (two \o paths)[n] = paths[n - 2]
    BY <2>5, Lists, ConcatProperties
  <2> DEFINE folders == two \o paths
  <2> HIDE DEF folders
  <2>8. PICK n \in 1..Len(folders) :
          /\ file.dir = folders[n] /\ Found(file.dir) # {}
          /\ \A m \in 1..Len(folders) : Found(folders[m]) # {} => n <= m
    BY <2>6 DEF FirstFound, folders
  <2>9. CASE Found("node_modules") # {}
    <3>1. n <= 1
      BY <2>7, <2>8, <2>9 DEF folders
    <3>2. n = 1
      BY <2>8, <3>1
    <3>3. QED BY <2>7, <2>8, <2>9, <3>2 DEF folders
  <2>10. CASE Found("node_modules") = {}
    <3>1. n # 1 /\ n # 2
      BY <2>7, <2>8, <2>10 DEF folders
    <3>2. n \in 3..(2 + Len(paths)) /\ n - 2 \in 1..Len(paths)
      BY <2>7, <2>8, <3>1 DEF folders
    <3>3. file.dir = paths[n - 2]
      BY <2>7, <2>8, <3>2 DEF folders
    <3>4. file.dir \in Range(paths) /\ paths # <<>>
      BY <2>5, <3>2, <3>3 DEF Range
    <3>5. QED BY <2>4, <2>5, <2>10, <3>4 DEF given
  <2>11. QED BY <2>9, <2>10
<1>2. QED BY <1>1, BundlerInvariant, PTL

\* No loader fails: each one reads what the one before it gives.
THEOREM BundlerLoadersCompose == Spec => []LoadersCompose
<1>1. BundlerInv => LoadersCompose
  BY DEF BundlerInv, LoadInv
<1>2. QED BY <1>1, BundlerInvariant, PTL

\* css-loader knows how many loaders have worked before it.
THEOREM BundlerImportsAreProcessed == Spec => []ImportsAreProcessed
<1>1. BundlerInv => ImportsAreProcessed
  <2> SUFFICES ASSUME BundlerInv, NEW i \in DOMAIN applied, applied[i].loader = "css-loader"
               PROVE  applied[i].importLoaders = i - 1
    BY DEF ImportsAreProcessed
  <2>1. applied # <<>>
    OBVIOUS
  <2>2. PICK all : Chain(all, file, loaders, applied, content)
    BY <2>1 DEF BundlerInv, LoadInv
  <2>3. PICK S : loaders \in Seq(S) /\ applied \in Seq(S)
    BY <2>2 DEF Chain
  <2>4. /\ i \in 1..Len(applied) /\ Len(applied) \in Nat /\ Len(loaders) \in Nat
        /\ Len(all) = Len(loaders) + Len(applied)
    <3>1. Len(loaders) + Len(applied) = Len(all)
      BY <2>2 DEF Chain
    <3>2. QED BY <2>3, <3>1
  <2>5. /\ Len(all) + 1 - i \in 1..Len(all) /\ Len(all) - (Len(all) + 1 - i) = i - 1
    BY <2>4
  <2>6. applied[i] = all[Len(all) + 1 - i]
    BY <2>2, <2>4 DEF Chain
  <2>7. QED BY <2>2, <2>5, <2>6 DEF Chain, Composes
<1>2. QED BY <1>1, BundlerInvariant, PTL

\* The app's own JavaScript is linted, then compiled with the app's presets.
THEOREM BundlerAppIsCompiled == Spec => []AppIsCompiled
<1>1. BundlerInv => AppIsCompiled
  <2> SUFFICES ASSUME BundlerInv, pc = "done", file.dir = "src", file.ext \in JsExtensions
               PROVE  [i \in DOMAIN applied |-> applied[i].loader] =
                        <<"eslint-loader", "babel-loader: app">>
    BY DEF AppIsCompiled, InSrc
  <2>1. loaders = <<>> /\ \E all : Chain(all, file, loaders, applied, content)
    BY DEF BundlerInv, LoadInv
  <2>2. PICK all : Chain(all, file, loaders, applied, content)
    BY <2>1
  <2> DEFINE a == Option("babel-loader: app")
             b == Option("eslint-loader")
  <2>3. all = <<a, b>>
    BY <2>2 DEF Chain
  <2>4. a.loader = "babel-loader: app" /\ b.loader = "eslint-loader"
    BY LoaderNames
  <2> HIDE DEF a, b
  <2>5. Len(all) = 2 /\ all[1] = a /\ all[2] = b /\ Len(loaders) = 0
    BY <2>1, <2>3
  <2>6. PICK S : applied \in Seq(S)
    BY <2>2 DEF Chain
  <2>7. Len(applied) = 2
    <3>1. Len(loaders) + Len(applied) = Len(all)
      BY <2>2 DEF Chain
    <3>2. QED BY <2>5, <2>6, <3>1
  <2>8. applied[1] = b /\ applied[2] = a
    <3>1. 1 \in 1..2 /\ 2 \in 1..2 /\ 2 + 1 - 1 = 2 /\ 2 + 1 - 2 = 1
      OBVIOUS
    <3>2. \A i \in 1..2 : applied[i] = all[2 + 1 - i]
      BY <2>2, <2>5, <2>7 DEF Chain
    <3>3. QED BY <2>5, <3>1, <3>2
  <2>9. DOMAIN applied = 1..2
    BY <2>6, <2>7
  <2> DEFINE names == [i \in DOMAIN applied |-> applied[i].loader]
             T == {"eslint-loader", "babel-loader: app"}
  <2>10. /\ names = [i \in 1..2 |-> applied[i].loader]
         /\ names[1] = "eslint-loader" /\ names[2] = "babel-loader: app"
    <3>1. names = [i \in 1..2 |-> applied[i].loader]
      BY <2>9
    <3> HIDE DEF names
    <3>2. names[1] = applied[1].loader /\ names[2] = applied[2].loader
      BY <3>1
    <3>3. QED BY <2>4, <2>8, <3>1, <3>2
  <2>11. names \in Seq(T) /\ Len(names) = 2
    <3>1. names \in [1..2 -> T]
      <4>1. \A i \in 1..2 : i = 1 \/ i = 2
        OBVIOUS
      <4>2. \A i \in 1..2 : applied[i].loader \in T
        BY <2>4, <2>8, <4>1
      <4> HIDE DEF T
      <4>3. QED BY <2>10, <4>2
    <3> HIDE DEF names, T
    <3>2. names \in Seq(T)
      BY <3>1, 2 \in Nat, SeqDef
    <3>3. DOMAIN names = 1..2 /\ DOMAIN names = 1..Len(names) /\ Len(names) \in Nat
      BY <3>1, <3>2, LenProperties
    <3>4. QED BY <3>2, <3>3
  <2>12. <<"eslint-loader", "babel-loader: app">> \in Seq(T)
    OBVIOUS
  <2> HIDE DEF names
  <2>13. \A i \in 1..2 : names[i] = <<"eslint-loader", "babel-loader: app">>[i]
    <3>1. \A i \in 1..2 : i = 1 \/ i = 2
      OBVIOUS
    <3>2. /\ <<"eslint-loader", "babel-loader: app">>[1] = "eslint-loader"
          /\ <<"eslint-loader", "babel-loader: app">>[2] = "babel-loader: app"
      OBVIOUS
    <3>3. QED BY <2>10, <3>1, <3>2, Zenon
  <2>14. names = <<"eslint-loader", "babel-loader: app">>
    <3> HIDE DEF T
    <3>1. Len(<<"eslint-loader", "babel-loader: app">>) = 2
      OBVIOUS
    <3>2. QED BY <2>11, <2>12, <2>13, <3>1, SeqEqual
  <2>15. QED BY <2>14 DEF names
<1>2. QED BY <1>1, BundlerInvariant, PTL

\* The page and its bundle load without a network.
THEOREM BundlerBundleIsPrecached == Spec => []BundleIsPrecached
<1>1. BundlerInv => BundleIsPrecached
  BY DEF BundlerInv
<1>2. QED BY <1>1, BundlerInvariant, PTL

=============================================================================
