----------------------------- MODULE Parts_proofs -----------------------------
(***************************************************************************)
(* Theorems about the parts MCParts puts side by side, for every value of  *)
(* their constants the parts' assumptions allow: any candidates, entrants, *)
(* storages, threads, processes, callers, keepers, tools, labels and       *)
(* bounds.  A section proves a part's type invariant and what it promises  *)
(* from its own specification; the last one lifts each result to           *)
(* PartsSpec, where it is the property the run checks.                     *)
(***************************************************************************)
EXTENDS MCParts, FiniteSetTheorems, WellFoundedInduction, SequenceTheorems, TLAPS

-----------------------------------------------------------------------------
(***************************************************************************)
(* The candidate harness and the tournament (CandidateTrials): typing,     *)
(* that a promotion is announced once, that nobody is recommended who lost *)
(* as often as it won, and that the tournament's one winner was right more *)
(* often than the others.                                                  *)
(***************************************************************************)
ImageOf(s) == {s[n] : n \in DOMAIN s}

\* What is left of a sequence of distinct names when the n-th is removed.
LEMMA Removal ==
    ASSUME NEW S, NEW s \in Seq(S), IsInjective(s), NEW n \in DOMAIN s
    PROVE  /\ RemoveAt(s, n) \in Seq(S) /\ IsInjective(RemoveAt(s, n))
           /\ ImageOf(RemoveAt(s, n)) = ImageOf(s) \ {s[n]}
<1> DEFINE r == RemoveAt(s, n)
<1>1. n \in 1..Len(s) /\ Len(s) \in Nat /\ DOMAIN s = 1..Len(s)
  OBVIOUS
<1> DEFINE front == SubSeq(s, 1, n - 1)  back == SubSeq(s, n + 1, Len(s))
<1>2. /\ front \in Seq(S) /\ Len(front) = n - 1 /\ \A i \in 1..(n - 1) : front[i] = s[i]
      /\ back \in Seq(S) /\ Len(back) = Len(s) - n
      /\ \A i \in 1..(Len(s) - n) : back[i] = s[n + i]
  <2>0. 1 <= n /\ n - 1 \in 0..Len(s)
    BY <1>1
  <2>1. front \in Seq(S) /\ Len(front) = n - 1 /\ \A i \in 1..(n - 1) : front[i] = s[i]
    BY <1>1, <2>0, SMTT(30)
  <2>2. /\ back \in Seq(S) /\ Len(back) = Len(s) - n
        /\ \A i \in 1..(Len(s) - n) : back[i] = s[n + i]
    BY <1>1
  <2> QED  BY <2>1, <2>2
<1> HIDE DEF front, back
<1>3. r = front \o back
  BY DEF front, back, RemoveAt
<1> HIDE DEF r
<1>4. r \in Seq(S) /\ Len(r) = Len(s) - 1
  <2>1. front \in Seq(S) /\ back \in Seq(S)
    BY <1>2
  <2>2. r \in Seq(S) /\ Len(r) = Len(front) + Len(back)
    BY <1>3, <2>1
  <2> QED  BY <1>1, <1>2, <2>1, <2>2
<1>5. \A i \in 1..Len(r) : r[i] = IF i < n THEN front[i] ELSE back[i - (n - 1)]
  BY <1>1, <1>2, <1>3, <1>4
<1>6. \A i \in 1..Len(r) : r[i] = IF i < n THEN s[i] ELSE s[i + 1]
  <2> SUFFICES ASSUME NEW i \in 1..Len(r) PROVE r[i] = IF i < n THEN s[i] ELSE s[i + 1]
    OBVIOUS
  <2>1. CASE i < n
    BY <1>1, <1>2, <1>5, <2>1
  <2>2. CASE i >= n
    <3>1. i - (n - 1) \in 1..(Len(s) - n) /\ n + (i - (n - 1)) = i + 1
      BY <1>1, <1>4, <2>2
    <3>2. r[i] = back[i - (n - 1)]
      BY <1>1, <1>5, <2>2
    <3>3. back[i - (n - 1)] = s[n + (i - (n - 1))]
      BY <1>2, <3>1
    <3> QED  BY <2>2, <3>1, <3>2, <3>3, <1>1
  <2> QED  BY <1>1, <1>4, <2>1, <2>2
<1>7. DOMAIN r = 1..Len(r) /\ Len(r) \in Nat
  BY <1>4
<1>8. IsInjective(r)
  <2> SUFFICES ASSUME NEW i \in 1..Len(r), NEW j \in 1..Len(r), r[i] = r[j] PROVE i = j
    BY <1>7 DEF IsInjective
  <2>1. PICK k \in DOMAIN s : r[i] = s[k] /\ k = IF i < n THEN i ELSE i + 1
    BY <1>1, <1>4, <1>6
  <2>2. PICK l \in DOMAIN s : r[j] = s[l] /\ l = IF j < n THEN j ELSE j + 1
    BY <1>1, <1>4, <1>6
  <2>3. k = l
    BY <2>1, <2>2 DEF IsInjective
  <2> QED  BY <1>1, <2>1, <2>2, <2>3
<1>9. ASSUME NEW i \in DOMAIN r PROVE r[i] \in ImageOf(s) \ {s[n]}
  <2>1. PICK k \in DOMAIN s : r[i] = s[k] /\ k # n
    BY <1>1, <1>4, <1>6, <1>7, <1>9
  <2> QED  BY <2>1 DEF ImageOf, IsInjective
<1>10. ASSUME NEW i \in DOMAIN s, i # n PROVE s[i] \in ImageOf(r)
  <2>1. PICK k \in DOMAIN r : r[k] = s[i]
    <3>1. CASE i < n
      BY <1>1, <1>4, <1>6, <1>7, <3>1
    <3>2. CASE i > n
      <4>1. i - 1 \in DOMAIN r /\ ~(i - 1 < n) /\ (i - 1) + 1 = i
        BY <1>1, <1>4, <1>7, <3>2
      <4> QED  BY <1>6, <1>7, <4>1
    <3> QED  BY <1>1, <1>10, <3>1, <3>2
  <2> QED  BY <2>1 DEF ImageOf
<1>11. ImageOf(r) = ImageOf(s) \ {s[n]}
  BY <1>9, <1>10 DEF ImageOf
<1> QED  BY <1>4, <1>8, <1>11 DEF r

\* A candidate is registered behind the others.
LEMMA Addition ==
    ASSUME NEW S, NEW s \in Seq(S), IsInjective(s), NEW x \in S, x \notin ImageOf(s)
    PROVE  /\ Append(s, x) \in Seq(S) /\ IsInjective(Append(s, x))
           /\ ImageOf(Append(s, x)) = ImageOf(s) \cup {x}
<1>1. Append(s, x) \in Seq(S) /\ DOMAIN s = 1..Len(s) /\ Len(s) \in Nat
      /\ DOMAIN Append(s, x) = 1..(Len(s) + 1)
  OBVIOUS
<1>2. \A i \in 1..(Len(s) + 1) :
        Append(s, x)[i] = IF i = Len(s) + 1 THEN x ELSE s[i]
  OBVIOUS
<1>3. IsInjective(Append(s, x))
  BY <1>1, <1>2 DEF IsInjective, ImageOf
<1>4. \A y : y \in ImageOf(Append(s, x)) <=> y \in ImageOf(s) \cup {x}
  BY <1>1, <1>2 DEF ImageOf
<1> QED  BY <1>1, <1>3, <1>4

LEMMA RegisteredIs == Registered = ImageOf(registry)
BY DEF Registered, ImageOf

\* A candidate announced and still registered is remembered as recommended.
Remembered ==
    \A x \in Name : announced[x] <= 1
                    /\ (announced[x] = 1 /\ x \in Registered => x \in recommended)

TrialsInv == TypeOK /\ Remembered

LEMMA InitIInv == Init => TrialsInv
<1> SUFFICES ASSUME Init PROVE TrialsInv  OBVIOUS
<1>1. registry \in Seq(Name) /\ IsInjective(registry) /\ Registered = {}
  BY DEF Init, IsInjective, Registered
<1>2. /\ \A x \in Name : obs[x] \in Seq([prod : BOOLEAN, cand : BOOLEAN])
      /\ \A e \in Entrants : marks[e] \in Seq(BOOLEAN)
  BY DEF Init
<1>3. announced \in [Name -> Nat] /\ size \in Nat /\ left \in 0..size
      /\ inputs \in 0..MaxInputs /\ registers \in 0..MaxRegisters
  BY TrialsAssumption DEF Init, TrialsAssumption
<1>4. recommended \subseteq Registered /\ walk \subseteq Registered
  BY DEF Init
<1> QED  BY <1>1, <1>2, <1>3, <1>4 DEF TrialsInv, TypeOK, Remembered, Init

\* An evaluation announces a registered candidate at most once.
LEMMA EvaluateIInv ==
    ASSUME TrialsInv, NEW x \in Registered, Evaluate(x), UNCHANGED registry
    PROVE  /\ recommended' \subseteq Registered' /\ announced' \in [Name -> Nat]
           /\ Remembered'
<1>1. x \in Name
  BY RegisteredIs DEF TrialsInv, TypeOK, ImageOf
<1>2. Registered' = Registered
  BY DEF Registered
<1>3. CASE Recommends(x) /\ x \notin recommended
  <2>1. announced[x] \in Nat /\ announced[x] <= 1 /\ announced[x] # 1
    BY <1>1, <1>3 DEF TrialsInv, TypeOK, Remembered
  <2>2. announced' = [announced EXCEPT ![x] = 1]
    BY <1>3, <2>1 DEF Evaluate
  <2>3. recommended' = recommended \cup {x}
    BY <1>3 DEF Evaluate
  <2> QED  BY <1>1, <1>2, <2>2, <2>3 DEF TrialsInv, TypeOK, Remembered
<1>4. CASE ~(Recommends(x) /\ x \notin recommended)
  BY <1>2, <1>4 DEF Evaluate, TrialsInv, TypeOK, Remembered
<1> QED  BY <1>3, <1>4

\* The harness keeps the invariant, registrations and callbacks included.
LEMMA RegistryIInv ==
    ASSUME TrialsInv, NEW x \in Name, Register(x) \/ Unregister(x)
    PROVE  TrialsInv'
<1> USE DEF TrialsInv, TypeOK, tournament
<1>1. CASE Register(x)
  <2>1. registry' \in Seq(Name) /\ IsInjective(registry') /\ Registered' = Registered \cup {x}
    <3>1. x \notin ImageOf(registry) /\ registry' = Append(registry, x)
      BY <1>1, RegisteredIs DEF Register
    <3> HIDE DEF TypeOK
    <3>2. registry \in Seq(Name) /\ IsInjective(registry)
      BY DEF TypeOK
    <3>3. Registered' = ImageOf(registry')
      BY DEF Registered, ImageOf
    <3> QED  BY <3>1, <3>2, <3>3, Addition, RegisteredIs
  <2>2. /\ walk' \subseteq Registered' /\ recommended' \subseteq Registered'
        /\ registers' \in 0..MaxRegisters
    BY <1>1, <2>1, TrialsAssumption DEF Register, TrialsAssumption
  <2>3. \A y \in Name : obs'[y] \in Seq([prod : BOOLEAN, cand : BOOLEAN])
    <3>1. <<>> \in Seq([prod : BOOLEAN, cand : BOOLEAN])
      OBVIOUS
    <3>2. \A y \in Name : obs'[y] = obs[y] \/ obs'[y] = <<>>
      BY <1>1 DEF Register
    <3> QED  BY <3>1, <3>2
  <2>4. announced' \in [Name -> Nat] /\ Remembered'
    BY <1>1, <2>1 DEF Register, Remembered
  <2> QED  BY <1>1, <2>1, <2>2, <2>3, <2>4 DEF Register
<1>2. CASE Unregister(x)
  <2>1. registry' \in Seq(Name) /\ IsInjective(registry') /\ Registered' = Registered \ {x}
    <3>1. PICK n \in DOMAIN registry : registry[n] = x /\ registry' = RemoveAt(registry, n)
      BY <1>2 DEF Unregister, Leaves
    <3> HIDE DEF TypeOK
    <3>2. registry \in Seq(Name) /\ IsInjective(registry)
      BY DEF TypeOK
    <3>3. Registered' = ImageOf(registry')
      BY DEF Registered, ImageOf
    <3> QED  BY <3>1, <3>2, <3>3, Removal, RegisteredIs
  <2>2. walk' \subseteq Registered' /\ recommended' \subseteq Registered'
    BY <1>2, <2>1 DEF Unregister, Leaves
  <2>3. \A y \in Name : obs'[y] \in Seq([prod : BOOLEAN, cand : BOOLEAN])
    <3>1. <<>> \in Seq([prod : BOOLEAN, cand : BOOLEAN])
      OBVIOUS
    <3>2. \A y \in Name : obs'[y] = obs[y] \/ obs'[y] = <<>>
      BY <1>2 DEF Unregister
    <3> QED  BY <3>1, <3>2
  <2>4. Remembered'
    BY <1>2, <2>1 DEF Unregister, Remembered
  <2> QED  BY <1>2, <2>1, <2>2, <2>3, <2>4 DEF Unregister
<1> QED  BY <1>1, <1>2

\* A sequence stays one of its kind when it gets longer by one of it.
LEMMA Longer ==
    ASSUME NEW S, NEW s \in Seq(S), NEW e \in S
    PROVE  Append(s, e) \in Seq(S)
OBVIOUS

\* One more observation keeps the types.
LEMMA ObserveIInv ==
    ASSUME TrialsInv, Observe
    PROVE  TrialsInv'
<1> USE DEF TrialsInv, TypeOK
<1> DEFINE Obs == [prod : BOOLEAN, cand : BOOLEAN]
<1>1. PICK prod \in BOOLEAN, right \in SUBSET Registered, k \in 1..Len(registry) :
        obs' = [x \in Name |->
                  IF \E n \in 1..k : registry[n] = x
                  THEN Append(obs[x], [prod |-> prod, cand |-> x \in right])
                  ELSE obs[x]]
  BY DEF Observe
<1>2. ASSUME NEW x \in Name PROVE obs'[x] \in Seq(Obs)
  <2>1. [prod |-> prod, cand |-> x \in right] \in Obs /\ obs[x] \in Seq(Obs)
    OBVIOUS
  <2>2. obs'[x] = Append(obs[x], [prod |-> prod, cand |-> x \in right]) \/ obs'[x] = obs[x]
    BY <1>1
  <2> HIDE DEF Obs
  <2>3. Append(obs[x], [prod |-> prod, cand |-> x \in right]) \in Seq(Obs)
    BY <2>1, Longer
  <2> QED  BY <2>1, <2>2, <2>3
<1>3. inputs' \in 0..MaxInputs
  BY TrialsAssumption DEF Observe, TrialsAssumption
<1>4. UNCHANGED <<registry, recommended, announced, walk, size, left, marks, registers>>
  BY DEF Observe, tournament
<1>5. Registered' = Registered
  BY <1>4 DEF Registered
<1> QED  BY <1>2, <1>3, <1>4, <1>5 DEF Remembered

LEMMA ShowIInv ==
    ASSUME TrialsInv, Show
    PROVE  TrialsInv'
<1> USE DEF TrialsInv, TypeOK
<1>1. PICK p \in [Entrants -> Prediction], k \in 1..Len(Entrant) :
        marks' = [e \in Entrants |->
                    IF \E n \in 1..k : Entrant[n] = e
                    THEN Append(marks[e], p[e] = "right") ELSE marks[e]]
  BY DEF Show
<1>2. ASSUME NEW e \in Entrants PROVE marks'[e] \in Seq(BOOLEAN)
  <2>1. (p[e] = "right") \in BOOLEAN /\ marks[e] \in Seq(BOOLEAN)
    OBVIOUS
  <2>2. marks'[e] = Append(marks[e], p[e] = "right") \/ marks'[e] = marks[e]
    BY <1>1
  <2>3. Append(marks[e], p[e] = "right") \in Seq(BOOLEAN)
    BY <2>1, Longer
  <2> QED  BY <2>1, <2>2, <2>3
<1>3. inputs' \in 0..MaxInputs
  BY TrialsAssumption DEF Show, TrialsAssumption
<1>4. UNCHANGED <<registry, obs, recommended, announced, walk, size, left, registers>>
  BY DEF Show, harness
<1>5. Registered' = Registered
  BY <1>4 DEF Registered
<1> QED  BY <1>2, <1>3, <1>4, <1>5 DEF Remembered

\* Evaluating, one candidate or all, and coming back from callbacks.
LEMMA EvaluateAllIInv ==
    ASSUME TrialsInv, EvaluateAll \/ Walk \/ Return \/ Interrupt \/ \E x \in Name : EvaluateOne(x)
    PROVE  TrialsInv'
<1> USE DEF TrialsInv, TypeOK, tournament
<1>1. UNCHANGED <<registry, obs, marks, inputs, registers>>
  BY DEF EvaluateAll, Walk, Return, Interrupt, EvaluateOne
<1>2. Registered' = Registered
  BY <1>1 DEF Registered
<1>3. Len(registry) \in Nat
  OBVIOUS
<1>4. CASE EvaluateAll
  BY <1>1, <1>2, <1>3, <1>4 DEF EvaluateAll, Remembered
<1>5. CASE Return \/ Interrupt
  BY <1>1, <1>2, <1>5 DEF Return, Interrupt, Remembered
<1>6. CASE \E x \in Name : EvaluateOne(x)
  <2>1. PICK x \in Registered : Evaluate(x)
    BY <1>6 DEF EvaluateOne
  <2>2. /\ recommended' \subseteq Registered' /\ announced' \in [Name -> Nat]
        /\ Remembered'
    BY <1>1, <2>1, EvaluateIInv
  <2>3. UNCHANGED <<walk, size, left>>
    BY <1>6 DEF EvaluateOne
  <2> QED  BY <1>1, <1>2, <2>2, <2>3
<1>7. CASE Walk
  <2>1. CASE Len(registry) # size \/ walk = {} \/ left = 0
    BY <1>1, <1>2, <1>7, <2>1 DEF Walk, Remembered
  <2>2. CASE ~(Len(registry) # size \/ walk = {} \/ left = 0)
    <3>1. PICK n \in DOMAIN registry :
            /\ Evaluate(registry[n])
            /\ walk' = walk \ {registry[n]} /\ left' = left - 1 /\ UNCHANGED size
      BY <1>7, <2>2 DEF Walk
    <3>2. registry[n] \in Registered
      BY DEF Registered
    <3>3. /\ recommended' \subseteq Registered' /\ announced' \in [Name -> Nat]
          /\ Remembered'
      BY <1>1, <3>1, <3>2, EvaluateIInv
    <3>4. walk' \subseteq Registered' /\ size' \in Nat /\ left' \in 0..size'
      BY <1>2, <2>2, <3>1
    <3> QED  BY <1>1, <3>3, <3>4
  <2> QED  BY <2>1, <2>2
<1> QED  BY <1>4, <1>5, <1>6, <1>7

LEMMA NextIInv == TrialsInv /\ [Next]_vars => TrialsInv'
<1> SUFFICES ASSUME TrialsInv, [Next]_vars PROVE TrialsInv'  OBVIOUS
<1>1. CASE UNCHANGED vars
  <2>1. Registered' = Registered
    BY <1>1 DEF vars, harness, Registered
  <2> QED  BY <1>1, <2>1 DEF vars, harness, tournament, TrialsInv, TypeOK, Remembered
<1> QED  BY <1>1, RegistryIInv, ObserveIInv, ShowIInv, EvaluateAllIInv DEF Next

\* Every reachable state satisfies the inductive invariant.
THEOREM TrialsInductive == Spec => []TrialsInv
<1>1. Init => TrialsInv  BY InitIInv
<1>2. TrialsInv /\ [Next]_vars => TrialsInv'  BY NextIInv
<1> QED  BY <1>1, <1>2, PTL DEF Spec

\* The harness never walks, remembers or observes a name that is not
\* registered, whatever a promotion callback does to the registry.
THEOREM TrialsTypeCorrect == Spec => []TypeOK
<1>1. TrialsInv => TypeOK  BY DEF TrialsInv
<1> QED  BY <1>1, TrialsInductive, PTL

\* A promotion is announced once per registration.
THEOREM AnnouncedAtMostOnce == Spec => []AnnouncedOnce
<1>1. TrialsInv => AnnouncedOnce  BY DEF TrialsInv, Remembered, AnnouncedOnce
<1> QED  BY <1>1, TrialsInductive, PTL

-----------------------------------------------------------------------------
\* Counting the inputs where two are right: one has more in all exactly when
\* it has more of those where the other is wrong.
LEMMA PairedCount ==
    ASSUME NEW D, IsFiniteSet(D), NEW F \in SUBSET D, NEW G \in SUBSET D
    PROVE  /\ Cardinality(F \ G) \in Nat /\ Cardinality(G \ F) \in Nat
           /\ Cardinality(F) > Cardinality(G) <=> Cardinality(F \ G) > Cardinality(G \ F)
<1>1. IsFiniteSet(F) /\ IsFiniteSet(G) /\ IsFiniteSet(F \cap G)
  BY FS_Subset
<1>2. Cardinality(F \ G) = Cardinality(F) - Cardinality(F \cap G)
  BY <1>1, FS_Difference
<1>3. Cardinality(G \ F) = Cardinality(G) - Cardinality(G \cap F)
  BY <1>1, FS_Difference
<1>4. F \cap G = G \cap F
  OBVIOUS
<1>5. Cardinality(F) \in Nat /\ Cardinality(G) \in Nat /\ Cardinality(F \cap G) \in Nat
  BY <1>1, FS_CardinalityType
<1>6. IsFiniteSet(F \ G) /\ IsFiniteSet(G \ F)
  BY FS_Subset
<1>7. Cardinality(F \ G) \in Nat /\ Cardinality(G \ F) \in Nat
  BY <1>6, FS_CardinalityType
<1> QED  BY <1>2, <1>3, <1>4, <1>5, <1>7

\* Whoever is recommended won more inputs from production than it lost.
THEOREM NeverWorse == Spec => []NeverPromotesWorse
<1>1. ASSUME TypeOK, NEW x \in Registered, Recommends(x) PROVE Wins(x) > Losses(x)
  <2> DEFINE D == DOMAIN obs[x]
             F == {n \in D : obs[x][n].cand}
             G == {n \in D : obs[x][n].prod}
  <2>1. x \in Name
    BY <1>1, RegisteredIs DEF TypeOK, ImageOf
  <2>2. IsFiniteSet(D)
    <3>1. D = 1..Len(obs[x]) /\ Len(obs[x]) \in Nat
      BY <1>1, <2>1 DEF TypeOK
    <3>2. IsFiniteSet(1..Len(obs[x]))
      BY <3>1, FS_Interval
    <3> QED  BY <3>1, <3>2
  <2>3. RightOnes(x) = Cardinality(F) /\ ProdRight(x) = Cardinality(G)
    BY DEF RightOnes, ProdRight, Times
  <2>4. /\ F \ G = {n \in D : obs[x][n].cand /\ ~obs[x][n].prod}
        /\ G \ F = {n \in D : obs[x][n].prod /\ ~obs[x][n].cand}
    OBVIOUS
  <2>5. Wins(x) = Cardinality(F \ G) /\ Losses(x) = Cardinality(G \ F)
    BY <2>4 DEF Wins, Losses, Times
  <2>6. Cardinality(F) > Cardinality(G)
    BY <1>1, <2>3 DEF Recommends
  <2> HIDE DEF D, F, G
  <2>7. F \in SUBSET D /\ G \in SUBSET D
    BY DEF F, G
  <2> QED  BY <2>2, <2>5, <2>6, <2>7, PairedCount
<1>2. TypeOK => NeverPromotesWorse
  BY <1>1 DEF NeverPromotesWorse
<1> QED  BY <1>2, TrialsTypeCorrect, PTL

-----------------------------------------------------------------------------
(***************************************************************************)
(* The tournament.                                                         *)
(***************************************************************************)
\* As long as no observation was interrupted, every entrant is marked once for
\* each input, right where its prediction was.
Marked ==
    /\ predictions \in Seq([Entrants -> Prediction])
    /\ interrupted \in BOOLEAN
    /\ ~interrupted =>
         \A e \in Entrants :
           /\ Len(marks[e]) = Len(predictions)
           /\ \A n \in 1..Len(predictions) : marks[e][n] <=> predictions[n][e] = "right"

LEMMA MarkedNext == TypeOK /\ Marked /\ [Next]_vars => Marked'
<1> SUFFICES ASSUME TypeOK, Marked, [Next]_vars PROVE Marked'  OBVIOUS
<1>1. CASE UNCHANGED tournament
  BY <1>1 DEF tournament, Marked
<1>2. CASE Show
  <2>1. PICK p \in [Entrants -> Prediction], k \in 1..Len(Entrant) :
          /\ marks' = [e \in Entrants |->
                         IF \E n \in 1..k : Entrant[n] = e
                         THEN Append(marks[e], p[e] = "right") ELSE marks[e]]
          /\ IF k = Len(Entrant)
             THEN predictions' = Append(predictions, p) /\ UNCHANGED interrupted
             ELSE interrupted' = TRUE /\ UNCHANGED predictions
    BY <1>2 DEF Show
  <2>2. CASE k # Len(Entrant)
    BY <2>1, <2>2 DEF Marked
  <2>3. CASE k = Len(Entrant)
    <3>1. predictions' = Append(predictions, p) /\ interrupted' = interrupted
      BY <2>1, <2>3
    <3>2. predictions \in Seq([Entrants -> Prediction]) /\ Len(predictions) \in Nat
      BY DEF Marked
    <3>3. /\ predictions' \in Seq([Entrants -> Prediction])
          /\ Len(predictions') = Len(predictions) + 1
          /\ predictions'[Len(predictions) + 1] = p
          /\ \A n \in 1..Len(predictions) : predictions'[n] = predictions[n]
      BY <3>1, <3>2
    <3>4. ASSUME NEW e \in Entrants, ~interrupted
          PROVE  /\ Len(marks'[e]) = Len(predictions')
                 /\ \A n \in 1..Len(predictions') : marks'[e][n] <=> predictions'[n][e] = "right"
      <4> DEFINE right == p[e] = "right"
      <4>1. right \in BOOLEAN
        OBVIOUS
      <4>2. \E n \in 1..k : Entrant[n] = e
        BY <2>3, TrialsAssumption DEF Entrants, TrialsAssumption
      <4>3. marks'[e] = Append(marks[e], right)
        BY <2>1, <4>2
      <4>4. marks[e] \in Seq(BOOLEAN) /\ Len(marks[e]) = Len(predictions)
        BY <3>4 DEF TypeOK, Marked
      <4> HIDE DEF right
      <4>5. /\ Len(marks'[e]) = Len(predictions) + 1
            /\ marks'[e][Len(predictions) + 1] = right
            /\ \A n \in 1..Len(predictions) : marks'[e][n] = marks[e][n]
        BY <4>1, <4>3, <4>4
      <4>6. \A n \in 1..Len(predictions) : marks[e][n] <=> predictions[n][e] = "right"
        BY <3>4 DEF Marked
      <4>7. ASSUME NEW n \in 1..Len(predictions') PROVE marks'[e][n] <=> predictions'[n][e] = "right"
        <5>1. CASE n = Len(predictions) + 1
          <6>1. marks'[e][n] = right /\ predictions'[n] = p
            BY <3>3, <4>5, <5>1
          <6> QED  BY <6>1, Zenon DEF right
        <5>2. CASE n \in 1..Len(predictions)
          <6>1. marks'[e][n] = marks[e][n] /\ predictions'[n] = predictions[n]
            BY <3>3, <4>5, <5>2
          <6>2. marks[e][n] <=> predictions[n][e] = "right"
            BY <4>6, <5>2
          <6> QED  BY <6>1, <6>2, Zenon
        <5> QED  BY <3>2, <3>3, <5>1, <5>2
      <4> QED  BY <3>3, <4>5, <4>7
    <3> QED  BY <3>1, <3>3, <3>4 DEF Marked
  <2> QED  BY <2>2, <2>3
<1>3. Show \/ UNCHANGED tournament
  BY DEF Next, Register, Unregister, EvaluateOne, Observe, Return, Interrupt, EvaluateAll, Walk,
         vars
<1> QED  BY <1>1, <1>2, <1>3

\* The count of an entrant's marks.
LEMMA MarksCount ==
    ASSUME TypeOK, NEW e \in Entrants
    PROVE  /\ RightMarks(e) \in Nat
           /\ Marked /\ ~interrupted =>
                RightMarks(e) = Cardinality({n \in DOMAIN predictions : predictions[n][e] = "right"})
<1> DEFINE M == {n \in DOMAIN marks[e] : marks[e][n]}
<1>1. marks[e] \in Seq(BOOLEAN)
  BY DEF TypeOK
<1>2. DOMAIN marks[e] = 1..Len(marks[e]) /\ Len(marks[e]) \in Nat
  BY <1>1
<1>3. RightMarks(e) = Cardinality(M)
  BY DEF RightMarks, Times
<1>4. Cardinality(M) \in Nat
  <2>1. IsFiniteSet(DOMAIN marks[e])
    <3>1. 1 \in Int /\ Len(marks[e]) \in Int
      BY <1>2
    <3>2. IsFiniteSet(1..Len(marks[e]))
      BY <3>1, FS_Interval, Zenon
    <3> QED  BY <1>2, <3>2, Zenon
  <2>2. IsFiniteSet(M)
    BY <2>1, FS_Subset
  <2> QED  BY <2>2, FS_CardinalityType
<1>5. ASSUME Marked, ~interrupted
      PROVE  M = {n \in DOMAIN predictions : predictions[n][e] = "right"}
  <2>1. DOMAIN predictions = DOMAIN marks[e] /\ DOMAIN predictions = 1..Len(predictions)
    BY <1>2, <1>5 DEF Marked
  <2>2. \A n \in DOMAIN predictions : marks[e][n] <=> predictions[n][e] = "right"
    BY <1>5, <2>1 DEF Marked
  <2> QED  BY <2>1, <2>2, Zenon
<1> QED  BY <1>3, <1>4, <1>5

\* The tournament has one winner at most, and one that won by beating the others
\* was truly right more often than each of them.
THEOREM TournamentWinner == Spec => []WinnerIsBest
<1>1. ASSUME Init PROVE Marked
  <2>1. predictions = <<>> /\ Len(predictions) = 0 /\ interrupted = FALSE
    BY <1>1 DEF Init
  <2>2. \A e \in Entrants : Len(marks[e]) = 0
    BY <1>1 DEF Init
  <2>3. <<>> \in Seq([Entrants -> Prediction]) /\ 1..0 = {}
    OBVIOUS
  <2>4. /\ predictions \in Seq([Entrants -> Prediction])
        /\ 1..Len(predictions) = {} /\ interrupted \in BOOLEAN
    BY <2>1, <2>3, Zenon
  <2>5. \A e \in Entrants : Len(marks[e]) = Len(predictions)
    BY <2>1, <2>2, Zenon
  <2>6. \A e \in Entrants : \A n \in 1..Len(predictions) :
          marks[e][n] <=> predictions[n][e] = "right"
    BY <2>4, Zenon
  <2> QED  BY <2>4, <2>5, <2>6, Zenon DEF Marked
<1>2. ASSUME TypeOK, Marked PROVE WinnerIsBest
  <2>1. ASSUME NEW e \in Winners, NEW f \in Winners PROVE e = f
    <3>1. CASE Unanimous
      BY <2>1, <3>1 DEF Winners
    <3>2. CASE ~Unanimous
      <4>1. e \in Entrants /\ f \in Entrants /\ Sweeps(e) /\ Sweeps(f)
        BY <2>1, <3>2 DEF Winners
      <4>2. RightMarks(e) \in Nat /\ RightMarks(f) \in Nat
        BY <1>2, <4>1, MarksCount
      <4>3. e # f => RightMarks(e) > RightMarks(f) /\ RightMarks(f) > RightMarks(e)
        BY <4>1 DEF Sweeps, Beats
      <4> QED  BY <4>2, <4>3
    <3> QED  BY <3>1, <3>2
  <2>2. Cardinality(Winners) <= 1
    <3>1. CASE Winners = {}
      BY <3>1, FS_EmptySet
    <3>2. CASE Winners # {}
      <4>1. PICK e \in Winners : Winners = {e}
        BY <2>1, <3>2
      <4>2. Cardinality({e}) = 1
        BY FS_Singleton
      <4> QED  BY <4>1, <4>2
    <3> QED  BY <3>1, <3>2
  <2>3. ASSUME ~interrupted, ~Unanimous, NEW e \in Winners, NEW f \in Entrants \ {e}
        PROVE  Times(predictions, LAMBDA p : p[e] = "right")
                 > Times(predictions, LAMBDA p : p[f] = "right")
    <3>1. e \in Entrants /\ RightMarks(e) > RightMarks(f)
      BY <2>3 DEF Winners, Sweeps, Beats
    <3>2. /\ RightMarks(e) = Cardinality({n \in DOMAIN predictions : predictions[n][e] = "right"})
          /\ RightMarks(f) = Cardinality({n \in DOMAIN predictions : predictions[n][f] = "right"})
      BY <1>2, <2>3, <3>1, MarksCount
    <3> QED  BY <3>1, <3>2 DEF Times
  <2> QED  BY <2>2, <2>3 DEF WinnerIsBest
<1> QED  BY <1>1, <1>2, MarkedNext, TrialsTypeCorrect, PTL DEF Spec

-----------------------------------------------------------------------------
(***************************************************************************)
(* Greatest and least elements.                                            *)
(***************************************************************************)
\* A nonempty set of naturals with a bound has a greatest element.
LEMMA GreatestExists ==
    ASSUME NEW n \in Nat, NEW S \in SUBSET (0..n), S # {}
    PROVE  \E x \in S : \A y \in S : x >= y
<1> DEFINE T == {b \in Nat : \A y \in S : b >= y}
<1>1. T \subseteq Nat /\ n \in T
  OBVIOUS
<1> HIDE DEF T
<1>2. PICK b \in T : \A c \in T : ~ (<<c, b>> \in OpToRel(<, Nat))
  <2>1. T # {}
    BY <1>1
  <2> QED  BY <1>1, <2>1, NatLessThanWellFounded, WFMin, Zenon
<1>3. b \in Nat /\ \A y \in S : b >= y
  BY <1>2 DEF T
<1>4. ASSUME b \notin S
      PROVE  FALSE
  <2>1. \A y \in S : b - 1 >= y
    BY <1>3, <1>4
  <2>2. b - 1 \in Nat
    <3>1. PICK y \in S : TRUE
      OBVIOUS
    <3>2. y \in Nat /\ b - 1 >= y
      BY <2>1, <3>1
    <3> QED  BY <1>3, <3>2
  <2>3. b - 1 \in T
    BY <2>1, <2>2 DEF T
  <2>4. <<b - 1, b>> \in OpToRel(<, Nat)
    BY <1>3, <2>2 DEF OpToRel
  <2> QED  BY <1>2, <2>3, <2>4
<1> QED  BY <1>3, <1>4

\* A nonempty set of naturals has a least element.
LEMMA LeastExists ==
    ASSUME NEW S \in SUBSET Nat, S # {}
    PROVE  \E x \in S : \A y \in S : x <= y
<1>1. PICK x \in S : \A y \in S : ~ (<<y, x>> \in OpToRel(<, Nat))
  BY NatLessThanWellFounded, WFMin, Zenon
<1>2. \A y \in S : <<y, x>> \in Nat \X Nat /\ (y < x => <<y, x>> \in OpToRel(<, Nat))
  BY DEF OpToRel
<1>3. \A y \in S : ~(y < x) /\ y \in Nat /\ x \in Nat
  <2>1. \A y \in S : ~(y < x)
    BY <1>1, <1>2, Zenon
  <2> QED  BY <2>1
<1>4. \A y \in S : x <= y
  BY <1>3
<1> QED  BY <1>4, Zenon

-----------------------------------------------------------------------------
(***************************************************************************)
(* The choice of a tier (TierPolicy).  A choice is final, so what made the *)
(* chosen tier the first of the noise band still does.                     *)
(***************************************************************************)
TierChoice ==
  chosen # "none" =>
    /\ chosen \in Tiers!InBand
    /\ \A u \in Tiers!InBand : ~Tiers!Before(u, chosen)
\* What ML scored is the last point of its curve.
LastPoint ==
  "ml" \in measured => Len(curve) > 0 /\ accuracy["ml"] = curve[Len(curve)]
TierInv == Tiers!TypeOK /\ TierChoice /\ LastPoint

LEMMA TierRanges ==
    ASSUME Tiers!TypeOK
    PROVE  /\ Best \in Nat /\ Epsilon \in Nat /\ band \in Nat
           /\ \A t \in Tiers!Tier : accuracy[t] \in Nat
  BY PartsAssumption DEF PartsAssumption, Tiers!TierAssumption, Tiers!TypeOK

\* Of some tiers, one scored the top.
LEMMA TopOfTiers ==
    ASSUME Tiers!TypeOK, NEW S \in SUBSET Tiers!Tier, S # {}
    PROVE  /\ \E t \in S : accuracy[t] = Tiers!Top(S)
           /\ \A t \in S : accuracy[t] <= Tiers!Top(S)
           /\ Tiers!Top(S) \in Nat
<1> DEFINE V == {accuracy[t] : t \in S}
<1>1. \A t \in S : accuracy[t] \in Nat
  BY TierRanges
<1>2. V \in SUBSET (0..Best) /\ V # {} /\ Best \in Nat
  BY TierRanges DEF Tiers!TypeOK
<1>3. \E x \in V : \A y \in V : x >= y
  <2> HIDE DEF V
  <2> QED  BY <1>2, GreatestExists
<1>4. Tiers!Top(S) \in V /\ \A y \in V : Tiers!Top(S) >= y
  <2> HIDE DEF V
  <2>1. Tiers!Max(V) \in V /\ \A y \in V : Tiers!Max(V) >= y
    BY <1>3 DEF Tiers!Max
  <2> QED  BY <2>1 DEF V, Tiers!Top
<1> QED  BY <1>1, <1>4

LEMMA TierInitInv == Tiers!Init => TierInv
<1> SUFFICES ASSUME Tiers!Init PROVE TierInv
  OBVIOUS
<1>1. Tiers!TypeOK
  BY PartsAssumption DEF PartsAssumption, Tiers!TierAssumption, Tiers!Init, Tiers!TypeOK
<1> QED  BY <1>1 DEF Tiers!Init, TierInv, TierChoice, LastPoint

\* A tier gets its score, before the choice is made.
LEMMA TierScores ==
    ASSUME Tiers!TypeOK, NEW t \in Tiers!Tier, NEW a \in 0..Best, Tiers!Scores(t, a)
    PROVE  /\ measured' = measured \cup {t} /\ measured' \subseteq Tiers!Tier
           /\ allowed' \subseteq measured'
           /\ accuracy' \in [Tiers!Tier -> 0..Best]
           /\ accuracy'[t] = a /\ \A u \in Tiers!Tier \ {t} : accuracy'[u] = accuracy[u]
  BY DEF Tiers!TypeOK, Tiers!Scores

LEMMA TierNextInv == TierInv /\ [Tiers!Next]_(Tiers!vars) => TierInv'
<1> SUFFICES ASSUME TierInv, [Tiers!Next]_(Tiers!vars) PROVE TierInv'
  OBVIOUS
<1>1. Tiers!TypeOK
  BY DEF TierInv
<1>2. CASE Tiers!Measure
  <2>1. PICK t \in Tiers!Tier \ (measured \cup {"ml"}), a \in 0..Best : Tiers!Scores(t, a)
    BY <1>2 DEF Tiers!Measure
  <2>2. /\ measured' = measured \cup {t} /\ measured' \subseteq Tiers!Tier
        /\ allowed' \subseteq measured' /\ accuracy' \in [Tiers!Tier -> 0..Best]
        /\ \A u \in Tiers!Tier \ {t} : accuracy'[u] = accuracy[u]
    BY <1>1, <2>1, TierScores
  <2>3. Tiers!TypeOK'
    BY <1>1, <1>2, <2>2 DEF Tiers!Measure, Tiers!TypeOK
  <2>4. LastPoint'
    BY <1>2, <2>2 DEF TierInv, LastPoint, Tiers!Measure, Tiers!Tier
  <2> QED  BY <1>2, <2>3, <2>4 DEF Tiers!Measure, TierInv, TierChoice
<1>3. CASE Tiers!Train
  <2>1. PICK a \in 0..Best : Tiers!Scores("ml", a) /\ curve' = Append(curve, a)
    BY <1>3 DEF Tiers!Train
  <2>2. "ml" \in Tiers!Tier
    BY DEF Tiers!Tier
  <2>3. /\ measured' = measured \cup {"ml"} /\ measured' \subseteq Tiers!Tier
        /\ allowed' \subseteq measured' /\ accuracy' \in [Tiers!Tier -> 0..Best]
        /\ accuracy'["ml"] = a
    BY <1>1, <2>1, <2>2, TierScores
  <2>4. curve' \in Seq(0..Best) /\ Len(curve') > 0 /\ curve'[Len(curve')] = a
    BY <1>1, <2>1 DEF Tiers!TypeOK
  <2>5. Tiers!TypeOK'
    BY <1>1, <1>3, <2>3, <2>4 DEF Tiers!Train, Tiers!TypeOK
  <2>6. LastPoint'
    BY <2>3, <2>4 DEF LastPoint
  <2> QED  BY <1>3, <2>5, <2>6 DEF Tiers!Train, TierInv, TierChoice
<1>4. CASE Tiers!Decide
  <2>1. PICK t \in Tiers!InBand : (\A u \in Tiers!InBand : ~Tiers!Before(u, t)) /\ chosen' = t
    BY <1>4 DEF Tiers!Decide
  <2>2. UNCHANGED <<measured, accuracy, allowed, band, curve>>
    BY <1>4 DEF Tiers!Decide
  <2>3. t \in Tiers!Tier
    BY <1>1, <2>1 DEF Tiers!InBand, Tiers!Candidates, Tiers!TypeOK
  <2>4. Tiers!TypeOK'
    BY <1>1, <2>1, <2>2, <2>3 DEF Tiers!TypeOK
  <2>5. TierChoice'
    BY <2>1, <2>2 DEF TierChoice, Tiers!InBand, Tiers!Candidates, Tiers!Top, Tiers!Before
  <2> QED  BY <2>2, <2>4, <2>5 DEF TierInv, LastPoint
<1>5. CASE UNCHANGED Tiers!vars
  <2>1. UNCHANGED <<measured, accuracy, allowed, band, curve, chosen>>
    BY <1>5 DEF Tiers!vars
  <2> QED  BY <2>1 DEF TierInv, Tiers!TypeOK, TierChoice, LastPoint, Tiers!InBand,
                       Tiers!Candidates, Tiers!Top, Tiers!Before
<1> QED  BY <1>2, <1>3, <1>4, <1>5 DEF Tiers!Next

\* The chosen tier meets the constraints where any tier does, and is within
\* noise of the best that do.
LEMMA TierChosen ==
    ASSUME TierInv, chosen # "none", NEW t \in allowed
    PROVE  /\ chosen \in allowed /\ allowed \subseteq Tiers!Tier
           /\ Tiers!Candidates = allowed
           /\ accuracy[chosen] + band >= Tiers!Top(allowed)
           /\ accuracy[t] <= Tiers!Top(allowed) /\ Tiers!Top(allowed) \in Nat
<1>1. Tiers!TypeOK /\ chosen \in Tiers!InBand
  BY DEF TierInv, TierChoice
<1>2. Tiers!Candidates = allowed /\ allowed \subseteq Tiers!Tier
  BY <1>1 DEF Tiers!Candidates, Tiers!TypeOK
<1>3. chosen \in allowed /\ accuracy[chosen] + band >= Tiers!Top(allowed)
  BY <1>1, <1>2 DEF Tiers!InBand
<1> QED  BY <1>1, <1>2, <1>3, TopOfTiers

\* A dearer tier has earned its cost.
LEMMA TierCost == TierInv => Tiers!CostIsEarned
<1> SUFFICES ASSUME TierInv, NEW t \in allowed, chosen # "none",
                    Tiers!Rank(t) < Tiers!Rank(chosen)
             PROVE  /\ chosen \in allowed /\ accuracy[chosen] > accuracy[t]
                    /\ chosen \in Tiers!Models => accuracy[chosen] > accuracy[t] + band
  BY DEF Tiers!CostIsEarned
<1>1. Tiers!TypeOK /\ \A u \in Tiers!InBand : ~Tiers!Before(u, chosen)
  BY DEF TierInv, TierChoice
<1> DEFINE top == Tiers!Top(allowed)
<1>2. /\ chosen \in allowed /\ allowed \subseteq Tiers!Tier /\ Tiers!Candidates = allowed
      /\ accuracy[chosen] + band >= top /\ accuracy[t] <= top /\ top \in Nat
  BY TierChosen
<1>3. band \in Nat /\ \A u \in Tiers!Tier : accuracy[u] \in Nat
  BY <1>1, TierRanges
<1>4. t \notin Tiers!InBand
  BY <1>1 DEF Tiers!Before
<1>5. ~(accuracy[t] + band >= top)
  BY <1>2, <1>4 DEF Tiers!InBand
<1> HIDE DEF top
<1>6. accuracy[chosen] \in Nat /\ accuracy[t] \in Nat
  BY <1>2, <1>3
<1>7. accuracy[chosen] > accuracy[t]
  BY <1>2, <1>3, <1>5, <1>6
<1>8. ASSUME chosen \in Tiers!Models
      PROVE  accuracy[chosen] > accuracy[t] + band
  <2>1. PICK u \in allowed : accuracy[u] = top
    BY <1>1, <1>2, TopOfTiers DEF top
  <2>2. u \in Tiers!InBand
    BY <1>2, <1>3, <2>1 DEF Tiers!InBand, top
  <2>3. ~Tiers!Before(u, chosen)
    BY <1>1, <2>2
  <2>4. Tiers!Rank(u) \in {0, 1, 2} /\ Tiers!Rank(chosen) = 2
    BY <1>2, <1>8, <2>1 DEF Tiers!Rank, Tiers!Tier, Tiers!Models
  <2>5. Tiers!Rank(u) = Tiers!Rank(chosen) /\ ~(accuracy[u] > accuracy[chosen])
    BY <2>3, <2>4 DEF Tiers!Before
  <2> QED  BY <1>2, <1>3, <1>5, <1>6, <2>1, <2>5
<1> QED  BY <1>2, <1>7, <1>8

\* Choice and crossover agree.
LEMMA TierCrossover == TierInv => Tiers!NoCrossoverNoML
<1> SUFFICES ASSUME TierInv, NEW m \in Tiers!Models \cap allowed, band = Epsilon,
                    chosen = "ml", Tiers!Crossovers(accuracy[m]) = {}
             PROVE  FALSE
  BY DEF Tiers!NoCrossoverNoML
<1>1. Tiers!TypeOK /\ LastPoint
  BY DEF TierInv
<1>2. /\ "ml" \in allowed /\ accuracy["ml"] + band >= Tiers!Top(allowed)
      /\ accuracy[m] <= Tiers!Top(allowed) /\ Tiers!Top(allowed) \in Nat
      /\ allowed \subseteq Tiers!Tier
  BY TierChosen
<1>3. accuracy[m] \in Nat /\ accuracy["ml"] \in Nat /\ band \in Nat
  BY <1>1, <1>2, TierRanges
<1>4. Len(curve) \in DOMAIN curve /\ accuracy["ml"] = curve[Len(curve)]
  BY <1>1, <1>2 DEF LastPoint, Tiers!TypeOK
<1>5. accuracy["ml"] + Epsilon >= accuracy[m]
  BY <1>2, <1>3
<1>6. Len(curve) \in Tiers!Crossovers(accuracy[m])
  BY <1>4, <1>5 DEF Tiers!Crossovers
<1> QED  BY <1>6

\* A dearer tier has earned its cost, and the terminal choice agrees with the
\* crossover (aga.py 110-173).
THEOREM TierIsWorthIt == Tiers!Spec => [](Tiers!TypeOK /\ Tiers!CostIsEarned /\ Tiers!NoCrossoverNoML)
<1>1. TierInv => Tiers!TypeOK /\ Tiers!CostIsEarned /\ Tiers!NoCrossoverNoML
  BY TierCost, TierCrossover DEF TierInv
<1> QED  BY <1>1, TierInitInv, TierNextInv, PTL DEF Tiers!Spec

-----------------------------------------------------------------------------
(***************************************************************************)
(* Escalation.  Until the deployment recalibrates, the threshold is the    *)
(* one the held-out examples give, and a gate says whether it is one.      *)
(***************************************************************************)
Answer == [conf : Hybrid!Confidence, source : {"local", "local_fallback", "escalated"}]
HybridTyped ==
  /\ Hybrid!TypeOK /\ served \in Seq(Answer)
Threshold ==
  /\ tau # Hybrid!NoTau => examples # <<>> /\ tau = Hybrid!Calibrated
  /\ gate = "built" => tau \in 0..(2 * Full)
  /\ gate = "refused" => tau # Hybrid!NoTau /\ tau \notin 0..(2 * Full)
HybridInv == HybridTyped /\ Threshold

LEMMA HybridRanges ==
    ASSUME HybridTyped
    PROVE  /\ Full \in Nat \ {0} /\ MaxExamples \in Nat \ {0} /\ tau \in Int
           /\ examples \in Seq(Hybrid!Example) /\ Len(examples) \in Nat
           /\ Hybrid!Confidence \subseteq 0..(2 * Full)
           /\ Hybrid!Confidences \subseteq 0..(2 * Full)
           /\ \A i \in DOMAIN examples : examples[i].conf \in 0..(2 * Full)
<1>1. Full \in Nat \ {0} /\ MaxExamples \in Nat \ {0}
  BY PartsAssumption DEF PartsAssumption, Hybrid!EscalationAssumption
<1>2. examples \in Seq(Hybrid!Example) /\ Len(examples) \in Nat
  <2>1. examples \in UNION {[1..m -> Hybrid!Example] : m \in 0..MaxExamples}
    BY Zenon DEF HybridTyped, Hybrid!TypeOK, Hybrid!BoundedSeq, Hybrid!SeqOf
  <2>2. PICK m \in 0..MaxExamples : examples \in [1..m -> Hybrid!Example]
    BY <2>1, Zenon
  <2>3. m \in Nat
    BY <1>1, <2>2
  <2> QED  BY <2>2, <2>3
<1>3. Hybrid!Confidence \subseteq 0..(2 * Full)
  BY <1>1 DEF Hybrid!Confidence
<1>4. \A i \in DOMAIN examples : examples[i].conf \in 0..(2 * Full)
  <2>1. \A i \in DOMAIN examples : examples[i] \in Hybrid!Example
    BY <1>2
  <2>2. \A e \in Hybrid!Example : e.conf \in Hybrid!Confidence
    BY DEF Hybrid!Example
  <2> QED  BY <1>3, <2>1, <2>2
<1>5. tau \in Int
  BY <1>1 DEF HybridTyped, Hybrid!TypeOK
<1> QED  BY <1>1, <1>2, <1>3, <1>4, <1>5 DEF Hybrid!Confidences

LEMMA HybridSets ==
    ASSUME NEW S \in SUBSET (0..(2 * Full)), S # {}, Full \in Nat
    PROVE  /\ Hybrid!Least(S) \in S /\ \A r \in S : Hybrid!Least(S) <= r
           /\ Hybrid!Greatest(S) \in S /\ \A r \in S : r <= Hybrid!Greatest(S)
<1>1. \E x \in S : \A y \in S : x <= y
  BY LeastExists
<1>2. \E x \in S : \A y \in S : y <= x
  <2>1. PICK x \in S : \A y \in S : x >= y
    <3>1. 2 * Full \in Nat
      OBVIOUS
    <3> QED  BY <3>1, GreatestExists
  <2> QED  BY <2>1
<1> QED  BY <1>1, <1>2, Zenon DEF Hybrid!Least, Hybrid!Greatest

\* The observed confidences that would do.
Good == {t \in Hybrid!Confidences : Hybrid!Meets(Hybrid!Kept(t))}

\* The threshold is the least confidence that will do, or above all of them.
LEMMA CalibratedIs ==
    ASSUME HybridTyped, examples # <<>>
    PROVE  /\ Hybrid!Calibrated \in 0..(2 * Full + 1)
           /\ Good # {} => Hybrid!Calibrated \in Good /\ \A r \in Good : Hybrid!Calibrated <= r
           /\ Good = {} => /\ Hybrid!Calibrated - 1 \in Hybrid!Confidences
                           /\ \A r \in Hybrid!Confidences : r < Hybrid!Calibrated
<1>1. Full \in Nat /\ Hybrid!Confidences \in SUBSET (0..(2 * Full))
  BY HybridRanges
<1>2. Hybrid!Confidences # {}
  <2>1. 1 \in DOMAIN examples
    BY HybridRanges
  <2> QED  BY <2>1, Zenon DEF Hybrid!Confidences
<1>3. Good \in SUBSET (0..(2 * Full))
  BY <1>1 DEF Good
<1>4. Hybrid!Calibrated = IF Good # {} THEN Hybrid!Least(Good)
                          ELSE Hybrid!Greatest(Hybrid!Confidences) + 1
  BY Zenon DEF Hybrid!Calibrated, Good
<1>5. CASE Good # {}
  <2>1. Hybrid!Least(Good) \in Good /\ \A r \in Good : Hybrid!Least(Good) <= r
    BY <1>1, <1>3, <1>5, HybridSets
  <2>2. Hybrid!Calibrated = Hybrid!Least(Good)
    BY <1>4, <1>5, Zenon
  <2>3. Hybrid!Least(Good) \in 0..(2 * Full + 1)
    <3>1. Hybrid!Least(Good) \in 0..(2 * Full)
      BY <1>3, <2>1, Zenon
    <3>2. 0..(2 * Full) \subseteq 0..(2 * Full + 1)
      BY <1>1
    <3> QED  BY <3>1, <3>2, Zenon
  <2> QED  BY <1>5, <2>1, <2>2, <2>3, Zenon
<1>6. CASE Good = {}
  <2>1. /\ Hybrid!Greatest(Hybrid!Confidences) \in Hybrid!Confidences
        /\ \A r \in Hybrid!Confidences : r <= Hybrid!Greatest(Hybrid!Confidences)
    BY <1>1, <1>2, HybridSets
  <2>2. Hybrid!Calibrated = Hybrid!Greatest(Hybrid!Confidences) + 1
    BY <1>4, <1>6, Zenon
  <2>3. Hybrid!Greatest(Hybrid!Confidences) \in 0..(2 * Full)
        /\ \A r \in Hybrid!Confidences : r \in 0..(2 * Full)
    BY <1>1, <2>1
  <2> HIDE DEF Hybrid!Greatest
  <2>4. Hybrid!Calibrated \in 0..(2 * Full + 1)
        /\ Hybrid!Calibrated - 1 = Hybrid!Greatest(Hybrid!Confidences)
    BY <1>1, <2>2, <2>3
  <2>5. \A r \in Hybrid!Confidences : r < Hybrid!Calibrated
    BY <1>1, <2>1, <2>2, <2>3
  <2> QED  BY <1>6, <2>1, <2>4, <2>5
<1> QED  BY <1>5, <1>6

\* A threshold that will do keeps what an observed one keeps.
LEMMA ObservedWillDo ==
    ASSUME HybridTyped, NEW t \in 0..(2 * Full), Hybrid!Meets(Hybrid!Kept(t))
    PROVE  \E c \in Good : Hybrid!Kept(c) = Hybrid!Kept(t)
<1> DEFINE C == {examples[i].conf : i \in Hybrid!Kept(t)}
<1>1. Full \in Nat /\ \A i \in DOMAIN examples : examples[i].conf \in 0..(2 * Full)
  BY HybridRanges
<1>2. Hybrid!Kept(t) \subseteq DOMAIN examples /\ Hybrid!Kept(t) # {}
  BY DEF Hybrid!Kept, Hybrid!Meets
<1>3. C \in SUBSET (0..(2 * Full)) /\ C # {}
  BY <1>1, <1>2
<1>4. PICK c \in C : \A d \in C : c <= d
  <2> HIDE DEF C
  <2>1. C \in SUBSET Nat
    BY <1>1, <1>3
  <2> QED  BY <1>3, <2>1, LeastExists
<1>5. c \in Hybrid!Confidences /\ c >= t /\ c \in 0..(2 * Full)
  BY <1>1, <1>2, <1>4 DEF Hybrid!Kept, Hybrid!Confidences
<1>6. \A i \in DOMAIN examples : examples[i].conf >= c <=> examples[i].conf >= t
  <2> SUFFICES ASSUME NEW i \in DOMAIN examples
               PROVE  examples[i].conf >= c <=> examples[i].conf >= t
    OBVIOUS
  <2>1. examples[i].conf >= t => c <= examples[i].conf
    BY <1>4 DEF Hybrid!Kept
  <2>2. examples[i].conf \in Int /\ c \in Int /\ t \in Int
    BY <1>1, <1>5
  <2> QED  BY <1>5, <2>1, <2>2
<1>7. Hybrid!Kept(c) = Hybrid!Kept(t)
  BY <1>6 DEF Hybrid!Kept
<1> QED  BY <1>5, <1>7 DEF Good

\* A sequence that is short enough.
LEMMA BoundedSequence ==
    ASSUME NEW m \in 0..MaxExamples, NEW s \in [1..m -> Hybrid!Example]
    PROVE  s \in Hybrid!BoundedSeq(Hybrid!Example, MaxExamples)
  BY Zenon DEF Hybrid!BoundedSeq, Hybrid!SeqOf

LEMMA HybridInitInv == Hybrid!Init => HybridInv
<1> SUFFICES ASSUME Hybrid!Init PROVE HybridInv
  OBVIOUS
<1>1. Full \in Nat /\ MaxExamples \in Nat
  BY PartsAssumption DEF PartsAssumption, Hybrid!EscalationAssumption
<1>2. examples \in [1..0 -> Hybrid!Example] /\ 0 \in 0..MaxExamples
  BY <1>1 DEF Hybrid!Init
<1>3. examples \in Hybrid!BoundedSeq(Hybrid!Example, MaxExamples)
  BY <1>2, BoundedSequence
<1>4. tau \in -1..(2 * Full + 1)
  BY <1>1 DEF Hybrid!Init, Hybrid!NoTau
<1>5. served = <<>> /\ DOMAIN served = {} /\ hinted = {}
  BY DEF Hybrid!Init
<1> QED  BY <1>3, <1>4, <1>5 DEF Hybrid!Init, Hybrid!TypeOK, HybridInv, HybridTyped, Threshold

\* Held-out data of one example more is still held-out data.
LEMMA OneMoreExample ==
    ASSUME HybridTyped, Len(examples) < MaxExamples, NEW e \in Hybrid!Example
    PROVE  Append(examples, e) \in Hybrid!BoundedSeq(Hybrid!Example, MaxExamples)
<1>1. examples \in Seq(Hybrid!Example) /\ Len(examples) \in Nat /\ MaxExamples \in Nat
  BY HybridRanges
<1>2. Append(examples, e) \in [1..(Len(examples) + 1) -> Hybrid!Example]
  <2>1. Append(examples, e) \in Seq(Hybrid!Example) /\ Len(Append(examples, e)) = Len(examples) + 1
    BY <1>1
  <2>2. \A s \in Seq(Hybrid!Example) : s \in [1..Len(s) -> Hybrid!Example]
    OBVIOUS
  <2> QED  BY <2>1, <2>2, Zenon
<1>3. Len(examples) + 1 \in 0..MaxExamples
  BY <1>1
<1> QED  BY <1>2, <1>3, BoundedSequence

LEMMA HybridNextInv == HybridInv /\ [Hybrid!Next]_(Hybrid!vars) => HybridInv'
<1> SUFFICES ASSUME HybridInv, [Hybrid!Next]_(Hybrid!vars) PROVE HybridInv'
  OBVIOUS
<1>0. HybridTyped /\ Threshold /\ Hybrid!TypeOK /\ served \in Seq(Answer)
  BY DEF HybridInv, HybridTyped
<1>1. Full \in Nat /\ MaxExamples \in Nat /\ tau \in Int
  BY <1>0, HybridRanges
<1>2. ASSUME UNCHANGED <<examples, floor, minKept>>
      PROVE  Hybrid!Calibrated' = Hybrid!Calibrated
  BY <1>2 DEF Hybrid!Calibrated, Hybrid!Confidences, Hybrid!Kept, Hybrid!Meets, Hybrid!Right
<1>3. CASE Hybrid!HoldOut
  <2>1. PICK e \in Hybrid!Example : examples' = Append(examples, e)
    BY <1>3 DEF Hybrid!HoldOut
  <2>2. examples' \in Hybrid!BoundedSeq(Hybrid!Example, MaxExamples)
    BY <1>0, <1>3, <2>1, OneMoreExample DEF Hybrid!HoldOut
  <2>3. Hybrid!TypeOK'
    BY <1>0, <1>3, <2>2 DEF Hybrid!HoldOut, Hybrid!TypeOK
  <2> QED  BY <1>0, <1>3, <2>3 DEF Hybrid!HoldOut, HybridInv, HybridTyped, Threshold
<1>4. CASE Hybrid!Calibrate
  <2>1. Hybrid!Calibrated \in 0..(2 * Full + 1)
    BY <1>0, <1>4, CalibratedIs DEF Hybrid!Calibrate
  <2>2. tau' = Hybrid!Calibrated /\ tau' \in -1..(2 * Full + 1)
    BY <1>1, <1>4, <2>1 DEF Hybrid!Calibrate
  <2>3. UNCHANGED <<examples, floor, minKept, gate, served, hinted>> /\ gate = "none" /\ examples # <<>>
    BY <1>4 DEF Hybrid!Calibrate
  <2>4. Hybrid!TypeOK'
    BY <1>0, <2>2, <2>3 DEF Hybrid!TypeOK
  <2>5. tau' = Hybrid!Calibrated'
    BY <1>2, <2>2, <2>3
  <2> QED  BY <1>0, <2>3, <2>4, <2>5 DEF HybridInv, HybridTyped, Threshold
<1>5. CASE Hybrid!Build
  <2>1. UNCHANGED <<examples, floor, minKept, tau, served, hinted>> /\ tau # Hybrid!NoTau
        /\ gate' = IF tau \in 0..(2 * Full) THEN "built" ELSE "refused"
    BY <1>5 DEF Hybrid!Build
  <2>2. Hybrid!TypeOK'
    BY <1>0, <2>1 DEF Hybrid!TypeOK
  <2>3. Threshold'
    BY <1>0, <1>2, <2>1 DEF Threshold
  <2> QED  BY <1>0, <2>1, <2>2, <2>3 DEF HybridInv, HybridTyped
<1>6. CASE Hybrid!Serve
  <2>1. PICK a \in Answer : served' = Append(served, a)
    <3>1. PICK conf \in Hybrid!Confidence, call \in {"unset", "answers", "raises"} :
            served' = Append(served, [conf |-> conf, source |-> Hybrid!Source(conf, call)])
      BY <1>6 DEF Hybrid!Serve
    <3>2. Hybrid!Source(conf, call) \in {"local", "local_fallback", "escalated"}
      BY DEF Hybrid!Source
    <3> QED  BY <3>1, <3>2 DEF Answer
  <2>2. served' \in Seq(Answer) /\ DOMAIN served' = DOMAIN served \cup {Len(served) + 1}
    BY <1>0, <2>1
  <2>3. hinted' \subseteq DOMAIN served \cup {Len(served) + 1}
    BY <1>0, <1>6 DEF Hybrid!Serve, Hybrid!TypeOK
  <2>4. UNCHANGED <<examples, floor, minKept, tau, gate>>
    BY <1>6 DEF Hybrid!Serve
  <2>5. Hybrid!TypeOK'
    <3>1. \A i \in DOMAIN served' : served'[i] \in Answer
      <4>1. \A s \in Seq(Answer) : \A i \in DOMAIN s : s[i] \in Answer
        OBVIOUS
      <4> QED  BY <2>2, <4>1, Zenon
    <3>2. hinted' \subseteq DOMAIN served'
      BY <2>2, <2>3
    <3> QED  BY <1>0, <2>4, <3>1, <3>2 DEF Hybrid!TypeOK, Answer
  <2>6. Threshold'
    BY <1>0, <1>2, <2>4 DEF Threshold
  <2> QED  BY <2>2, <2>5, <2>6 DEF HybridInv, HybridTyped
<1>7. CASE Hybrid!Recalibrate
  <2>1. /\ examples' = <<>> /\ tau' = Hybrid!NoTau /\ gate' = "none" /\ served' = <<>> /\ hinted' = {}
        /\ UNCHANGED <<floor, minKept>>
    BY <1>7 DEF Hybrid!Recalibrate
  <2>2. examples' \in [1..0 -> Hybrid!Example] /\ 0 \in 0..MaxExamples
    BY <1>1, <2>1
  <2>3. examples' \in Hybrid!BoundedSeq(Hybrid!Example, MaxExamples)
    BY <2>2, BoundedSequence
  <2>4. tau' \in -1..(2 * Full + 1)
    BY <1>1, <2>1 DEF Hybrid!NoTau
  <2>5. DOMAIN served' = {} /\ served' \in Seq(Answer)
    BY <2>1
  <2> QED  BY <1>0, <2>1, <2>3, <2>4, <2>5 DEF Hybrid!TypeOK, HybridInv, HybridTyped, Threshold
<1>8. CASE UNCHANGED Hybrid!vars
  <2>1. UNCHANGED <<examples, floor, minKept, tau, gate, served, hinted>>
    BY <1>8 DEF Hybrid!vars
  <2>2. Threshold'
    BY <1>0, <1>2, <2>1 DEF Threshold
  <2> QED  BY <1>0, <2>1, <2>2 DEF Hybrid!TypeOK, HybridInv, HybridTyped
<1> QED  BY <1>3, <1>4, <1>5, <1>6, <1>7, <1>8 DEF Hybrid!Next

\* What the gate leaves to the local head is what the threshold keeps.
LEMMA LocalIsKept ==
    ASSUME HybridInv
    PROVE  {i \in DOMAIN examples : ~Hybrid!Escalates(examples[i].conf)} = Hybrid!Kept(tau)
<1>1. tau \in Int /\ \A i \in DOMAIN examples : examples[i].conf \in Int
  BY HybridRanges DEF HybridInv
<1> QED  BY <1>1 DEF Hybrid!Escalates, Hybrid!Kept

LEMMA GateFloor == HybridInv => Hybrid!GateMeetsFloor
<1> SUFFICES ASSUME HybridInv, gate = "built", Hybrid!Kept(tau) # {}
             PROVE  Hybrid!Meets(Hybrid!Kept(tau))
  BY LocalIsKept, Zenon DEF Hybrid!GateMeetsFloor
<1>1. HybridTyped /\ Full \in Nat /\ \A i \in DOMAIN examples : examples[i].conf \in 0..(2 * Full)
  BY HybridRanges DEF HybridInv
<1>2. tau # Hybrid!NoTau /\ examples # <<>> /\ tau = Hybrid!Calibrated
  BY <1>1 DEF HybridInv, Threshold, Hybrid!NoTau
<1>3. Good # {} \/ \A r \in Hybrid!Confidences : r < tau
  BY <1>1, <1>2, CalibratedIs
<1>4. CASE Good # {}
  BY <1>1, <1>2, <1>4, CalibratedIs DEF Good
<1>5. CASE \A r \in Hybrid!Confidences : r < tau
  <2>1. PICK i \in DOMAIN examples : examples[i].conf >= tau
    BY DEF Hybrid!Kept
  <2>2. examples[i].conf < tau
    BY <1>5, <2>1 DEF Hybrid!Confidences
  <2> QED  BY <1>1, <2>1, <2>2 DEF HybridTyped, Hybrid!TypeOK
<1> QED  BY <1>3, <1>4, <1>5

\* The module counts as the library does.
LEMMA HybridCounts ==
    ASSUME NEW S
    PROVE  Hybrid!Cardinality(S) = Cardinality(S)
  BY Zenon DEF Hybrid!Cardinality, Cardinality

LEMMA GateCheapest == HybridInv => Hybrid!GateIsCheapest
<1> DEFINE kept(t) == {i \in DOMAIN examples : examples[i].conf >= t}
           local == {i \in DOMAIN examples : ~Hybrid!Escalates(examples[i].conf)}
<1> SUFFICES ASSUME HybridInv, gate = "built", NEW t \in 0..(2 * Full), Hybrid!Meets(kept(t))
             PROVE  Hybrid!Cardinality(kept(t)) <= Hybrid!Cardinality(local)
  BY Zenon DEF Hybrid!GateIsCheapest
<1>a. kept(t) = Hybrid!Kept(t) /\ local = Hybrid!Kept(tau)
  BY LocalIsKept DEF Hybrid!Kept
<1> HIDE DEF kept, local
<1>b. Hybrid!Meets(Hybrid!Kept(t))
  BY <1>a
<1>1. /\ HybridTyped /\ Full \in Nat /\ tau \in Int /\ Len(examples) \in Nat
      /\ examples \in Seq(Hybrid!Example)
      /\ \A i \in DOMAIN examples : examples[i].conf \in 0..(2 * Full)
  BY HybridRanges DEF HybridInv
<1>2. tau # Hybrid!NoTau /\ examples # <<>> /\ tau = Hybrid!Calibrated
  BY <1>1 DEF HybridInv, Threshold, Hybrid!NoTau
<1>3. PICK c \in Good : Hybrid!Kept(c) = Hybrid!Kept(t)
  BY <1>1, <1>b, ObservedWillDo
<1>4. tau <= c /\ c \in Int
  <2>1. c \in Hybrid!Confidences
    BY <1>3 DEF Good
  <2> QED  BY <1>1, <1>2, <1>3, <2>1, CalibratedIs, HybridRanges
<1>5. Hybrid!Kept(c) \subseteq Hybrid!Kept(tau)
  BY <1>1, <1>4 DEF Hybrid!Kept
<1>6. IsFiniteSet(Hybrid!Kept(tau))
  <2>1. IsFiniteSet(1..Len(examples))
    BY <1>1, FS_Interval
  <2>2. Hybrid!Kept(tau) \subseteq 1..Len(examples)
    BY <1>1 DEF Hybrid!Kept
  <2> QED  BY <2>1, <2>2, FS_Subset
<1>7. Cardinality(Hybrid!Kept(t)) <= Cardinality(Hybrid!Kept(tau))
  BY <1>3, <1>5, <1>6, FS_Subset
<1> QED  BY <1>a, <1>7, HybridCounts

LEMMA GateRefusal == HybridInv => Hybrid!RefusedOnlyWhenCertain
<1> SUFFICES ASSUME HybridInv, gate = "refused"
             PROVE  /\ 2 * Full \in Hybrid!Confidences
                    /\ \A t \in 0..(2 * Full) : ~Hybrid!Meets(Hybrid!Kept(t))
  BY Zenon DEF Hybrid!RefusedOnlyWhenCertain, Hybrid!Kept
<1>1. HybridTyped /\ Full \in Nat /\ Hybrid!Confidences \subseteq 0..(2 * Full)
  BY HybridRanges DEF HybridInv
<1>2. examples # <<>> /\ tau = Hybrid!Calibrated /\ tau \notin 0..(2 * Full)
  BY DEF HybridInv, Threshold
<1>3. tau \in 0..(2 * Full + 1)
  BY <1>1, <1>2, CalibratedIs
<1>4. tau = 2 * Full + 1
  BY <1>1, <1>2, <1>3
<1>5. Good = {}
  <2>1. tau \notin Good
    BY <1>1, <1>2 DEF Good
  <2> QED  BY <1>1, <1>2, <2>1, CalibratedIs
<1>6. 2 * Full \in Hybrid!Confidences
  <2>1. tau - 1 \in Hybrid!Confidences
    BY <1>1, <1>2, <1>5, CalibratedIs
  <2> QED  BY <1>1, <1>4, <2>1
<1>7. \A t \in 0..(2 * Full) : ~Hybrid!Meets(Hybrid!Kept(t))
  BY <1>1, <1>5, ObservedWillDo
<1> QED  BY <1>6, <1>7

\* The calibrated gate meets its floor on the examples it was calibrated on, at
\* the least price, and is refused only where no threshold would do.
THEOREM GateCalibrated ==
    Hybrid!Spec => []( /\ Hybrid!TypeOK /\ Hybrid!GateMeetsFloor
                       /\ Hybrid!GateIsCheapest /\ Hybrid!RefusedOnlyWhenCertain)
<1>1. HybridInv => /\ Hybrid!TypeOK /\ Hybrid!GateMeetsFloor
                   /\ Hybrid!GateIsCheapest /\ Hybrid!RefusedOnlyWhenCertain
  BY GateFloor, GateCheapest, GateRefusal DEF HybridInv, HybridTyped
<1> QED  BY <1>1, HybridInitInv, HybridNextInv, PTL DEF Hybrid!Spec

-----------------------------------------------------------------------------
(***************************************************************************)
(* Generated modules (GeneratedFiles).  A tool about to regenerate holds a *)
(* verdict about a file that nobody edited since it read it, unless the    *)
(* file changed after that; and "up to date" is a verdict about the source *)
(* that was read.                                                          *)
(***************************************************************************)
Edited == refreshFile.is = "generated" /\ refreshFile.edited
Current(v) == refreshFile.is = "generated" /\ refreshFile.of = v /\ ~refreshFile.edited

\* A verdict that leads to regeneration was passed on an unedited file.
Overwrites(t) ==
  \/ refreshPc[t] = "advised" /\ status[t] \in {"source_drift", "missing"}
  \/ refreshPc[t] = "open"
Passed(t) == refreshPc[t] = "advised" /\ status[t] = "up_to_date"
VerdictsHold ==
  \A t \in Process : ~stale[t] =>
    (Overwrites(t) => ~Edited) /\ (Passed(t) => Current(seen[t]))
\* What is generated is generated from a source that was there.
Sourced == \A t \in Process : refreshPc[t] \in {"open", "write"} => seen[t] \in Refresh!Version
RefreshInv == Refresh!TypeOK /\ Sourced /\ VerdictsHold /\ ~lost

\* What an edit or a write leaves is a file.
LEMMA FileWritten ==
    /\ Refresh!Missing \in Refresh!File /\ Refresh!Torn \in Refresh!File
    /\ Refresh!Torn.is # "generated" /\ Refresh!Missing.is # "generated"
    /\ \A v \in Refresh!Version, e \in BOOLEAN, c \in BOOLEAN :
         /\ Refresh!Generated(v, e, c) \in Refresh!File
         /\ Refresh!Generated(v, e, c).is = "generated"
         /\ Refresh!Generated(v, e, c).of = v
         /\ Refresh!Generated(v, e, c).edited = e
<1>1. Refresh!Missing \in Refresh!File /\ Refresh!Torn \in Refresh!File
  BY DEF Refresh!File
<1>2. Refresh!Torn.is # "generated" /\ Refresh!Missing.is # "generated"
  BY DEF Refresh!Torn, Refresh!Missing
<1>3. \A v \in Refresh!Version, e \in BOOLEAN, c \in BOOLEAN :
        Refresh!Generated(v, e, c) \in Refresh!File
  BY DEF Refresh!File
<1>4. \A v \in Refresh!Version, e \in BOOLEAN, c \in BOOLEAN :
        /\ Refresh!Generated(v, e, c).is = "generated"
        /\ Refresh!Generated(v, e, c).of = v
        /\ Refresh!Generated(v, e, c).edited = e
  BY DEF Refresh!Generated
<1> QED  BY <1>1, <1>2, <1>3, <1>4

LEMMA RefreshInitInv == Refresh!Init => RefreshInv
<1> SUFFICES ASSUME Refresh!Init PROVE RefreshInv
  OBVIOUS
<1>1. Refresh!TypeOK
  <2>1. MaxSource \in Nat \ {0} /\ MaxHands \in Nat
    BY PartsAssumption DEF PartsAssumption, Refresh!GeneratedAssumption
  <2>2. source \in Refresh!Version \cup {Refresh!Gone, Refresh!Broken}
    BY <2>1 DEF Refresh!Init, Refresh!Version
  <2>3. refreshFile \in Refresh!File
    BY FileWritten DEF Refresh!Init
  <2>4. hands \in 0..MaxHands
    BY <2>1 DEF Refresh!Init
  <2> QED  BY <2>2, <2>3, <2>4 DEF Refresh!Init, Refresh!TypeOK, Refresh!Statuses
<1> QED  BY <1>1 DEF Refresh!Init, RefreshInv, Sourced, VerdictsHold, Overwrites, Passed

\* What was generated has a version, and everything else is none of that.
LEMMA FileShapes ==
    ASSUME NEW f \in Refresh!File
    PROVE  /\ f.is \in {"missing", "torn", "generated"}
           /\ f.is = "missing" => f = Refresh!Missing
           /\ f.is = "generated" =>
                /\ f.of \in Refresh!Version /\ f.edited \in BOOLEAN /\ f.comments \in BOOLEAN
<1>1. CASE f \in {Refresh!Missing, Refresh!Torn}
  BY <1>1 DEF Refresh!Missing, Refresh!Torn
<1>2. CASE \E v \in Refresh!Version, e \in BOOLEAN, c \in BOOLEAN : f = Refresh!Generated(v, e, c)
  <2>1. PICK v \in Refresh!Version, e \in BOOLEAN, c \in BOOLEAN : f = Refresh!Generated(v, e, c)
    BY <1>2
  <2>2. f.is = "generated" /\ f.of = v /\ f.edited = e /\ f.comments = c
    BY <2>1 DEF Refresh!Generated
  <2> QED  BY <2>2
<1> QED  BY <1>1, <1>2 DEF Refresh!File

LEMMA RefreshNextTyped == Refresh!TypeOK /\ Sourced /\ [Refresh!Next]_(Refresh!vars) => Refresh!TypeOK'
<1> SUFFICES ASSUME Refresh!TypeOK, Sourced, [Refresh!Next]_(Refresh!vars) PROVE Refresh!TypeOK'
  OBVIOUS
<1> USE DEF Refresh!TypeOK
<1>0. MaxSource \in Nat \ {0} /\ MaxHands \in Nat
  BY PartsAssumption DEF PartsAssumption, Refresh!GeneratedAssumption
<1>1. CASE Refresh!EditSource
  BY <1>1 DEF Refresh!EditSource
<1>2. CASE Refresh!EditFile
  <2>1. refreshFile.of \in Refresh!Version /\ refreshFile.edited \in BOOLEAN
        /\ refreshFile.comments \in BOOLEAN
    BY <1>2, FileShapes DEF Refresh!EditFile
  <2>2. refreshFile' \in Refresh!File
    <3>1. refreshFile' \in {Refresh!Generated(refreshFile.of, TRUE, refreshFile.comments),
                            Refresh!Generated(refreshFile.of, refreshFile.edited, TRUE),
                            Refresh!Torn, Refresh!Missing}
      BY <1>2 DEF Refresh!EditFile
    <3>2. /\ Refresh!Generated(refreshFile.of, TRUE, refreshFile.comments) \in Refresh!File
          /\ Refresh!Generated(refreshFile.of, refreshFile.edited, TRUE) \in Refresh!File
      BY <2>1, FileWritten, Zenon
    <3>3. Refresh!Torn \in Refresh!File /\ Refresh!Missing \in Refresh!File
      BY FileWritten
    <3> QED  BY <3>1, <3>2, <3>3, Zenon
  <2>3. hands' \in 0..MaxHands
    BY <1>0, <1>2 DEF Refresh!EditFile
  <2>4. stale' \in [Process -> BOOLEAN]
    BY <1>2, Zenon DEF Refresh!EditFile
  <2> QED  BY <1>2, <2>2, <2>3, <2>4 DEF Refresh!EditFile
<1>3. ASSUME NEW t \in Process, Refresh!Detect(t)
      PROVE  Refresh!TypeOK'
  BY <1>3 DEF Refresh!Detect, Refresh!Statuses
<1>4. ASSUME NEW t \in Process, Refresh!Compare(t)
      PROVE  Refresh!TypeOK'
  <2>1. (IF refreshFile = Refresh!Missing THEN "raises" ELSE Refresh!Status(seen[t])) \in Refresh!Statuses
    BY DEF Refresh!Status, Refresh!Statuses
  <2> QED  BY <1>4, <2>1 DEF Refresh!Compare
<1>5. ASSUME NEW t \in Process, Refresh!Leave(t) \/ Refresh!Generate(t)
      PROVE  Refresh!TypeOK'
  BY <1>5 DEF Refresh!Leave, Refresh!Generate
<1>6. ASSUME NEW t \in Process, Refresh!OpenFile(t)
      PROVE  Refresh!TypeOK'
  <2>1. refreshFile' \in Refresh!File /\ lost' \in BOOLEAN
    BY <1>6, FileWritten DEF Refresh!OpenFile
  <2>2. stale' \in [Process -> BOOLEAN]
    BY <1>6, Zenon DEF Refresh!OpenFile
  <2> QED  BY <1>6, <2>1, <2>2 DEF Refresh!OpenFile
<1>7. ASSUME NEW t \in Process, Refresh!WriteFile(t)
      PROVE  Refresh!TypeOK'
  <2>1. refreshFile' \in Refresh!File
    <3>1. seen[t] \in Refresh!Version /\ (seen[t] \in Commented) \in BOOLEAN
      BY <1>7 DEF Refresh!WriteFile, Sourced
    <3>2. refreshFile' = Refresh!Generated(seen[t], FALSE, seen[t] \in Commented)
      BY <1>7 DEF Refresh!WriteFile
    <3> QED  BY <3>1, <3>2, FileWritten, Zenon
  <2>2. stale' \in [Process -> BOOLEAN]
    BY <1>7, Zenon DEF Refresh!WriteFile
  <2> QED  BY <1>7, <2>1, <2>2 DEF Refresh!WriteFile
<1>8. ASSUME NEW t \in Process, Refresh!Kill(t)
      PROVE  Refresh!TypeOK'
  BY <1>0, <1>8 DEF Refresh!Kill
<1>9. CASE UNCHANGED Refresh!vars
  BY <1>9 DEF Refresh!vars
<1> QED  BY <1>1, <1>2, <1>3, <1>4, <1>5, <1>6, <1>7, <1>8, <1>9 DEF Refresh!Next

LEMMA RefreshNextSourced == RefreshInv /\ [Refresh!Next]_(Refresh!vars) => Sourced'
<1> SUFFICES ASSUME RefreshInv, [Refresh!Next]_(Refresh!vars), NEW t \in Process,
                    refreshPc'[t] \in {"open", "write"}
             PROVE  seen'[t] \in Refresh!Version
  BY DEF Sourced
<1> USE DEF RefreshInv, Refresh!TypeOK, Sourced
<1>1. CASE Refresh!EditSource \/ Refresh!EditFile \/ UNCHANGED Refresh!vars
  BY <1>1 DEF Refresh!EditSource, Refresh!EditFile, Refresh!vars
<1>2. ASSUME NEW u \in Process, Refresh!Detect(u) \/ Refresh!Compare(u) \/ Refresh!Leave(u)
      PROVE  seen'[t] \in Refresh!Version
  BY <1>2 DEF Refresh!Detect, Refresh!Compare, Refresh!Leave
<1>3. ASSUME NEW u \in Process, Refresh!Generate(u)
      PROVE  seen'[t] \in Refresh!Version
  BY <1>3 DEF Refresh!Generate
<1>4. ASSUME NEW u \in Process, Refresh!OpenFile(u) \/ Refresh!WriteFile(u) \/ Refresh!Kill(u)
      PROVE  seen'[t] \in Refresh!Version
  BY <1>4 DEF Refresh!OpenFile, Refresh!WriteFile, Refresh!Kill
<1> QED  BY <1>1, <1>2, <1>3, <1>4 DEF Refresh!Next

\* What detect_drift makes of a file that is there.
LEMMA StatusHolds ==
    ASSUME Refresh!TypeOK, refreshFile # Refresh!Missing, NEW v \in Refresh!Version \cup {Refresh!Gone, Refresh!Broken}
    PROVE  /\ Refresh!Status(v) # "missing"
           /\ Refresh!Status(v) = "source_drift" => ~Edited
           /\ Refresh!Status(v) = "up_to_date" => Current(v)
<1>1. refreshFile.is \in {"missing", "torn", "generated"}
  BY FileShapes DEF Refresh!TypeOK
<1>2. refreshFile.is # "missing"
  BY FileShapes DEF Refresh!TypeOK
<1> QED  BY <1>1, <1>2 DEF Refresh!Status, Refresh!BodyHashDiffers, Edited, Current

\* A step of another tool, or of none, that leaves a tool its verdict leaves it
\* the file, or tells it so.
LEMMA VerdictKept ==
    ASSUME VerdictsHold, NEW t \in Process, ~stale'[t],
           ~stale[t], refreshFile' = refreshFile,
           Overwrites(t)' => Overwrites(t), Passed(t)' => Passed(t) /\ seen'[t] = seen[t]
    PROVE  (Overwrites(t)' => ~Edited') /\ (Passed(t)' => Current(seen[t])')
  BY DEF VerdictsHold, Edited, Current

LEMMA RefreshNextVerdicts == RefreshInv /\ [Refresh!Next]_(Refresh!vars) => VerdictsHold'
<1> SUFFICES ASSUME RefreshInv, [Refresh!Next]_(Refresh!vars), NEW t \in Process, ~stale'[t]
             PROVE  (Overwrites(t)' => ~Edited') /\ (Passed(t)' => Current(seen[t])')
  BY Zenon DEF VerdictsHold
<1> DEFINE Goal == (Overwrites(t)' => ~Edited') /\ (Passed(t)' => Current(seen[t])')
<1>0. Refresh!TypeOK /\ VerdictsHold
  BY DEF RefreshInv
<1> USE DEF Refresh!TypeOK
<1>1. CASE Refresh!EditSource \/ UNCHANGED Refresh!vars
  <2>1. UNCHANGED <<refreshFile, refreshPc, seen, status, stale>>
    BY <1>1 DEF Refresh!EditSource, Refresh!vars
  <2> QED  BY <1>0, <2>1 DEF VerdictsHold, Overwrites, Passed, Edited, Current
<1>2. CASE Refresh!EditFile
  BY <1>2 DEF Refresh!EditFile
<1>3. ASSUME NEW u \in Process, Refresh!Detect(u)
      PROVE  Goal
  <2>1. CASE u = t
    <3>1. CASE refreshFile = Refresh!Missing
      <4>1. ~Edited' /\ ~Passed(t)'
        BY <1>0, <1>3, <2>1, <3>1, FileWritten DEF Refresh!Detect, Edited, Passed
      <4> QED  BY <4>1
    <3>2. CASE refreshFile # Refresh!Missing
      BY <1>0, <1>3, <2>1, <3>2 DEF Refresh!Detect, Overwrites, Passed
    <3> QED  BY <3>1, <3>2
  <2>2. CASE u # t
    <3>1. ~stale[t] /\ refreshFile' = refreshFile /\ seen'[t] = seen[t]
          /\ refreshPc'[t] = refreshPc[t] /\ status'[t] = status[t]
      BY <1>0, <1>3, <2>2 DEF Refresh!Detect
    <3> QED  BY <1>0, <3>1, VerdictKept DEF Overwrites, Passed
  <2> QED  BY <2>1, <2>2
<1>4. ASSUME NEW u \in Process, Refresh!Compare(u)
      PROVE  Goal
  <2>1. CASE u = t
    <3>1. /\ refreshFile' = refreshFile /\ seen'[t] = seen[t] /\ refreshPc'[t] = "advised"
          /\ status'[t] = IF refreshFile = Refresh!Missing THEN "raises" ELSE Refresh!Status(seen[t])
      BY <1>0, <1>4, <2>1 DEF Refresh!Compare
    <3>2. CASE refreshFile = Refresh!Missing
      BY <3>1, <3>2 DEF Overwrites, Passed
    <3>3. CASE refreshFile # Refresh!Missing
      <4>1. /\ Refresh!Status(seen[t]) # "missing"
            /\ Refresh!Status(seen[t]) = "source_drift" => ~Edited
            /\ Refresh!Status(seen[t]) = "up_to_date" => Current(seen[t])
        BY <1>0, <3>3, StatusHolds
      <4> QED  BY <3>1, <3>3, <4>1 DEF Overwrites, Passed, Edited, Current
    <3> QED  BY <3>2, <3>3
  <2>2. CASE u # t
    <3>1. ~stale[t] /\ refreshFile' = refreshFile /\ seen'[t] = seen[t]
          /\ refreshPc'[t] = refreshPc[t] /\ status'[t] = status[t]
      BY <1>0, <1>4, <2>2 DEF Refresh!Compare
    <3> QED  BY <1>0, <3>1, VerdictKept DEF Overwrites, Passed
  <2> QED  BY <2>1, <2>2
<1>5. ASSUME NEW u \in Process, Refresh!Leave(u) \/ Refresh!Kill(u)
      PROVE  Goal
  <2>1. ~stale[t] /\ refreshFile' = refreshFile /\ seen'[t] = seen[t] /\ status'[t] = status[t]
        /\ refreshPc'[t] \in {refreshPc[t], "idle"}
    BY <1>0, <1>5 DEF Refresh!Leave, Refresh!Kill
  <2> QED  BY <1>0, <2>1, VerdictKept DEF Overwrites, Passed
<1>6. ASSUME NEW u \in Process, Refresh!Generate(u)
      PROVE  Goal
  <2>1. ~stale[t] /\ refreshFile' = refreshFile /\ status'[t] = status[t]
    BY <1>0, <1>6 DEF Refresh!Generate
  <2>2. Overwrites(t)' => Overwrites(t)
    BY <1>0, <1>6 DEF Refresh!Generate, Overwrites
  <2>3. Passed(t)' => Passed(t) /\ seen'[t] = seen[t]
    BY <1>0, <1>6 DEF Refresh!Generate, Passed
  <2> QED  BY <1>0, <2>1, <2>2, <2>3, VerdictKept
<1>7. ASSUME NEW u \in Process, Refresh!OpenFile(u) \/ Refresh!WriteFile(u)
      PROVE  Goal
  <2>1. stale'[t] = (t # u) \/ stale'[t] = (t # u \/ stale[t])
    BY <1>7 DEF Refresh!OpenFile, Refresh!WriteFile
  <2>2. u = t
    BY <2>1
  <2> QED  BY <1>0, <1>7, <2>2 DEF Refresh!OpenFile, Refresh!WriteFile, Overwrites, Passed
<1> QED  BY <1>1, <1>2, <1>3, <1>4, <1>5, <1>6, <1>7 DEF Refresh!Next

\* Only an opening destroys what the file held, and it opens on a verdict.
LEMMA RefreshNextLost == RefreshInv /\ [Refresh!Next]_(Refresh!vars) => ~lost'
<1> SUFFICES ASSUME RefreshInv, [Refresh!Next]_(Refresh!vars) PROVE ~lost'
  OBVIOUS
<1>1. ASSUME NEW t \in Process, Refresh!OpenFile(t)
      PROVE  ~lost'
  BY <1>1 DEF RefreshInv, VerdictsHold, Overwrites, Edited, Refresh!OpenFile
<1>2. ASSUME ~(\E t \in Process : Refresh!OpenFile(t))
      PROVE  lost' = lost
  BY <1>2 DEF Refresh!Next, Refresh!EditSource, Refresh!EditFile, Refresh!Detect,
     Refresh!Compare, Refresh!Leave, Refresh!Generate, Refresh!WriteFile, Refresh!Kill, Refresh!vars
<1> QED  BY <1>1, <1>2 DEF RefreshInv

\* No edit is destroyed that its tool could have seen, and what is found up to
\* date is generated from the source as it stands.
THEOREM RegeneratingIsSafe ==
    Refresh!Spec => [](Refresh!TypeOK /\ Refresh!EditsSurvive /\ Refresh!UpToDateIsCurrent)
<1>1. RefreshInv /\ [Refresh!Next]_(Refresh!vars) => RefreshInv'
  BY RefreshNextTyped, RefreshNextSourced, RefreshNextVerdicts, RefreshNextLost DEF RefreshInv
<1>2. RefreshInv => Refresh!TypeOK /\ Refresh!EditsSurvive /\ Refresh!UpToDateIsCurrent
  BY DEF RefreshInv, VerdictsHold, Passed, Current, Refresh!EditsSurvive, Refresh!UpToDateIsCurrent
<1> QED  BY <1>1, <1>2, RefreshInitInv, PTL DEF Refresh!Spec

-----------------------------------------------------------------------------
(***************************************************************************)
(* A switch's verifier (VerifierSetup).  As long as nobody came during a   *)
(* download, at most one process downloads, nobody loads meanwhile, and    *)
(* the file holds exactly the blocks written so far; so a file of full     *)
(* length is whole, whoever was killed, and wherever.                      *)
(***************************************************************************)
Steps == {"idle", "ensure", "open", "block", "load", "local", "openai", "anthropic",
          "judged", "ready", "failed"}
Writing(p) == setupPc[p] = "block" => next[p] \in 1..Blocks
Downloads(p) == setupPc[p] \in {"open", "block"}
WholeFile == setupLinked /\ setupSize = Blocks /\ written = 1..Blocks

OneDownload ==
  /\ \A p, q \in Process : Downloads(p) /\ Downloads(q) => p = q
  /\ \A p, q \in Process : setupPc[p] = "load" => ~Downloads(q)
SoFar ==
  \A p \in Process : setupPc[p] = "block" =>
    /\ mine[p] /\ setupLinked
    /\ setupSize = next[p] - 1 /\ written = 1..(next[p] - 1)
FullIsWhole ==
  /\ setupLinked /\ setupSize = Blocks => written = 1..Blocks
  /\ \A p \in Process : setupPc[p] = "load" => WholeFile
Fetched == ~setupOverlap => OneDownload /\ SoFar /\ FullIsWhole

SetupTyped == Setup!TypeOK /\ \A p \in Process : Writing(p)
SetupInv == SetupTyped /\ Fetched /\ Setup!NoSurpriseCloud

LEMMA SetupConstants == Blocks \in Nat \ {0} /\ MaxSetupFaults \in Nat
  BY PartsAssumption DEF PartsAssumption, Setup!SetupAssumption

LEMMA SetupInitInv == Setup!Init => SetupInv
<1> SUFFICES ASSUME Setup!Init PROVE SetupInv
  OBVIOUS
<1> USE DEF Setup!Init
<1>1. Setup!TypeOK
  <2>1. 0 \in 0..Blocks /\ 0 \in 0..MaxSetupFaults /\ 1 \in 1..(Blocks + 1)
    BY SetupConstants
  <2>2. mine \in [Process -> BOOLEAN] /\ setupOverlap \in BOOLEAN /\ setupLinked \in BOOLEAN
    BY Zenon
  <2>3. written \subseteq 1..Blocks /\ setupPc \in [Process -> Steps]
        /\ next \in [Process -> 1..(Blocks + 1)]
    BY <2>1 DEF Steps
  <2> QED  BY <2>1, <2>2, <2>3 DEF Setup!TypeOK, Setup!None, Steps
<1>2. \A p \in Process : Writing(p)
  BY DEF Writing
<1>3. Fetched
  BY SetupConstants DEF Fetched, OneDownload, Downloads, SoFar, FullIsWhole
<1>4. Setup!NoSurpriseCloud
  BY DEF Setup!NoSurpriseCloud, Setup!None
<1> QED  BY <1>1, <1>2, <1>3, <1>4 DEF SetupInv, SetupTyped

\* Every step moves one process, which says what changes for the others.
LEMMA SetupMoves ==
    ASSUME SetupTyped, NEW p \in Process, NEW l \in Steps, Setup!Goto(p, l)
    PROVE  /\ setupPc' \in [Process -> Steps]
           /\ setupPc'[p] = l
           /\ \A q \in Process \ {p} : setupPc'[q] = setupPc[q]
  BY DEF SetupTyped, Setup!TypeOK, Setup!Goto, Steps

LEMMA SetupNextTyped == SetupTyped /\ [Setup!Next]_(Setup!vars) => SetupTyped'
<1> SUFFICES ASSUME SetupTyped, [Setup!Next]_(Setup!vars) PROVE SetupTyped'
  OBVIOUS
<1>0. Setup!TypeOK /\ \A p \in Process : Writing(p)
  BY DEF SetupTyped
<1> USE SetupConstants DEF Setup!TypeOK, Setup!facts, Setup!cache
<1>1. CASE UNCHANGED Setup!vars
  BY <1>0, <1>1 DEF Setup!vars, SetupTyped, Writing
<1>2. ASSUME NEW p \in Process, Setup!Call(p) \/ Setup!Ensure(p)
      PROVE  SetupTyped'
  <2>1. PICK l \in Steps \ {"block"} : Setup!Goto(p, l)
    BY <1>2 DEF Setup!Call, Setup!Ensure, Steps
  <2>2. setupPc' \in [Process -> Steps] /\ setupPc'[p] # "block"
        /\ \A q \in Process \ {p} : setupPc'[q] = setupPc[q]
    BY <2>1, SetupMoves
  <2>3. setupOverlap' \in BOOLEAN
    BY <1>0, <1>2 DEF Setup!Call, Setup!Ensure
  <2> QED  BY <1>0, <1>2, <2>2, <2>3 DEF Setup!Call, Setup!Ensure, SetupTyped, Writing, Steps
<1>3. ASSUME NEW p \in Process, Setup!Open(p)
      PROVE  SetupTyped'
  <2>1. setupPc' \in [Process -> Steps] /\ \A q \in Process \ {p} : setupPc'[q] = setupPc[q]
    BY <1>3, SetupMoves DEF Setup!Open, Steps
  <2>2. /\ next' \in [Process -> 1..(Blocks + 1)] /\ next'[p] = 1
        /\ \A q \in Process \ {p} : next'[q] = next[q]
    BY <1>0, <1>3 DEF Setup!Open
  <2>3. mine' \in [Process -> BOOLEAN]
    BY <1>0, <1>3, Zenon DEF Setup!Open
  <2>4. Setup!TypeOK'
    BY <1>0, <1>3, <2>1, <2>2, <2>3 DEF Setup!Open, Steps
  <2> QED  BY <1>0, <2>1, <2>2, <2>4 DEF SetupTyped, Writing
<1>4. ASSUME NEW p \in Process, Setup!Block(p)
      PROVE  SetupTyped'
  <2>1. PICK l \in {"load", "block"} :
          Setup!Goto(p, l) /\ (l = "block" => next[p] # Blocks)
    BY <1>4 DEF Setup!Block
  <2>2. /\ setupPc' \in [Process -> Steps] /\ setupPc'[p] = l
        /\ \A q \in Process \ {p} : setupPc'[q] = setupPc[q]
    BY <2>1, SetupMoves DEF Steps
  <2>3. next[p] \in 1..Blocks
    BY <1>0, <1>4 DEF Setup!Block, Writing
  <2>4. /\ next' \in [Process -> 1..(Blocks + 1)] /\ next'[p] = next[p] + 1
        /\ \A q \in Process \ {p} : next'[q] = next[q]
    BY <1>0, <1>4, <2>3 DEF Setup!Block
  <2>5. written' \subseteq 1..Blocks /\ setupSize' \in 0..Blocks
    <3>1. \/ UNCHANGED <<written, setupSize>>
          \/ /\ written' = written \cup {next[p]}
             /\ setupSize' \in {setupSize, next[p]}
      BY <1>4 DEF Setup!Block
    <3>2. written \subseteq 1..Blocks /\ setupSize \in 0..Blocks /\ next[p] \in 0..Blocks
      BY <1>0, <2>3
    <3> QED  BY <2>3, <3>1, <3>2
  <2>6. Setup!TypeOK'
    BY <1>0, <1>4, <2>2, <2>4, <2>5 DEF Setup!Block, Steps
  <2>7. Writing(p)'
    BY <2>1, <2>2, <2>3, <2>4 DEF Writing
  <2> QED  BY <1>0, <2>2, <2>4, <2>6, <2>7 DEF SetupTyped, Writing
<1>5. ASSUME NEW p \in Process, Setup!Break(p)
      PROVE  SetupTyped'
  <2>1. /\ setupPc' \in [Process -> Steps] /\ setupPc'[p] # "block"
        /\ \A q \in Process \ {p} : setupPc'[q] = setupPc[q]
    BY <1>5, SetupMoves DEF Setup!Break, Steps
  <2>2. mine' \in [Process -> BOOLEAN]
    BY <1>5, Zenon DEF Setup!Break, Setup!CleanUp
  <2>3. setupLinked' = FALSE /\ written' = {} /\ setupSize' = 0 /\ setupFaults' \in 0..MaxSetupFaults
        /\ UNCHANGED <<world, prefer, next, judge, model, setupOverlap>>
    BY <1>0, <1>5 DEF Setup!Break, Setup!CleanUp
  <2>4. setupSize' \in 0..Blocks /\ written' \subseteq 1..Blocks /\ setupLinked' \in BOOLEAN
    <3>1. 0 \in 0..Blocks
      OBVIOUS
    <3>2. setupSize' \in 0..Blocks /\ written' \subseteq 1..Blocks
      BY <2>3, <3>1
    <3>3. setupLinked' \in BOOLEAN
      BY <2>3, Zenon
    <3> QED  BY <3>2, <3>3
  <2>5. Setup!TypeOK'
    BY <1>0, <2>1, <2>2, <2>3, <2>4 DEF Steps
  <2> QED  BY <1>0, <2>1, <2>3, <2>5 DEF SetupTyped, Writing
<1>6. ASSUME NEW p \in Process, Setup!Load(p) \/ Setup!Local(p) \/ Setup!Cloud(p)
      PROVE  SetupTyped'
  <2>1. PICK l \in Steps \ {"block"} : Setup!Goto(p, l)
    BY <1>6 DEF Setup!Load, Setup!Local, Setup!Cloud, Setup!Try, Steps
  <2>2. setupPc' \in [Process -> Steps] /\ setupPc'[p] # "block"
        /\ \A q \in Process \ {p} : setupPc'[q] = setupPc[q]
    BY <2>1, SetupMoves
  <2>3. judge' \in [Process -> Setup!Judges \cup {Setup!None}]
    BY <1>0, <1>6 DEF Setup!Load, Setup!Local, Setup!Cloud, Setup!Try, Setup!Judges
  <2> QED  BY <1>0, <1>6, <2>2, <2>3
           DEF Setup!Load, Setup!Local, Setup!Cloud, SetupTyped, Writing, Steps
<1>7. ASSUME NEW p \in Process, Setup!Construct(p)
      PROVE  SetupTyped'
  <2>1. PICK l \in {"failed", "ready"} : Setup!Goto(p, l)
    BY <1>7 DEF Setup!Construct
  <2>2. setupPc' \in [Process -> Steps] /\ setupPc'[p] # "block"
        /\ \A q \in Process \ {p} : setupPc'[q] = setupPc[q]
    BY <2>1, SetupMoves DEF Steps
  <2>3. model' \in [Process -> Setup!Judges \cup {Setup!None}]
    BY <1>0, <1>7 DEF Setup!Construct
  <2> QED  BY <1>0, <1>7, <2>2, <2>3 DEF Setup!Construct, SetupTyped, Writing, Steps
<1>8. ASSUME NEW p \in Process, Setup!End(p) \/ Setup!Kill(p)
      PROVE  SetupTyped'
  <2>1. Setup!Restarted(p) /\ setupFaults' \in 0..MaxSetupFaults
    BY <1>0, <1>8 DEF Setup!End, Setup!Kill
  <2>2. setupPc' \in [Process -> Steps] /\ setupPc'[p] # "block"
        /\ \A q \in Process \ {p} : setupPc'[q] = setupPc[q]
    BY <2>1, SetupMoves DEF Setup!Restarted, Steps
  <2>3. /\ next' \in [Process -> 1..(Blocks + 1)]
        /\ \A q \in Process \ {p} : next'[q] = next[q]
    BY <1>0, <2>1 DEF Setup!Restarted
  <2>4. mine' \in [Process -> BOOLEAN]
    BY <1>0, <2>1, Zenon DEF Setup!Restarted
  <2>5. /\ judge' \in [Process -> Setup!Judges \cup {Setup!None}]
        /\ model' \in [Process -> Setup!Judges \cup {Setup!None}]
    BY <1>0, <2>1 DEF Setup!Restarted
  <2> QED  BY <1>0, <2>1, <2>2, <2>3, <2>4, <2>5
           DEF Setup!Restarted, SetupTyped, Writing, Steps
<1> QED  BY <1>1, <1>2, <1>3, <1>4, <1>5, <1>6, <1>7, <1>8 DEF Setup!Next

\* A step that writes nothing, and after which nobody downloads or loads who did
\* not before, leaves the file as good as it was.
LEMMA FileLeft ==
    ASSUME Fetched, setupOverlap' = setupOverlap, UNCHANGED <<setupLinked, written, setupSize>>,
           \A q \in Process :
             /\ setupPc'[q] \in {"open", "block", "load"} => setupPc'[q] = setupPc[q]
             /\ setupPc'[q] = "block" => next'[q] = next[q] /\ mine'[q] = mine[q]
    PROVE  Fetched'
<1> SUFFICES ASSUME ~setupOverlap'
             PROVE  OneDownload' /\ SoFar' /\ FullIsWhole'
  BY DEF Fetched
<1>1. OneDownload /\ SoFar /\ FullIsWhole
  BY DEF Fetched
<1>2. \A q \in Process : Downloads(q)' => Downloads(q)
  BY DEF Downloads
<1>3. OneDownload'
  <2> SUFFICES ASSUME NEW p \in Process, NEW q \in Process
               PROVE  /\ Downloads(p)' /\ Downloads(q)' => p = q
                      /\ setupPc'[p] = "load" => ~Downloads(q)'
    BY Zenon DEF OneDownload
  <2> QED  BY <1>1, <1>2 DEF OneDownload
<1>4. SoFar'
  <2> SUFFICES ASSUME NEW p \in Process, setupPc'[p] = "block"
               PROVE  /\ mine'[p] /\ setupLinked'
                      /\ setupSize' = next'[p] - 1 /\ written' = 1..(next'[p] - 1)
    BY Zenon DEF SoFar
  <2>1. setupPc[p] = "block" /\ next'[p] = next[p] /\ mine'[p] = mine[p]
    OBVIOUS
  <2> QED  BY <1>1, <2>1 DEF SoFar
<1>5. FullIsWhole'
  BY <1>1 DEF FullIsWhole, WholeFile
<1> QED  BY <1>3, <1>4, <1>5

LEMMA SetupNextFetched == SetupInv /\ [Setup!Next]_(Setup!vars) => Fetched'
<1> SUFFICES ASSUME SetupInv, [Setup!Next]_(Setup!vars) PROVE Fetched'
  OBVIOUS
<1>0. Setup!TypeOK /\ SetupTyped /\ Fetched /\ \A p \in Process : Writing(p)
  BY DEF SetupInv, SetupTyped
<1> USE SetupConstants DEF Setup!facts, Setup!cache
<1>1. CASE UNCHANGED Setup!vars
  <2>1. UNCHANGED <<setupLinked, written, setupSize, setupPc, next, mine, setupOverlap>>
    BY <1>1 DEF Setup!vars
  <2> QED  BY <1>0, <2>1, FileLeft
<1>2. ASSUME NEW p \in Process, Setup!Call(p)
      PROVE  Fetched'
  <2>1. \A q \in Process : setupPc'[q] \in {"open", "block", "load"} => setupPc'[q] = setupPc[q]
    <3>1. PICK l \in {"ensure", "local"} : Setup!Goto(p, l)
      BY <1>2 DEF Setup!Call
    <3> QED  BY <1>0, <3>1, SetupMoves DEF Steps
  <2> QED  BY <1>0, <1>2, <2>1, FileLeft DEF Setup!Call
<1>3. ASSUME NEW p \in Process, Setup!Ensure(p)
      PROVE  Fetched'
  <2> SUFFICES ASSUME ~setupOverlap'
               PROVE  OneDownload' /\ SoFar' /\ FullIsWhole'
    BY DEF Fetched
  <2>1. ~setupOverlap /\ \A q \in Process : ~Downloads(q)
    BY <1>0, <1>3 DEF Setup!Ensure, Setup!TypeOK, Downloads
  <2>2. OneDownload /\ FullIsWhole
    BY <1>0, <2>1 DEF Fetched
  <2>3. PICK l \in {"load", "open", "local"} :
          /\ Setup!Goto(p, l) /\ (l = "load" <=> Setup!Accepts)
    BY <1>3 DEF Setup!Ensure
  <2>4. /\ setupPc'[p] = l
        /\ \A q \in Process \ {p} : setupPc'[q] = setupPc[q]
    BY <1>0, <2>3, SetupMoves DEF Steps
  <2>5. UNCHANGED <<setupLinked, written, setupSize>>
    BY <1>3 DEF Setup!Ensure
  <2>6. SoFar'
    BY <2>1, <2>4 DEF SoFar, Downloads
  <2>7. \A q \in Process : setupPc'[q] = "load" => Setup!Accepts /\ WholeFile
    BY <2>2, <2>3, <2>4 DEF Setup!Accepts, FullIsWhole, WholeFile
  <2>8. FullIsWhole'
    BY <2>2, <2>5, <2>7 DEF FullIsWhole, WholeFile
  <2>9. \A q \in Process : Downloads(q)' => q = p /\ l = "open"
    BY <2>1, <2>3, <2>4 DEF Downloads
  <2>10. OneDownload'
    <3> SUFFICES ASSUME NEW q \in Process, NEW r \in Process
                 PROVE  /\ Downloads(q)' /\ Downloads(r)' => q = r
                        /\ setupPc'[q] = "load" => ~Downloads(r)'
      BY Zenon DEF OneDownload
    <3> QED  BY <2>3, <2>7, <2>9
  <2> QED  BY <2>6, <2>8, <2>10
<1>4. ASSUME NEW p \in Process, Setup!Open(p)
      PROVE  Fetched'
  <2> SUFFICES ASSUME ~setupOverlap'
               PROVE  OneDownload' /\ SoFar' /\ FullIsWhole'
    BY DEF Fetched
  <2>1. OneDownload
    BY <1>0, <1>4 DEF Fetched, Setup!Open
  <2>2. /\ setupPc'[p] = "block" /\ Downloads(p)
        /\ \A q \in Process \ {p} : setupPc'[q] = setupPc[q]
    BY <1>0, <1>4, SetupMoves DEF Setup!Open, Steps, Downloads
  <2>3. \A q \in Process : (Downloads(q)' <=> Downloads(q)) /\ setupPc'[q] # "load"
    BY <2>1, <2>2 DEF OneDownload, Downloads
  <2>4. \A q \in Process : Downloads(q)' => q = p
    BY <2>1, <2>2, <2>3 DEF OneDownload
  <2>5. OneDownload'
    BY <2>3, <2>4 DEF OneDownload
  <2>6. setupLinked' /\ written' = {} /\ setupSize' = 0 /\ next'[p] = 1 /\ mine'[p]
    BY <1>0, <1>4 DEF Setup!Open, Setup!TypeOK
  <2>7. SoFar'
    BY <2>4, <2>6 DEF SoFar, Downloads
  <2> QED  BY <2>3, <2>5, <2>6, <2>7 DEF FullIsWhole
<1>5. ASSUME NEW p \in Process, Setup!Block(p)
      PROVE  Fetched'
  <2> SUFFICES ASSUME ~setupOverlap'
               PROVE  OneDownload' /\ SoFar' /\ FullIsWhole'
    BY DEF Fetched
  <2>1. OneDownload /\ SoFar
    BY <1>0, <1>5 DEF Fetched, Setup!Block
  <2>2. PICK l \in {"load", "block"} : Setup!Goto(p, l) /\ (l = "load" <=> next[p] = Blocks)
    BY <1>5 DEF Setup!Block
  <2>3. /\ setupPc'[p] = l /\ Downloads(p)
        /\ \A q \in Process \ {p} : setupPc'[q] = setupPc[q]
    BY <1>0, <1>5, <2>2, SetupMoves DEF Setup!Block, Steps, Downloads
  <2>4. \A q \in Process \ {p} : ~Downloads(q)' /\ setupPc'[q] # "load"
    BY <2>1, <2>3 DEF OneDownload, Downloads
  <2>5. next[p] \in 1..Blocks /\ next'[p] = next[p] + 1 /\ mine'[p] = mine[p]
    BY <1>0, <1>5 DEF Setup!Block, Setup!TypeOK, Writing
  <2>6. mine[p] /\ setupLinked /\ setupSize = next[p] - 1 /\ written = 1..(next[p] - 1)
    BY <1>5, <2>1 DEF SoFar, Setup!Block
  <2>7. setupLinked' /\ setupSize' = next[p] /\ written' = 1..next[p]
    <3>1. setupLinked' /\ written' = written \cup {next[p]} /\ setupSize' = next[p]
      BY <1>5, <2>5, <2>6 DEF Setup!Block
    <3> QED  BY <2>5, <2>6, <3>1
  <2>8. OneDownload'
    <3>1. Downloads(p)' => l = "block"
      BY <2>2, <2>3 DEF Downloads
    <3>2. ASSUME NEW q \in Process, NEW r \in Process
          PROVE  /\ Downloads(q)' /\ Downloads(r)' => q = r
                 /\ setupPc'[q] = "load" => ~Downloads(r)'
      BY <2>3, <2>4, <3>1
    <3> QED  BY <3>2, Zenon DEF OneDownload
  <2>9. SoFar'
    <3> SUFFICES ASSUME NEW q \in Process, setupPc'[q] = "block"
                 PROVE  /\ mine'[q] /\ setupLinked'
                        /\ setupSize' = next'[q] - 1 /\ written' = 1..(next'[q] - 1)
      BY Zenon DEF SoFar
    <3>1. q = p
      BY <2>4 DEF Downloads
    <3>2. next'[p] - 1 = next[p]
      BY <2>5
    <3> QED  BY <2>5, <2>6, <2>7, <3>1, <3>2
  <2>10. FullIsWhole'
    <3>1. \A q \in Process : setupPc'[q] = "load" => next[p] = Blocks
      BY <2>2, <2>3, <2>4
    <3> QED  BY <2>7, <3>1 DEF FullIsWhole, WholeFile
  <2> QED  BY <2>8, <2>9, <2>10
<1>6. ASSUME NEW p \in Process, Setup!Break(p)
      PROVE  Fetched'
  <2> SUFFICES ASSUME ~setupOverlap'
               PROVE  OneDownload' /\ SoFar' /\ FullIsWhole'
    BY DEF Fetched
  <2>1. OneDownload
    BY <1>0, <1>6 DEF Fetched, Setup!Break
  <2>2. /\ setupPc'[p] = "local" /\ Downloads(p)
        /\ \A q \in Process \ {p} : setupPc'[q] = setupPc[q]
    BY <1>0, <1>6, SetupMoves DEF Setup!Break, Steps, Downloads
  <2>3. \A q \in Process : ~Downloads(q)' /\ setupPc'[q] # "load"
    BY <2>1, <2>2 DEF OneDownload, Downloads
  <2>4. setupLinked' = FALSE
    BY <1>6 DEF Setup!Break, Setup!CleanUp
  <2> QED  BY <2>3, <2>4 DEF OneDownload, SoFar, FullIsWhole, Downloads
<1>7. ASSUME NEW p \in Process, Setup!Load(p) \/ Setup!Local(p) \/ Setup!Cloud(p) \/ Setup!Construct(p)
      PROVE  Fetched'
  <2>1. \A q \in Process : setupPc'[q] \in {"open", "block", "load"} => setupPc'[q] = setupPc[q]
    <3>1. PICK l \in Steps \ {"open", "block", "load"} : Setup!Goto(p, l)
      BY <1>7 DEF Setup!Load, Setup!Local, Setup!Cloud, Setup!Try, Setup!Construct, Steps
    <3> QED  BY <1>0, <3>1, SetupMoves DEF Steps
  <2>2. UNCHANGED <<setupLinked, written, setupSize, next, mine, setupOverlap>>
    BY <1>7 DEF Setup!Load, Setup!Local, Setup!Cloud, Setup!Construct
  <2> QED  BY <1>0, <2>1, <2>2, FileLeft
<1>8. ASSUME NEW p \in Process, Setup!End(p) \/ Setup!Kill(p)
      PROVE  Fetched'
  <2>1. Setup!Restarted(p)
    BY <1>8 DEF Setup!End, Setup!Kill
  <2>2. setupPc'[p] = "idle" /\ \A q \in Process \ {p} : setupPc'[q] = setupPc[q]
    BY <1>0, <2>1, SetupMoves DEF Setup!Restarted, Steps
  <2>3. \A q \in Process \ {p} : next'[q] = next[q] /\ mine'[q] = mine[q]
    BY <1>0, <2>1 DEF Setup!Restarted, Setup!TypeOK
  <2>4. UNCHANGED <<setupLinked, written, setupSize, setupOverlap>>
    BY <2>1 DEF Setup!Restarted
  <2> QED  BY <1>0, <2>2, <2>3, <2>4, FileLeft
<1> QED  BY <1>1, <1>2, <1>3, <1>4, <1>5, <1>6, <1>7, <1>8 DEF Setup!Next

LEMMA SetupNextAsked == SetupInv /\ [Setup!Next]_(Setup!vars) => Setup!NoSurpriseCloud'
<1> SUFFICES ASSUME SetupInv, [Setup!Next]_(Setup!vars) PROVE Setup!NoSurpriseCloud'
  OBVIOUS
<1>0. Setup!TypeOK /\ Setup!NoSurpriseCloud /\ prefer' = prefer
  BY DEF SetupInv, SetupTyped, Setup!Next, Setup!vars, Setup!facts, Setup!Call, Setup!Ensure,
         Setup!Open, Setup!Block, Setup!Break, Setup!Load, Setup!Local, Setup!Cloud,
         Setup!Construct, Setup!End, Setup!Kill, Setup!Restarted
<1>1. \/ judge' = judge
      \/ \E p \in Process :
           \/ judge' = [judge EXCEPT ![p] = "bundled"] \/ judge' = [judge EXCEPT ![p] = Setup!None]
           \/ \E c \in {"local", "openai", "anthropic"} :
                Setup!Wanted(c) /\ judge' = [judge EXCEPT ![p] = c]
  BY DEF Setup!Next, Setup!vars, Setup!Call, Setup!Ensure, Setup!Try,
         Setup!Open, Setup!Block, Setup!Break, Setup!Load, Setup!Local, Setup!Cloud,
         Setup!Construct, Setup!End, Setup!Kill, Setup!Restarted
<1> QED  BY <1>0, <1>1 DEF Setup!NoSurpriseCloud, Setup!TypeOK, Setup!Wanted, Setup!None

\* The bundled judge is loaded from a whole file unless somebody came during a
\* download, and a cloud verifier is got by those alone who asked for one.
THEOREM VerifierSetUp ==
    Setup!Spec => [](Setup!TypeOK /\ Setup!LoadedModelIsWhole /\ Setup!NoSurpriseCloud)
<1>1. SetupInv /\ [Setup!Next]_(Setup!vars) => SetupInv'
  BY SetupNextTyped, SetupNextFetched, SetupNextAsked DEF SetupInv
<1>2. SetupInv => Setup!TypeOK /\ Setup!LoadedModelIsWhole /\ Setup!NoSurpriseCloud
  BY DEF SetupInv, SetupTyped, Fetched, FullIsWhole, WholeFile, Setup!LoadedModelIsWhole
<1> QED  BY <1>1, <1>2, SetupInitInv, PTL DEF Setup!Spec

-----------------------------------------------------------------------------
(***************************************************************************)
(* The serving verbs (ServedCalls).  No two callers are in the same call.  *)
(* Until a call has logged, neither a verdict nor an UNKNOWN row of its    *)
(* own is anywhere, unless it is excused; when it has, its action is on    *)
(* record.                                                                 *)
(***************************************************************************)
CallSteps == {"idle", "act", "judge", "record", "log", "end", "held", "body"}
Early(l) == l \in {"act", "judge", "record", "log"}
Decisive(row) == row.by \in {"verifier", "auto"}
Rows == callsLog \cup orphans

InCall == \A c \in Process : callsPc[c] # "idle" => job[c].call \in 1..calls
CallsTyped == Calls!TypeOK /\ InCall
Apart ==
  \A c, d \in Process :
    c # d /\ callsPc[c] # "idle" /\ callsPc[d] # "idle" => job[c].call # job[d].call
RowsOwn == \A row \in Rows : row.call \in 1..calls /\ row.shadows \in {row.call, 0}
Undecided ==
  \A c \in Process, row \in Rows :
    Early(callsPc[c]) /\ Decisive(row) /\ row.call = job[c].call => row.call \in excused
OneDecides ==
  \A v \in Rows, a \in Rows :
    v.by = "verifier" /\ a.by = "auto" /\ v.call = a.call => v.call \in excused
OnRecord(n, acted) ==
  n \in excused \/ \E row \in callsLog : row.call = n /\ row.acted = acted
Logged ==
  config.auto_record =>
    \A c \in Process : callsPc[c] = "end" => OnRecord(job[c].call, job[c].acted)
CallsInv ==
  /\ CallsTyped /\ Apart /\ RowsOwn /\ Undecided /\ OneDecides /\ Logged
  /\ Calls!ActionIsOnRecord

LEMMA CallsConstants == MaxCalls \in Nat /\ MaxFaults \in Nat /\ Verbs # {}
  BY PartsAssumption DEF PartsAssumption, Calls!CallsAssumption

LEMMA CallsInitInv == Calls!Init => CallsInv
<1> SUFFICES ASSUME Calls!Init PROVE CallsInv
  OBVIOUS
<1> USE DEF Calls!Init
<1>1. Calls!TypeOK
  <2>1. (CHOOSE v \in Verbs : TRUE) \in Verbs /\ 0 \in 0..MaxCalls /\ 0 \in 0..MaxFaults
    BY CallsConstants
  <2>2. job \in [Process -> Calls!Job]
    BY <2>1 DEF Calls!Job, Calls!Acted
  <2> QED  BY <2>1, <2>2 DEF Calls!TypeOK
<1>2. Rows = {} /\ \A c \in Process : callsPc[c] = "idle"
  BY DEF Rows
<1>3. InCall /\ Apart
  BY <1>2 DEF InCall, Apart
<1>4. RowsOwn /\ Undecided /\ OneDecides
  BY <1>2 DEF RowsOwn, Undecided, OneDecides
<1>5. Logged
  BY <1>2 DEF Logged
<1> QED  BY <1>1, <1>3, <1>4, <1>5 DEF CallsInv, CallsTyped, Calls!ActionIsOnRecord

\* A caller goes from one step to the next, and the others stay where they are.
LEMMA CallsAt ==
    ASSUME CallsTyped, NEW c \in Process, NEW from \in CallSteps, NEW to \in CallSteps,
           Calls!At(c, from, to)
    PROVE  /\ callsPc[c] = from /\ callsPc'[c] = to /\ callsPc' \in [Process -> CallSteps]
           /\ \A d \in Process \ {c} : callsPc'[d] = callsPc[d]
  BY DEF CallsTyped, Calls!TypeOK, Calls!At, CallSteps

\* A row of a call that is under way.
LEMMA CallsRow ==
    ASSUME CallsTyped, NEW c \in Process, callsPc[c] # "idle",
           NEW by \in {"auto", "verifier", "caller", "holder"}
    PROVE  /\ Calls!RowOf(c, by) \in Calls!Row
           /\ Calls!RowOf(c, by).call = job[c].call
           /\ Calls!RowOf(c, by).by = by
           /\ Calls!RowOf(c, by).shadows = job[c].call
           /\ Calls!RowOf(c, by).acted = job[c].acted
<1>1. job[c].call \in 1..MaxCalls /\ job[c].call \in 0..MaxCalls /\ job[c].acted \in Calls!Acted
  <2>1. job[c] \in Calls!Job /\ calls \in 0..MaxCalls /\ job[c].call \in 1..calls
    BY DEF CallsTyped, Calls!TypeOK, InCall
  <2> QED  BY <2>1, CallsConstants DEF Calls!Job
<1> QED  BY <1>1 DEF Calls!RowOf, Calls!Shadows, Calls!Row

\* What a step within a call does: it writes at most one row, of this call,
\* and one that decides it only as the call leaves its early steps or is
\* excused; at its end the action is on record.
Moves(c, row) ==
  /\ callsPc[c] # "idle" /\ UNCHANGED <<config, calls>>
  /\ callsPc' \in [Process -> CallSteps]
  /\ job' \in [Process -> Calls!Job] /\ job'[c].call = job[c].call
  /\ \A d \in Process \ {c} : callsPc'[d] = callsPc[d] /\ job'[d] = job[d]
  /\ callsFaults' \in 0..MaxFaults
  /\ excused \subseteq excused' /\ excused' \subseteq excused \cup {job[c].call}
  /\ callsLog \subseteq callsLog' /\ Rows' \subseteq Rows \cup {row}
  /\ row \in Calls!Row /\ row.call = job[c].call /\ row.shadows \in {row.call, 0}
  /\ Early(callsPc'[c]) => Early(callsPc[c])
  /\ Decisive(row) => \/ job[c].call \in excused'
                      \/ Early(callsPc[c]) /\ ~Early(callsPc'[c])
Ends(c) ==
  config.auto_record /\ callsPc'[c] = "end" => OnRecord(job[c].call, job[c].acted)'
Over(c) ==
  \/ over' = over
  \/ callsPc[c] = "end" /\ over' = over \cup {[call |-> job[c].call, acted |-> job[c].acted]}

\* A refused append, a cancellation or an exit excuses the call.
LEMMA CallsFault ==
    ASSUME CallsTyped, NEW c \in Process,
           Calls!Fault(c) \/ UNCHANGED <<callsFaults, excused>>
    PROVE  /\ callsFaults' \in 0..MaxFaults
           /\ excused \subseteq excused' /\ excused' \subseteq excused \cup {job[c].call}
           /\ Calls!Fault(c) => job[c].call \in excused'
  BY CallsConstants DEF CallsTyped, Calls!TypeOK, Calls!Fault

\* What a holder writes.
HolderRow(c) == [call |-> job[c].call, by |-> "holder", shadows |-> 0, acted |-> "none"]

\* A step that leaves the caller's call as it is.
LEMMA JobKept ==
    ASSUME CallsTyped, NEW c \in Process,
           NEW from \in CallSteps \ {"idle"}, NEW to \in CallSteps, Calls!At(c, from, to),
           UNCHANGED <<config, calls, job>>,
           Calls!Fault(c) \/ UNCHANGED <<callsFaults, excused>>,
           NEW by \in {"auto", "verifier", "caller", "holder"},
           NEW row \in {Calls!RowOf(c, by), HolderRow(c)},
           callsLog \subseteq callsLog', Rows' \subseteq Rows \cup {row},
           Early(to) => Early(from),
           Decisive(row) => Calls!Fault(c) \/ (Early(from) /\ ~Early(to))
    PROVE  Moves(c, row)
<1>1. /\ callsPc[c] = from /\ callsPc'[c] = to /\ callsPc' \in [Process -> CallSteps]
      /\ \A d \in Process \ {c} : callsPc'[d] = callsPc[d]
  BY CallsAt
<1>2. /\ callsFaults' \in 0..MaxFaults
      /\ excused \subseteq excused' /\ excused' \subseteq excused \cup {job[c].call}
      /\ Calls!Fault(c) => job[c].call \in excused'
  BY CallsFault
<1>3. row \in Calls!Row /\ row.call = job[c].call /\ row.shadows \in {row.call, 0}
  <2>1. callsPc[c] # "idle"
    BY <1>1
  <2>2. /\ Calls!RowOf(c, by) \in Calls!Row /\ Calls!RowOf(c, by).call = job[c].call
        /\ Calls!RowOf(c, by).shadows = job[c].call
    BY <2>1, CallsRow
  <2>3. job[c].call \in 1..MaxCalls /\ 0 \in 0..MaxCalls
    BY <2>2, CallsConstants DEF Calls!Row
  <2>4. HolderRow(c) \in Calls!Row /\ HolderRow(c).call = job[c].call /\ HolderRow(c).shadows = 0
    BY <2>3 DEF HolderRow, Calls!Row, Calls!Acted
  <2> QED  BY <2>2, <2>4
<1>4. job' \in [Process -> Calls!Job] /\ job' = job
  BY DEF CallsTyped, Calls!TypeOK
<1>5. Decisive(row) => \/ job[c].call \in excused'
                       \/ Early(callsPc[c]) /\ ~Early(callsPc'[c])
  BY <1>1, <1>2
<1> HIDE DEF Decisive
<1> QED  BY <1>1, <1>2, <1>3, <1>4, <1>5 DEF Moves

\* A step that writes nothing.
CallsUnwritten(c, from, to) ==
  /\ from \in CallSteps \ {"idle"} /\ to \in CallSteps /\ Calls!At(c, from, to)
  /\ Calls!Fault(c) \/ UNCHANGED <<callsFaults, excused>>
  /\ UNCHANGED <<config, calls, job, callsLog, orphans>>
  /\ Early(to) => Early(from)
LEMMA MovesUnwritten ==
    ASSUME CallsTyped, NEW c \in Process, NEW from, NEW to, CallsUnwritten(c, from, to)
    PROVE  \E row \in Calls!Row : Moves(c, row)
<1>1. callsPc[c] = from /\ from # "idle"
  BY CallsAt DEF CallsUnwritten
<1>2. Calls!RowOf(c, "caller") \in Calls!Row /\ ~Decisive(Calls!RowOf(c, "caller"))
  BY <1>1, CallsRow DEF Decisive
<1>3. callsLog \subseteq callsLog' /\ Rows' \subseteq Rows \cup {Calls!RowOf(c, "caller")}
  BY DEF CallsUnwritten, Rows
<1>4. Moves(c, Calls!RowOf(c, "caller"))
  BY <1>2, <1>3, JobKept DEF CallsUnwritten
<1> QED  BY <1>2, <1>4

\* What the steps of a call do.
LEMMA StepMoves ==
    ASSUME CallsTyped, NEW c \in Process, Calls!Step(c),
           ~(\E verb \in Verbs : Calls!Begin(c, verb))
    PROVE  (\E row \in Calls!Row : Moves(c, row)) /\ Ends(c) /\ Over(c)
<1> DEFINE goal == (\E row \in Calls!Row : Moves(c, row)) /\ Ends(c) /\ Over(c)
<1>0. /\ Calls!TypeOK /\ job \in [Process -> Calls!Job] /\ callsPc \in [Process -> CallSteps]
      /\ excused \subseteq 1..MaxCalls /\ callsFaults \in 0..MaxFaults
  BY DEF CallsTyped, Calls!TypeOK, CallSteps
<1>1. ASSUME Calls!Act(c)
      PROVE  goal
  <2>1. /\ callsPc[c] = "act" /\ callsPc'[c] = "judge" /\ callsPc' \in [Process -> CallSteps]
        /\ \A d \in Process \ {c} : callsPc'[d] = callsPc[d]
    BY <1>1, CallsAt DEF Calls!Act, CallSteps
  <2>2. PICK acted \in Calls!Acted : job' = [job EXCEPT ![c].acted = acted]
    BY <1>1 DEF Calls!Act
  <2>3. /\ job' \in [Process -> Calls!Job] /\ job'[c].call = job[c].call
        /\ \A d \in Process \ {c} : job'[d] = job[d]
    BY <1>0, <2>2 DEF Calls!Job
  <2>4. UNCHANGED <<config, calls, callsFaults, excused, callsLog, orphans, over>>
    BY <1>1 DEF Calls!Act, Calls!past
  <2>5. Moves(c, Calls!RowOf(c, "caller")) /\ Calls!RowOf(c, "caller") \in Calls!Row
    BY <1>0, <2>1, <2>3, <2>4, CallsRow DEF Moves, Rows, Early, Decisive
  <2> QED  BY <2>1, <2>4, <2>5 DEF Ends, Over
<1>2. ASSUME Calls!Judge(c)
      PROVE  goal
  <2>1. PICK to \in {"record", "log"} : Calls!At(c, "judge", to)
    BY <1>2 DEF Calls!Judge
  <2>2. UNCHANGED <<config, calls, callsFaults, excused, job, callsLog, orphans, over>>
    BY <1>2 DEF Calls!Judge, Calls!past
  <2>3. callsPc[c] = "judge" /\ callsPc'[c] = to
    BY <2>1, CallsAt DEF CallSteps
  <2>4. CallsUnwritten(c, "judge", to)
    BY <2>1, <2>2 DEF CallsUnwritten, Rows, Early, CallSteps
  <2> QED  BY <2>2, <2>3, <2>4, MovesUnwritten DEF Ends, Over
<1>3. ASSUME Calls!Record(c)
      PROVE  goal
  <2>1. /\ Calls!At(c, "record", "end") /\ callsLog' = callsLog \cup {Calls!RowOf(c, "verifier")}
        /\ UNCHANGED <<config, calls, callsFaults, excused, job, orphans, over>>
    BY <1>3 DEF Calls!Record, Calls!past
  <2>2. callsPc[c] = "record" /\ callsPc'[c] = "end"
    BY <2>1, CallsAt DEF CallSteps
  <2>3. Moves(c, Calls!RowOf(c, "verifier"))
    BY <2>1, JobKept DEF Rows, Early, CallSteps
  <2>4. Calls!RowOf(c, "verifier").call = job[c].call /\ Calls!RowOf(c, "verifier").acted = job[c].acted
        /\ Calls!RowOf(c, "verifier") \in Calls!Row
    BY <2>2, CallsRow
  <2>5. Ends(c)
    BY <2>1, <2>4 DEF Ends, OnRecord
  <2> QED  BY <2>1, <2>3, <2>4, <2>5 DEF Over
<1>4. ASSUME Calls!RecordFails(c)
      PROVE  goal
  <2>1. /\ Calls!At(c, "record", "log") /\ Calls!Fault(c)
        /\ UNCHANGED <<config, calls, job, callsLog, orphans, over>>
    BY <1>4 DEF Calls!RecordFails
  <2>2. callsPc[c] = "record" /\ callsPc'[c] = "log"
    BY <2>1, CallsAt DEF CallSteps
  <2>3. CallsUnwritten(c, "record", "log")
    BY <2>1 DEF CallsUnwritten, Rows, Early, CallSteps
  <2> QED  BY <2>1, <2>2, <2>3, MovesUnwritten DEF Ends, Over
<1>5. ASSUME Calls!AutoLog(c)
      PROVE  goal
  <2>1. /\ Calls!At(c, "log", "end")
        /\ callsLog' = IF config.auto_record THEN callsLog \cup {Calls!RowOf(c, "auto")} ELSE callsLog
        /\ UNCHANGED <<config, calls, callsFaults, excused, job, orphans, over>>
    BY <1>5 DEF Calls!AutoLog, Calls!past
  <2>2. callsPc[c] = "log" /\ callsPc'[c] = "end"
    BY <2>1, CallsAt DEF CallSteps
  <2>3. Moves(c, Calls!RowOf(c, "auto"))
    BY <2>1, JobKept DEF Rows, Early, CallSteps
  <2>4. Calls!RowOf(c, "auto").call = job[c].call /\ Calls!RowOf(c, "auto").acted = job[c].acted
        /\ Calls!RowOf(c, "auto") \in Calls!Row
    BY <2>2, CallsRow
  <2>5. Ends(c)
    BY <2>1, <2>4 DEF Ends, OnRecord
  <2> QED  BY <2>1, <2>3, <2>4, <2>5 DEF Over
<1>6. ASSUME Calls!AutoLogFails(c)
      PROVE  goal
  <2>1. /\ Calls!At(c, "log", "end") /\ Calls!Fault(c)
        /\ UNCHANGED <<config, calls, job, callsLog, orphans, over>>
    BY <1>6 DEF Calls!AutoLogFails
  <2>2. CallsUnwritten(c, "log", "end")
    BY <2>1 DEF CallsUnwritten, Rows, Early, CallSteps
  <2>3. Ends(c)
    BY <2>1, CallsFault DEF Ends, OnRecord
  <2> QED  BY <2>1, <2>2, <2>3, MovesUnwritten DEF Over
<1>7. ASSUME Calls!Finish(c)
      PROVE  goal
  <2>1. PICK to \in {"body", "idle", "held"} : Calls!At(c, "end", to)
    BY <1>7 DEF Calls!Finish
  <2>2. /\ over' = over \cup {[call |-> job[c].call, acted |-> job[c].acted]}
        /\ UNCHANGED <<config, calls, callsFaults, excused, job, callsLog, orphans>>
    BY <1>7 DEF Calls!Finish, Calls!past
  <2>3. callsPc[c] = "end" /\ callsPc'[c] = to
    BY <2>1, CallsAt DEF CallSteps
  <2>4. CallsUnwritten(c, "end", to)
    BY <2>1, <2>2 DEF CallsUnwritten, Rows, Early, CallSteps
  <2> QED  BY <2>2, <2>3, <2>4, MovesUnwritten DEF Ends, Over
<1>8. ASSUME Calls!Mark(c)
      PROVE  goal
  <2>1. /\ Calls!At(c, "held", "idle") /\ callsLog' \in {callsLog, callsLog \cup {Calls!RowOf(c, "caller")}}
        /\ UNCHANGED <<config, calls, callsFaults, excused, job, orphans, over>>
    BY <1>8 DEF Calls!Mark, Calls!past
  <2>2. callsPc[c] = "held" /\ callsPc'[c] = "idle"
    BY <2>1, CallsAt DEF CallSteps
  <2>3. Calls!RowOf(c, "caller") \in Calls!Row /\ Calls!RowOf(c, "caller").by = "caller"
    BY <2>2, CallsRow
  <2>4. ~Decisive(Calls!RowOf(c, "caller"))
    BY <2>3 DEF Decisive
  <2>5. Moves(c, Calls!RowOf(c, "caller"))
    BY <2>1, <2>4, JobKept DEF Rows, Early, CallSteps
  <2> QED  BY <2>1, <2>2, <2>3, <2>5 DEF Ends, Over
<1>9. ASSUME Calls!HolderMark(c)
      PROVE  goal
  <2> DEFINE row == HolderRow(c)
  <2>1. /\ Calls!At(c, "body", "idle") /\ callsLog' = callsLog \cup {row}
        /\ UNCHANGED <<config, calls, callsFaults, excused, job, orphans, over>>
    BY <1>9 DEF Calls!HolderMark, Calls!past, HolderRow
  <2>2. callsPc[c] = "body" /\ callsPc'[c] = "idle"
    BY <2>1, CallsAt DEF CallSteps
  <2>3. row \in {Calls!RowOf(c, "holder"), HolderRow(c)}
    OBVIOUS
  <2>4. ~Decisive(row)
    BY DEF HolderRow, Decisive
  <2> HIDE DEF row
  <2>5. Moves(c, row)
    BY <2>1, <2>3, <2>4, JobKept DEF Rows, Early, CallSteps
  <2>6. row \in Calls!Row
    BY <2>5 DEF Moves
  <2> QED  BY <2>1, <2>2, <2>5, <2>6 DEF Ends, Over
<1>10. ASSUME Calls!HolderMarkFails(c)
       PROVE  goal
  <2>1. /\ Calls!At(c, "body", "idle") /\ Calls!Fault(c)
        /\ UNCHANGED <<config, calls, job, callsLog, orphans, over>>
    BY <1>10 DEF Calls!HolderMarkFails
  <2>2. callsPc'[c] = "idle"
    BY <2>1, CallsAt DEF CallSteps
  <2>3. CallsUnwritten(c, "body", "idle")
    BY <2>1 DEF CallsUnwritten, Rows, Early, CallSteps
  <2> QED  BY <2>1, <2>2, <2>3, MovesUnwritten DEF Ends, Over
<1>11. ASSUME Calls!Exit(c)
       PROVE  goal
  <2>1. PICK from \in {"act", "judge"} : Calls!At(c, from, "idle")
    BY <1>11 DEF Calls!Exit
  <2>2. Calls!Fault(c) /\ UNCHANGED <<config, calls, job, callsLog, orphans, over>>
    BY <1>11 DEF Calls!Exit
  <2>3. callsPc'[c] = "idle"
    BY <2>1, CallsAt DEF CallSteps
  <2>4. CallsUnwritten(c, from, "idle")
    BY <2>1, <2>2 DEF CallsUnwritten, Rows, Early, CallSteps
  <2> QED  BY <2>2, <2>3, <2>4, MovesUnwritten DEF Ends, Over
<1>12. ASSUME Calls!Cancel(c)
       PROVE  goal
  <2>1. Calls!Fault(c) /\ UNCHANGED <<config, calls, job, callsLog, over>>
    BY <1>12 DEF Calls!Cancel
  <2>2. CASE Calls!At(c, "judge", "log") /\ UNCHANGED orphans
    <3>1. callsPc'[c] = "log"
      BY <2>2, CallsAt DEF CallSteps
    <3>2. CallsUnwritten(c, "judge", "log")
      BY <2>1, <2>2 DEF CallsUnwritten, Rows, Early, CallSteps
    <3> QED  BY <2>1, <3>1, <3>2, MovesUnwritten DEF Ends, Over
  <2>3. CASE Calls!At(c, "record", "log") /\ orphans' = orphans \cup {Calls!RowOf(c, "verifier")}
    <3>1. callsPc[c] = "record" /\ callsPc'[c] = "log"
      BY <2>3, CallsAt DEF CallSteps
    <3>2. Moves(c, Calls!RowOf(c, "verifier"))
      BY <2>1, <2>3, JobKept DEF Rows, Early, CallSteps
    <3>3. Calls!RowOf(c, "verifier") \in Calls!Row
      BY <3>1, CallsRow
    <3> QED  BY <2>1, <3>1, <3>2, <3>3 DEF Ends, Over
  <2>4. CASE /\ Calls!At(c, "log", "idle")
             /\ orphans' = IF config.auto_record THEN orphans \cup {Calls!RowOf(c, "auto")} ELSE orphans
    <3>1. callsPc[c] = "log" /\ callsPc'[c] = "idle"
      BY <2>4, CallsAt DEF CallSteps
    <3>2. Moves(c, Calls!RowOf(c, "auto"))
      BY <2>1, <2>4, JobKept DEF Rows, Early, CallSteps
    <3>3. Calls!RowOf(c, "auto") \in Calls!Row
      BY <3>1, CallsRow
    <3> QED  BY <2>1, <3>1, <3>2, <3>3 DEF Ends, Over
  <2> QED  BY <1>12, <2>2, <2>3, <2>4 DEF Calls!Cancel
<1> QED  BY <1>1, <1>2, <1>3, <1>4, <1>5, <1>6, <1>7, <1>8, <1>9, <1>10, <1>11, <1>12
         DEF Calls!Step

\* A step within a call.
LEMMA MovesInv ==
    ASSUME CallsInv, NEW c \in Process, NEW row, Moves(c, row), Ends(c), Over(c)
    PROVE  CallsInv'
<1>0. /\ CallsTyped /\ Calls!TypeOK /\ InCall /\ Apart /\ RowsOwn /\ Undecided /\ OneDecides
      /\ Logged /\ Calls!ActionIsOnRecord
  BY DEF CallsInv, CallsTyped
<1>1. /\ callsPc[c] # "idle" /\ config' = config /\ calls' = calls
      /\ job'[c].call = job[c].call
      /\ \A d \in Process \ {c} : callsPc'[d] = callsPc[d] /\ job'[d] = job[d]
      /\ excused \subseteq excused' /\ excused' \subseteq excused \cup {job[c].call}
      /\ callsLog \subseteq callsLog' /\ Rows' \subseteq Rows \cup {row}
      /\ row \in Calls!Row /\ row.call = job[c].call /\ row.shadows \in {row.call, 0}
  BY DEF Moves
<1>2. job[c].call \in 1..calls /\ calls \in 0..MaxCalls
  BY <1>0, <1>1 DEF InCall, Calls!TypeOK
<1>3. job[c].call \in 1..MaxCalls
  BY <1>2, CallsConstants
<1>4. \A d \in Process : job'[d].call = job[d].call
  BY <1>1
<1>5. \A d \in Process : callsPc'[d] # "idle" => callsPc[d] # "idle"
  BY <1>1
<1>6. CallsTyped'
  <2>1. InCall'
    BY <1>0, <1>1, <1>4, <1>5 DEF InCall
  <2>2. callsLog' \subseteq Calls!Row /\ orphans' \subseteq Calls!Row
    BY <1>0, <1>1 DEF Rows, Calls!TypeOK
  <2>3. excused' \subseteq 1..MaxCalls
    BY <1>0, <1>1, <1>3 DEF Calls!TypeOK
  <2>4. over' \subseteq [call : 1..MaxCalls, acted : Calls!Acted]
    <3>1. job[c].acted \in Calls!Acted
      BY <1>0 DEF Calls!TypeOK, Calls!Job
    <3>2. [call |-> job[c].call, acted |-> job[c].acted] \in [call : 1..MaxCalls, acted : Calls!Acted]
      BY <1>3, <3>1
    <3> QED  BY <1>0, <3>2 DEF Over, Calls!TypeOK
  <2>5. Calls!TypeOK'
    BY <1>0, <2>2, <2>3, <2>4 DEF Moves, Calls!TypeOK, CallSteps
  <2> QED  BY <2>1, <2>5 DEF CallsTyped
<1>7. Apart'
  <2> SUFFICES ASSUME NEW d \in Process, NEW e \in Process, d # e,
                      callsPc'[d] # "idle", callsPc'[e] # "idle"
               PROVE  job'[d].call # job'[e].call
    BY Zenon DEF Apart
  <2> QED  BY <1>0, <1>4, <1>5 DEF Apart
<1>8. RowsOwn'
  BY <1>0, <1>1, <1>2 DEF RowsOwn
<1>9. Undecided'
  <2> SUFFICES ASSUME NEW d \in Process, NEW r \in Rows', Early(callsPc'[d]), Decisive(r),
                      r.call = job'[d].call
               PROVE  r.call \in excused'
    BY Zenon DEF Undecided
  <2>1. Early(callsPc[d])
    BY <1>1 DEF Moves
  <2>2. CASE r \in Rows
    BY <1>0, <1>1, <1>4, <2>1, <2>2 DEF Undecided
  <2>3. CASE r = row
    <3>1. d = c
      BY <1>0, <1>1, <1>4, <2>1, <2>3 DEF Apart, Early
    <3> QED  BY <1>1, <2>3, <3>1 DEF Moves
  <2> QED  BY <1>1, <2>2, <2>3
<1>10. OneDecides'
  <2> SUFFICES ASSUME NEW v \in Rows', NEW a \in Rows', v.by = "verifier", a.by = "auto",
                      v.call = a.call
               PROVE  v.call \in excused'
    BY Zenon DEF OneDecides
  <2>1. CASE v \in Rows /\ a \in Rows
    BY <1>0, <1>1, <2>1 DEF OneDecides
  <2>2. CASE v = row \/ a = row
    <3>1. Decisive(v) /\ Decisive(a) /\ Decisive(row)
      BY <2>2 DEF Decisive
    <3>2. v.call = job[c].call
      BY <1>1, <2>2
    <3>3. v \in Rows \/ a \in Rows
      BY <1>1, <2>2
    <3>4. Early(callsPc[c]) => v.call \in excused
      BY <1>0, <3>1, <3>2, <3>3 DEF Undecided
    <3>5. job[c].call \in excused' \/ Early(callsPc[c])
      BY <3>1 DEF Moves
    <3> QED  BY <1>1, <3>2, <3>4, <3>5
  <2> QED  BY <1>1, <2>1, <2>2
<1>11. \A n : \A acted : OnRecord(n, acted) => OnRecord(n, acted)'
  BY <1>1 DEF OnRecord
<1>12. Logged'
  <2> SUFFICES ASSUME config'.auto_record, NEW d \in Process, callsPc'[d] = "end"
               PROVE  OnRecord(job[d].call, job[d].acted)'
    BY Zenon DEF Logged
  <2>1. CASE d = c
    BY <1>1, <2>1 DEF Ends
  <2>2. CASE d # c
    <3>1. OnRecord(job[d].call, job[d].acted)
      BY <1>0, <1>1, <2>2 DEF Logged
    <3>2. job'[d] = job[d]
      BY <1>1, <2>2
    <3> QED  BY <1>1, <3>1, <3>2 DEF OnRecord
  <2> QED  BY <2>1, <2>2
<1>13. Calls!ActionIsOnRecord'
  <2> SUFFICES ASSUME config'.auto_record, NEW e \in over'
               PROVE  e.acted = "none" \/ OnRecord(e.call, e.acted)'
    BY Zenon DEF Calls!ActionIsOnRecord, OnRecord
  <2>1. CASE e \in over
    BY <1>0, <1>1, <2>1 DEF Calls!ActionIsOnRecord, OnRecord
  <2>2. CASE e \notin over
    <3>1. callsPc[c] = "end" /\ e = [call |-> job[c].call, acted |-> job[c].acted]
      BY <2>2 DEF Over
    <3>2. OnRecord(e.call, e.acted)
      BY <1>0, <1>1, <3>1 DEF Logged
    <3> QED  BY <1>1, <3>2 DEF OnRecord
  <2> QED  BY <2>1, <2>2
<1> QED  BY <1>6, <1>7, <1>8, <1>9, <1>10, <1>12, <1>13 DEF CallsInv

\* A new call has a number that nothing bears yet.
LEMMA BeginsInv ==
    ASSUME CallsInv, NEW c \in Process, NEW verb \in Verbs, Calls!Begin(c, verb)
    PROVE  CallsInv'
<1>0. /\ CallsTyped /\ Calls!TypeOK /\ InCall /\ Apart /\ RowsOwn /\ Undecided /\ OneDecides
      /\ Logged /\ Calls!ActionIsOnRecord
  BY DEF CallsInv, CallsTyped
<1>1. PICK to \in {"act", "judge"} : Calls!At(c, "idle", to)
  BY DEF Calls!Begin
<1>2. /\ callsPc[c] = "idle" /\ callsPc'[c] = to /\ callsPc' \in [Process -> CallSteps]
      /\ \A d \in Process \ {c} : callsPc'[d] = callsPc[d]
  BY <1>0, <1>1, CallsAt DEF CallSteps
<1>3. calls \in 0..MaxCalls /\ calls' = calls + 1 /\ calls' \in 1..MaxCalls
  BY <1>0, CallsConstants DEF Calls!Begin, Calls!TypeOK
<1>4. /\ job' \in [Process -> Calls!Job] /\ job'[c].call = calls + 1
      /\ \A d \in Process \ {c} : job'[d] = job[d]
  <2>1. [call |-> calls + 1, verb |-> verb, acted |-> "none"] \in Calls!Job
    BY <1>3, CallsConstants DEF Calls!Job, Calls!Acted
  <2>2. job' = [job EXCEPT ![c] = [call |-> calls + 1, verb |-> verb, acted |-> "none"]]
    BY DEF Calls!Begin
  <2> QED  BY <1>0, <2>1, <2>2 DEF Calls!TypeOK
<1>5. UNCHANGED <<config, callsLog, orphans, callsFaults, excused, over>> /\ Rows' = Rows
  BY DEF Calls!Begin, Rows
<1>6. Calls!TypeOK'
  <2>1. calls' \in 0..MaxCalls
    BY <1>3, CallsConstants
  <2> QED  BY <1>0, <1>2, <1>4, <1>5, <2>1 DEF Calls!TypeOK, CallSteps
<1>7. InCall'
  <2> SUFFICES ASSUME NEW d \in Process, callsPc'[d] # "idle"
               PROVE  job'[d].call \in 1..calls'
    BY Zenon DEF InCall
  <2>1. CASE d = c
    BY <1>3, <1>4, <2>1
  <2>2. CASE d # c
    <3>1. job[d].call \in 1..calls
      BY <1>0, <1>2, <2>2 DEF InCall
    <3> QED  BY <1>3, <1>4, <2>2, <3>1
  <2> QED  BY <2>1, <2>2
<1>8. \A d \in Process \ {c} : callsPc[d] # "idle" => job[d].call # calls + 1
  <2> SUFFICES ASSUME NEW d \in Process \ {c}, callsPc[d] # "idle"
               PROVE  job[d].call # calls + 1
    OBVIOUS
  <2>1. job[d].call \in 1..calls
    BY <1>0 DEF InCall
  <2> QED  BY <1>3, <2>1
<1>9. Apart'
  <2> SUFFICES ASSUME NEW d \in Process, NEW e \in Process, d # e,
                      callsPc'[d] # "idle", callsPc'[e] # "idle"
               PROVE  job'[d].call # job'[e].call
    BY Zenon DEF Apart
  <2>1. CASE d # c /\ e # c
    BY <1>0, <1>2, <1>4, <2>1 DEF Apart
  <2>2. CASE d = c \/ e = c
    BY <1>2, <1>4, <1>8, <2>2
  <2> QED  BY <2>1, <2>2
<1>10. RowsOwn'
  BY <1>0, <1>3, <1>5 DEF RowsOwn
<1>11. Undecided'
  <2> SUFFICES ASSUME NEW d \in Process, NEW r \in Rows, Early(callsPc'[d]), Decisive(r),
                      r.call = job'[d].call
               PROVE  r.call \in excused
    BY <1>5, Zenon DEF Undecided
  <2>1. r.call \in 1..calls
    BY <1>0 DEF RowsOwn
  <2>2. d # c
    BY <1>3, <1>4, <2>1
  <2> QED  BY <1>0, <1>2, <1>4, <2>2 DEF Undecided
<1>12. OneDecides'
  BY <1>0, <1>5 DEF OneDecides
<1>13. Logged'
  <2> SUFFICES ASSUME config'.auto_record, NEW d \in Process, callsPc'[d] = "end"
               PROVE  OnRecord(job[d].call, job[d].acted)'
    BY Zenon DEF Logged
  <2>1. d # c
    BY <1>2
  <2>2. OnRecord(job[d].call, job[d].acted) /\ job'[d] = job[d]
    BY <1>0, <1>2, <1>4, <1>5, <2>1 DEF Logged
  <2> QED  BY <1>5, <2>2 DEF OnRecord
<1>14. Calls!ActionIsOnRecord'
  BY <1>0, <1>5 DEF Calls!ActionIsOnRecord
<1> QED  BY <1>6, <1>7, <1>9, <1>10, <1>11, <1>12, <1>13, <1>14 DEF CallsInv, CallsTyped

\* A worker thread writes the row of a cancelled coroutine.
LEMMA OrphanInv ==
    ASSUME CallsInv, NEW row \in orphans, Calls!OrphanWrites(row)
    PROVE  CallsInv'
<1>1. /\ callsLog' = callsLog \cup {row} /\ orphans' = orphans \ {row}
      /\ UNCHANGED <<config, calls, callsFaults, excused, callsPc, job, over>>
  BY DEF Calls!OrphanWrites, Calls!past
<1>2. Rows' = Rows
  BY <1>1 DEF Rows
<1>3. CallsTyped' /\ Apart'
  BY <1>1 DEF CallsInv, CallsTyped, Calls!TypeOK, InCall, Apart
<1>4. RowsOwn' /\ Undecided' /\ OneDecides'
  BY <1>1, <1>2 DEF CallsInv, RowsOwn, Undecided, OneDecides
<1>5. Logged' /\ Calls!ActionIsOnRecord'
  BY <1>1 DEF CallsInv, Logged, OnRecord, Calls!ActionIsOnRecord
<1> QED  BY <1>3, <1>4, <1>5 DEF CallsInv

LEMMA CallsNextInv == CallsInv /\ [Calls!Next]_(Calls!vars) => CallsInv'
<1> SUFFICES ASSUME CallsInv, [Calls!Next]_(Calls!vars) PROVE CallsInv'
  OBVIOUS
<1>1. ASSUME NEW c \in Process, Calls!Step(c)
      PROVE  CallsInv'
  <2>1. CASE \E verb \in Verbs : Calls!Begin(c, verb)
    BY <2>1, BeginsInv
  <2>2. CASE ~(\E verb \in Verbs : Calls!Begin(c, verb))
    <3>1. (\E row \in Calls!Row : Moves(c, row)) /\ Ends(c) /\ Over(c)
      BY <1>1, <2>2, StepMoves DEF CallsInv
    <3> QED  BY <3>1, MovesInv
  <2> QED  BY <2>1, <2>2
<1>2. ASSUME NEW row \in orphans, Calls!OrphanWrites(row)
      PROVE  CallsInv'
  BY <1>2, OrphanInv
<1>3. CASE UNCHANGED Calls!vars
  <2>1. UNCHANGED <<config, calls, callsPc, job, callsLog, orphans, callsFaults, excused, over>>
    BY <1>3 DEF Calls!vars
  <2>2. Rows' = Rows
    BY <2>1 DEF Rows
  <2> QED  BY <2>1, <2>2 DEF CallsInv, CallsTyped, Calls!TypeOK, InCall, Apart, RowsOwn, Undecided,
                             OneDecides, Logged, OnRecord, Calls!ActionIsOnRecord
<1> QED  BY <1>1, <1>2, <1>3 DEF Calls!Next

\* However many calls overlap, fail or are cancelled: a row carries its own
\* call's observations, an action that ran is on record when its call is over,
\* and a verdict takes the place of the UNKNOWN row.
THEOREM ServedCallsRecorded ==
    Calls!Spec => []( /\ Calls!TypeOK /\ Calls!ShadowsAreOwn
                      /\ Calls!ActionIsOnRecord /\ Calls!VerdictSupersedes)
<1>1. CallsInv => /\ Calls!TypeOK /\ Calls!ShadowsAreOwn
                  /\ Calls!ActionIsOnRecord /\ Calls!VerdictSupersedes
  BY DEF CallsInv, CallsTyped, RowsOwn, OneDecides, Rows, Calls!ShadowsAreOwn,
         Calls!VerdictSupersedes
<1> QED  BY <1>1, CallsInitInv, CallsNextInv, PTL DEF Calls!Spec

-----------------------------------------------------------------------------
(***************************************************************************)
(* Positions in a finite set of labels: every position is some label's,    *)
(* and no two labels have the same.                                        *)
(***************************************************************************)
LEMMA HeadsConstants ==
    /\ Label \subseteq Nat /\ IsFiniteSet(Label) /\ 0 \notin Label
    /\ MinOutcomes \in Nat /\ MaxRows \in Nat /\ MaxFits \in Nat
<1>1. Heads!IsFiniteSet(Label) <=> IsFiniteSet(Label)
  BY Zenon DEF Heads!IsFiniteSet, IsFiniteSet
<1> QED  BY <1>1, PartsAssumption DEF PartsAssumption, Heads!HeadsAssumption

LEMMA HeadsCounts ==
    ASSUME NEW S
    PROVE  Heads!Cardinality(S) = Cardinality(S)
  BY Zenon DEF Heads!Cardinality, Cardinality

LEMMA Positions ==
    ASSUME NEW S \in SUBSET Label
    PROVE  /\ IsFiniteSet(S) /\ Cardinality(S) \in Nat
           /\ \A c \in S : Heads!Position(c, S) \in 1..Cardinality(S)
           /\ \A c, d \in S : Heads!Position(c, S) = Heads!Position(d, S) => c = d
<1> DEFINE Upto(c) == {d \in S : d <= c}
<1>1. IsFiniteSet(S) /\ Cardinality(S) \in Nat
  BY HeadsConstants, FS_Subset, FS_CardinalityType
<1>2. \A c \in S : Heads!Position(c, S) = Cardinality(Upto(c))
  BY HeadsCounts DEF Heads!Position
<1>3. ASSUME NEW c \in S
      PROVE  /\ IsFiniteSet(Upto(c)) /\ Cardinality(Upto(c)) \in Nat
             /\ Cardinality(Upto(c)) <= Cardinality(S) /\ Cardinality(Upto(c)) # 0
  <2>1. Upto(c) \in SUBSET S /\ c \in Upto(c)
    BY HeadsConstants
  <2> HIDE DEF Upto
  <2>2. IsFiniteSet(Upto(c)) /\ Cardinality(Upto(c)) <= Cardinality(S)
    BY <1>1, <2>1, FS_Subset
  <2>3. Cardinality(Upto(c)) \in Nat /\ Cardinality(Upto(c)) # 0
    BY <2>1, <2>2, FS_CardinalityType, FS_EmptySet
  <2> QED  BY <2>2, <2>3
<1>4. ASSUME NEW c \in S, NEW d \in S, c < d
      PROVE  Cardinality(Upto(c)) # Cardinality(Upto(d))
  <2>1. Upto(c) \in SUBSET Upto(d) /\ d \in Upto(d) /\ d \notin Upto(c)
    <3>1. S \subseteq Nat
      BY HeadsConstants
    <3>2. c \in Nat /\ d \in Nat /\ \A x \in S : x \in Nat
      BY <3>1
    <3>3. d <= d /\ ~(d <= c) /\ \A x \in S : x <= c => x <= d
      BY <1>4, <3>2
    <3> QED  BY <3>3
  <2>2. IsFiniteSet(Upto(d))
    BY <1>3
  <2> HIDE DEF Upto
  <2> QED  BY <2>1, <2>2, FS_Subset
<1>5. \A c, d \in S : c < d \/ d < c \/ c = d
  BY HeadsConstants
<1> HIDE DEF Upto
<1>6. \A c, d \in S : Cardinality(Upto(c)) = Cardinality(Upto(d)) => c = d
  BY <1>4, <1>5
<1>7. \A c \in S : Cardinality(Upto(c)) \in 1..Cardinality(S)
  BY <1>1, <1>3
<1> QED  BY <1>1, <1>2, <1>6, <1>7

LEMMA EveryPosition ==
    ASSUME NEW S \in SUBSET Label, NEW n \in 1..Cardinality(S)
    PROVE  \E c \in S : Heads!Position(c, S) = n
<1> DEFINE f == [c \in S |-> Heads!Position(c, S)]
           T == 1..Cardinality(S)
<1>1. /\ IsFiniteSet(S) /\ Cardinality(S) \in Nat
      /\ \A c \in S : Heads!Position(c, S) \in T
      /\ \A c, d \in S : Heads!Position(c, S) = Heads!Position(d, S) => c = d
  BY Positions
<1>2. IsFiniteSet(T) /\ Cardinality(T) = Cardinality(S)
  BY <1>1, FS_Interval
<1>3. f \in [S -> T] /\ \A c \in S : f[c] = Heads!Position(c, S)
  BY <1>1
<1> HIDE DEF f
<1>4. f \in Injection(S, T)
  BY <1>1, <1>3 DEF Injection, IsInjective
<1> HIDE DEF T
<1>5. f \in Surjection(S, T)
  BY <1>2, <1>4, FS_Injection
<1>6. \E c \in S : f[c] = n
  BY <1>5 DEF Surjection, T
<1> QED  BY <1>3, <1>6

\* list(classes)[n], and the class whose score is at n.
LEMMA NthIs ==
    ASSUME NEW S \in SUBSET Label, NEW n \in 1..Cardinality(S)
    PROVE  Heads!Nth(n, S) \in S /\ Heads!Position(Heads!Nth(n, S), S) = n
  BY EveryPosition, Zenon DEF Heads!Nth
LEMMA NthOfPosition ==
    ASSUME NEW S \in SUBSET Label, NEW c \in S
    PROVE  /\ Heads!Position(c, S) \in 1..Cardinality(S)
           /\ Heads!Nth(Heads!Position(c, S), S) = c
<1>1. Heads!Position(c, S) \in 1..Cardinality(S)
  BY Positions
<1> QED  BY <1>1, NthIs, Positions

(***************************************************************************)
(* A trained head (MLHeads).  A keeper that has put a model in place       *)
(* carries the rest of the same state, every state ever carried, saved or  *)
(* in place is one whole model of labels that were right, and a predict    *)
(* that nobody overtook still sees the model it asked.                     *)
(***************************************************************************)
Whole(s) == s.version = s.model.fit /\ (kind = "image" => s.classes = s.model.classes)
Known(s) == s.model.classes \subseteq learnable /\ s.classes \subseteq learnable
InPlace == [model |-> pipeline, classes |-> classes, version |-> version]
Installing(k) == task[k] \in {"classes", "version"}

HeadIsWhole ==
  /\ Whole(blob) /\ \A k \in Process : Whole(carried[k])
  /\ (\A k \in Process : ~Installing(k)) => Whole(InPlace)
  /\ \A k \in Process : Installing(k) => pipeline = carried[k].model
  /\ \A k \in Process : task[k] = "version" /\ kind = "image" => classes = carried[k].classes
HeadIsKnown ==
  /\ Known(blob) /\ Known(InPlace) /\ \A k \in Process : Known(carried[k])
HeadIsAsked ==
  \A t \in Predictor : quiet[t] =>
    /\ headsPc[t] \in {"type", "label", "score", "name"} =>
         pipeline # Heads!Untrained /\ \A k \in Process : task[k] # "classes"
    /\ headsPc[t] = "label" => Heads!Mono(pipeline)
    /\ headsPc[t] = "score" /\ kind # "image" => ~Heads!Mono(pipeline)
    /\ headsPc[t] = "name" =>
         own[t] \in pipeline.classes /\ index[t] = Heads!Position(own[t], pipeline.classes)
NothingOwned == \A t \in Predictor : headsPc[t] = "idle" => own[t] = Heads!None
HeadsInv ==
  /\ Heads!TypeOK /\ HeadIsWhole /\ HeadIsKnown /\ HeadIsAsked /\ NothingOwned
  /\ Heads!QuietAnswerIsOwn /\ Heads!NeverAnswersAMistake

LEMMA HeadsInitInv == Heads!Init => HeadsInv
<1> SUFFICES ASSUME Heads!Init PROVE HeadsInv
  OBVIOUS
<1> USE DEF Heads!Init
<1>1. /\ Heads!Untrained.fit = 0 /\ Heads!Untrained.classes = {}
      /\ Heads!Fresh.model = Heads!Untrained /\ Heads!Fresh.classes = {} /\ Heads!Fresh.version = 0
  BY DEF Heads!Untrained, Heads!Fresh
<1>2. 0 \in 0..MaxRows /\ 0 \in 0..MaxFits
  BY HeadsConstants
<1>3. Heads!Fresh \in Heads!State /\ InPlace = Heads!Fresh
  BY <1>2 DEF Heads!Fresh, Heads!State, InPlace
<1>4. Heads!TypeOK
  <2>1. quiet \in [Predictor -> BOOLEAN]
    BY Zenon
  <2>2. \A k, l \in Process :
          {task[k], task[l]} \subseteq {"model", "classes", "version"} => k = l
    OBVIOUS
  <2>3. carried \in [Process -> Heads!State] /\ blob \in Heads!State
        /\ [model |-> pipeline, classes |-> classes, version |-> version] \in Heads!State
    BY <1>3 DEF InPlace
  <2> QED  BY <1>2, <2>1, <2>2, <2>3 DEF Heads!TypeOK, Heads!None
<1>5. HeadIsWhole /\ HeadIsKnown
  BY <1>1, <1>3 DEF HeadIsWhole, HeadIsKnown, Whole, Known, Installing
<1>6. HeadIsAsked /\ NothingOwned /\ Heads!QuietAnswerIsOwn
  BY DEF HeadIsAsked, NothingOwned, Heads!QuietAnswerIsOwn
<1>7. Heads!NeverAnswersAMistake
  BY HeadsConstants DEF Heads!NeverAnswersAMistake, Heads!None
<1> QED  BY <1>4, <1>5, <1>6, <1>7 DEF HeadsInv

\* What the types say of the states of a head.
LEMMA HeadsStates ==
    ASSUME Heads!TypeOK
    PROVE  /\ InPlace \in Heads!State
           /\ InPlace.model = pipeline /\ InPlace.classes = classes /\ InPlace.version = version
           /\ pipeline \in Heads!Model \cup {Heads!Untrained}
           /\ pipeline.classes \in SUBSET Label /\ classes \in SUBSET Label /\ version \in 0..MaxFits
           /\ pipeline # Heads!Untrained => pipeline.classes # {}
           /\ \A k \in Process : carried[k] \in Heads!State
<1>1. InPlace \in Heads!State
  BY DEF Heads!TypeOK, InPlace
<1>2. InPlace.model = pipeline /\ InPlace.classes = classes /\ InPlace.version = version
  BY DEF InPlace
<1>3. /\ pipeline \in Heads!Model \cup {Heads!Untrained}
      /\ classes \in SUBSET Label /\ version \in 0..MaxFits
  BY <1>1, <1>2 DEF Heads!State
<1>4. pipeline.classes \in SUBSET Label /\ (pipeline # Heads!Untrained => pipeline.classes # {})
  <2>1. \A m \in Heads!Model : m.classes \in SUBSET Label /\ m.classes # {}
    <3>1. \A m \in Heads!Model : m.classes \in (SUBSET Label) \ {{}}
      BY DEF Heads!Model
    <3> QED  BY <3>1, Zenon
  <2>2. Heads!Untrained.classes \in SUBSET Label
    BY DEF Heads!Untrained
  <2> QED  BY <1>3, <2>1, <2>2
<1> QED  BY <1>1, <1>2, <1>3, <1>4 DEF Heads!TypeOK

\* Records of a state's form are states.
LEMMA HeadsState ==
    ASSUME NEW m \in Heads!Model \cup {Heads!Untrained}, NEW S \in SUBSET Label, NEW v \in 0..MaxFits
    PROVE  [model |-> m, classes |-> S, version |-> v] \in Heads!State
  BY DEF Heads!State

\* The label a head returns for a position is one of its own.
LEMMA NamedLabel ==
    ASSUME Heads!TypeOK, NEW t \in Predictor
    PROVE  /\ Heads!Names \in SUBSET Label
           /\ index[t] \in 1..Heads!Cardinality(Heads!Names) => Heads!Nth(index[t], Heads!Names) \in Heads!Names
<1>1. Heads!Names \in SUBSET Label
  BY HeadsStates DEF Heads!Names
<1> HIDE DEF Heads!Names
<1> QED  BY <1>1, NthIs, HeadsCounts
LEMMA OnlyLabel ==
    ASSUME Heads!TypeOK, Heads!Mono(pipeline)
    PROVE  Heads!Nth(1, pipeline.classes) \in pipeline.classes
<1>1. pipeline.classes \in SUBSET Label /\ Cardinality(pipeline.classes) = 1
  BY HeadsStates, HeadsCounts DEF Heads!Mono
<1>2. 1 \in 1..Cardinality(pipeline.classes)
  BY <1>1
<1> QED  BY <1>1, <1>2, NthIs

LEMMA HeadsNextTyped == HeadsInv /\ [Heads!Next]_(Heads!vars) => Heads!TypeOK'
<1> SUFFICES ASSUME HeadsInv, [Heads!Next]_(Heads!vars) PROVE Heads!TypeOK'
  OBVIOUS
<1> DEFINE Tasks == {"idle", "load", "model", "classes", "version", "put"}
           Reads == {"idle", "type", "label", "score", "name", "answered"}
           Holds(l) == l \in {"model", "classes", "version"}
<1>0. /\ kind \in Kinds /\ rows \in 0..MaxRows /\ learnable \subseteq Label /\ mistaken \subseteq Label
      /\ InPlace \in Heads!State /\ fits \in 0..MaxFits /\ blob \in Heads!State
      /\ task \in [Process -> Tasks] /\ carried \in [Process -> Heads!State]
      /\ headsPc \in [Predictor -> Reads] /\ index \in [Predictor -> Nat]
      /\ own \in [Predictor -> Label \cup {Heads!None}]
      /\ answer \in [Predictor -> Label \cup {Heads!None, Heads!Raised}]
      /\ quiet \in [Predictor -> BOOLEAN]
      /\ \A k, l \in Process : Holds(task[k]) /\ Holds(task[l]) => k = l
      /\ Heads!TypeOK
  BY DEF HeadsInv, Heads!TypeOK, InPlace
<1>00. ASSUME kind' \in Kinds, rows' \in 0..MaxRows, learnable' \subseteq Label, mistaken' \subseteq Label,
              InPlace' \in Heads!State, fits' \in 0..MaxFits, blob' \in Heads!State,
              task' \in [Process -> Tasks], carried' \in [Process -> Heads!State],
              headsPc' \in [Predictor -> Reads], index' \in [Predictor -> Nat],
              own' \in [Predictor -> Label \cup {Heads!None}],
              answer' \in [Predictor -> Label \cup {Heads!None, Heads!Raised}],
              quiet' \in [Predictor -> BOOLEAN],
              \A k, l \in Process : Holds(task'[k]) /\ Holds(task'[l]) => k = l
       PROVE  Heads!TypeOK'
  BY <1>00 DEF Heads!TypeOK, InPlace
<1>01. /\ InPlace.model = pipeline /\ InPlace.classes = classes /\ InPlace.version = version
       /\ pipeline \in Heads!Model \cup {Heads!Untrained} /\ classes \in SUBSET Label /\ version \in 0..MaxFits
       /\ \A s \in Heads!State : /\ s.model \in Heads!Model \cup {Heads!Untrained}
                                 /\ s.classes \in SUBSET Label /\ s.version \in 0..MaxFits
  BY <1>0, HeadsStates DEF Heads!State
<1>02. Heads!Fresh \in Heads!State
  BY HeadsConstants DEF Heads!Fresh, Heads!State
<1> HIDE DEF Tasks, Reads
<1> USE DEF Heads!log, Heads!head, Heads!keepers, Heads!predictors
\* A keeper's step to another task, within the lock or out of it.
<1>03. ASSUME NEW k \in Process, NEW l \in Tasks, task' = [task EXCEPT ![k] = l],
              Holds(l) => Holds(task[k]) \/ Heads!Unlocked
       PROVE  /\ task' \in [Process -> Tasks]
              /\ \A j, m \in Process : Holds(task'[j]) /\ Holds(task'[m]) => j = m
  <2>1. task' \in [Process -> Tasks] /\ task'[k] = l /\ \A j \in Process \ {k} : task'[j] = task[j]
    BY <1>0, <1>03
  <2>2. Heads!Unlocked => \A j \in Process : ~Holds(task[j])
    BY DEF Heads!Unlocked
  <2> HIDE DEF Holds
  <2> QED  BY <1>0, <1>03, <2>1, <2>2
<1>04. {"idle", "load", "model", "classes", "version", "put"} \subseteq Tasks
       /\ {"idle", "type", "label", "score", "name", "answered"} \subseteq Reads
  BY DEF Tasks, Reads
<1>1. CASE Heads!Log
  <2>1. rows' \in 0..MaxRows /\ learnable' \subseteq Label /\ mistaken' \subseteq Label
    <3>1. rows' \in 0..MaxRows
      BY <1>0, <1>1, HeadsConstants DEF Heads!Log
    <3>2. PICK l \in Label : \/ learnable' = learnable \cup {l} /\ UNCHANGED mistaken
                             \/ mistaken' = mistaken \cup {l} /\ UNCHANGED learnable
      BY <1>1 DEF Heads!Log
    <3> QED  BY <1>0, <3>1, <3>2
  <2>2. UNCHANGED <<kind, pipeline, classes, version, fits, blob, task, carried, headsPc, index,
                    own, answer, quiet>> /\ InPlace' = InPlace
    BY <1>1 DEF Heads!Log, InPlace
  <2> QED  BY <1>0, <1>00, <2>1, <2>2
<1>2. ASSUME NEW k \in Process, Heads!Fit(k)
      PROVE  Heads!TypeOK'
  <2> DEFINE m == [fit |-> fits + 1, classes |-> learnable]
             S == IF kind = "image" THEN learnable ELSE {}
             s == [model |-> m, classes |-> S, version |-> fits + 1]
  <2>1. fits' = fits + 1 /\ fits' \in 0..MaxFits /\ fits' \in 1..MaxFits
    BY <1>0, <1>2, HeadsConstants DEF Heads!Fit
  <2>2. learnable # {}
    BY <1>2 DEF Heads!Fit, Heads!Learns, Heads!Targets
  <2>3. m \in Heads!Model /\ S \in SUBSET Label
    <3>1. learnable \in (SUBSET Label) \ {{}}
      BY <1>0, <2>2, Zenon
    <3>2. S \in SUBSET Label
      BY <1>0
    <3>3. fits + 1 \in 1..MaxFits
      BY <2>1
    <3> QED  BY <3>1, <3>2, <3>3, Zenon DEF Heads!Model
  <2>4. s \in Heads!State
    <3> HIDE DEF m, S
    <3> QED  BY <2>1, <2>3, HeadsState
  <2>5. carried' = [carried EXCEPT ![k] = s] /\ task' = [task EXCEPT ![k] = "model"] /\ Heads!Unlocked
    BY <1>2 DEF Heads!Fit, Heads!Targets
  <2> HIDE DEF s
  <2>6. carried' \in [Process -> Heads!State]
    BY <1>0, <2>4, <2>5
  <2>7. UNCHANGED <<kind, rows, learnable, mistaken, pipeline, classes, version, blob, headsPc, index,
                    own, answer, quiet>> /\ InPlace' = InPlace
    BY <1>2 DEF Heads!Fit, InPlace
  <2>8. task' \in [Process -> Tasks] /\ \A j, l \in Process : Holds(task'[j]) /\ Holds(task'[l]) => j = l
    BY <1>03, <1>04, <2>5
  <2> QED  BY <1>0, <1>00, <2>1, <2>6, <2>7, <2>8
<1>3. ASSUME NEW k \in Process, Heads!ReadBlob(k) \/ Heads!TakeBytes(k)
      PROVE  Heads!TypeOK'
  <2>1. carried' = [carried EXCEPT ![k] = blob] \/ carried' = [carried EXCEPT ![k] = InPlace]
    BY <1>3 DEF Heads!ReadBlob, Heads!TakeBytes, InPlace
  <2>2. carried' \in [Process -> Heads!State]
    BY <1>0, <2>1
  <2>3. PICK l \in {"load", "put"} : task' = [task EXCEPT ![k] = l]
    BY <1>3 DEF Heads!ReadBlob, Heads!TakeBytes
  <2>4. task' \in [Process -> Tasks] /\ \A j, m \in Process : Holds(task'[j]) /\ Holds(task'[m]) => j = m
    BY <1>03, <1>04, <2>3
  <2>5. UNCHANGED <<kind, rows, learnable, mistaken, pipeline, classes, version, fits, blob, headsPc,
                    index, own, answer, quiet>> /\ InPlace' = InPlace
    BY <1>3 DEF Heads!ReadBlob, Heads!TakeBytes, InPlace
  <2> QED  BY <1>0, <1>00, <2>2, <2>4, <2>5
<1>4. ASSUME NEW k \in Process, Heads!Load(k)
      PROVE  Heads!TypeOK'
  <2>1. task' \in [Process -> Tasks] /\ \A j, m \in Process : Holds(task'[j]) /\ Holds(task'[m]) => j = m
    BY <1>03, <1>04, <1>4 DEF Heads!Load
  <2>2. UNCHANGED <<kind, rows, learnable, mistaken, pipeline, classes, version, fits, blob, carried,
                    headsPc, index, own, answer, quiet>> /\ InPlace' = InPlace
    BY <1>4 DEF Heads!Load, InPlace
  <2> QED  BY <1>0, <1>00, <2>1, <2>2
<1>5. ASSUME NEW k \in Process,
             Heads!InstallModel(k) \/ Heads!InstallClasses(k) \/ Heads!InstallVersion(k)
      PROVE  Heads!TypeOK'
  <2>1. carried[k] \in Heads!State
    BY <1>0
  <2>2. /\ pipeline' \in {pipeline, carried[k].model} /\ classes' \in {classes, carried[k].classes}
        /\ version' \in {version, carried[k].version}
    BY <1>5 DEF Heads!InstallModel, Heads!InstallClasses, Heads!InstallVersion
  <2>3. /\ pipeline' \in Heads!Model \cup {Heads!Untrained} /\ classes' \in SUBSET Label
        /\ version' \in 0..MaxFits
    BY <1>01, <2>1, <2>2
  <2>4. InPlace' \in Heads!State
    BY <2>3, HeadsState DEF InPlace
  <2>5. PICK l \in {"classes", "version", "idle"} : task' = [task EXCEPT ![k] = l]
    BY <1>5 DEF Heads!InstallModel, Heads!InstallClasses, Heads!InstallVersion
  <2>6. Holds(task[k])
    BY <1>5 DEF Heads!InstallModel, Heads!InstallClasses, Heads!InstallVersion
  <2>7. task' \in [Process -> Tasks] /\ \A j, m \in Process : Holds(task'[j]) /\ Holds(task'[m]) => j = m
    BY <1>03, <1>04, <2>5, <2>6
  <2>8. carried' \in [Process -> Heads!State]
    BY <1>0, <1>02, <1>5 DEF Heads!InstallModel, Heads!InstallClasses, Heads!InstallVersion
  <2>9. quiet' \in [Predictor -> BOOLEAN]
    <3>1. quiet' = quiet \/ quiet' = [t \in Predictor |-> FALSE]
      BY <1>5 DEF Heads!InstallModel, Heads!InstallClasses, Heads!InstallVersion
    <3> QED  BY <1>0, <3>1, Zenon
  <2>10. UNCHANGED <<kind, rows, learnable, mistaken, fits, blob, headsPc, index, own, answer>>
    BY <1>5 DEF Heads!InstallModel, Heads!InstallClasses, Heads!InstallVersion
  <2> QED  BY <1>0, <1>00, <2>4, <2>7, <2>8, <2>9, <2>10
<1>6. ASSUME NEW k \in Process, Heads!PutBytes(k)
      PROVE  Heads!TypeOK'
  <2>1. task' \in [Process -> Tasks] /\ \A j, m \in Process : Holds(task'[j]) /\ Holds(task'[m]) => j = m
    BY <1>03, <1>04, <1>6 DEF Heads!PutBytes
  <2>2. blob' \in Heads!State /\ carried' \in [Process -> Heads!State]
    BY <1>0, <1>02, <1>6 DEF Heads!PutBytes
  <2>3. UNCHANGED <<kind, rows, learnable, mistaken, pipeline, classes, version, fits,
                    headsPc, index, own, answer, quiet>> /\ InPlace' = InPlace
    BY <1>6 DEF Heads!PutBytes, InPlace
  <2> QED  BY <1>0, <1>00, <2>1, <2>2, <2>3
\* A predictor's step: the heads and their keepers stay as they are.
<1>07. ASSUME NEW t \in Predictor, NEW l \in Reads, headsPc' = [headsPc EXCEPT ![t] = l],
              UNCHANGED <<kind, rows, learnable, mistaken, pipeline, classes, version, fits, blob, task,
                          carried>>,
              index' \in [Predictor -> Nat], own' \in [Predictor -> Label \cup {Heads!None}],
              answer' \in [Predictor -> Label \cup {Heads!None, Heads!Raised}],
              quiet' \in [Predictor -> BOOLEAN]
       PROVE  Heads!TypeOK'
  <2>1. headsPc' \in [Predictor -> Reads] /\ InPlace' = InPlace
    BY <1>0, <1>07 DEF InPlace
  <2> QED  BY <1>0, <1>00, <1>07, <2>1
<1>7. ASSUME NEW t \in Predictor, Heads!Begin(t)
      PROVE  Heads!TypeOK'
  <2>1. PICK l \in {"answered", "score", "type"} : headsPc' = [headsPc EXCEPT ![t] = l]
    BY <1>7 DEF Heads!Begin, Heads!Answers, Heads!Goes
  <2>2. answer' \in [Predictor -> Label \cup {Heads!None, Heads!Raised}]
    BY <1>0, <1>7 DEF Heads!Begin, Heads!Answers, Heads!Goes
  <2>3. quiet' \in [Predictor -> BOOLEAN]
    BY <1>0, <1>7 DEF Heads!Begin
  <2>4. UNCHANGED <<kind, rows, learnable, mistaken, pipeline, classes, version, fits, blob, task,
                    carried, index, own>>
    BY <1>7 DEF Heads!Begin
  <2> QED  BY <1>0, <1>04, <1>07, <2>1, <2>2, <2>3, <2>4
<1>8. ASSUME NEW t \in Predictor, Heads!TestMono(t)
      PROVE  Heads!TypeOK'
  <2>1. PICK l \in {"label", "score"} : headsPc' = [headsPc EXCEPT ![t] = l]
    BY <1>8 DEF Heads!TestMono, Heads!Goes
  <2>2. UNCHANGED <<kind, rows, learnable, mistaken, pipeline, classes, version, fits, blob, task,
                    carried, index, own, answer, quiet>>
    BY <1>8 DEF Heads!TestMono, Heads!Goes
  <2> QED  BY <1>0, <1>04, <1>07, <2>1, <2>2
<1>9. ASSUME NEW t \in Predictor, Heads!ReadLabel(t)
      PROVE  Heads!TypeOK'
  <2>1. headsPc' = [headsPc EXCEPT ![t] = "answered"]
    BY <1>9 DEF Heads!ReadLabel, Heads!Answers
  <2>2. Heads!Mono(pipeline) => Heads!Nth(1, pipeline.classes) \in Label
    BY <1>0, OnlyLabel, HeadsStates
  <2>3. answer' \in [Predictor -> Label \cup {Heads!None, Heads!Raised}]
    BY <1>0, <1>9, <2>2 DEF Heads!ReadLabel, Heads!Answers
  <2>4. own' \in [Predictor -> Label \cup {Heads!None}]
    BY <1>0, <1>9, <2>2 DEF Heads!ReadLabel
  <2>5. UNCHANGED <<kind, rows, learnable, mistaken, pipeline, classes, version, fits, blob, task,
                    carried, index, quiet>>
    BY <1>9 DEF Heads!ReadLabel
  <2> QED  BY <1>0, <1>04, <1>07, <2>1, <2>3, <2>4, <2>5
<1>10. ASSUME NEW t \in Predictor, Heads!Score(t)
       PROVE  Heads!TypeOK'
  <2>1. PICK l \in {"answered", "name"} : headsPc' = [headsPc EXCEPT ![t] = l]
    BY <1>10 DEF Heads!Score, Heads!Answers, Heads!Goes
  <2>2. answer' \in [Predictor -> Label \cup {Heads!None, Heads!Raised}]
    BY <1>0, <1>10 DEF Heads!Score, Heads!Answers, Heads!Goes
  <2>3. \/ UNCHANGED <<index, own>>
        \/ \E c \in pipeline.classes :
             index' = [index EXCEPT ![t] = Heads!IndexOf(c)] /\ own' = [own EXCEPT ![t] = c]
    BY <1>10 DEF Heads!Score
  <2>4. \A c \in pipeline.classes : c \in Label /\ Heads!IndexOf(c) \in Nat
    <3>1. pipeline.classes \in SUBSET Label
      BY <1>0, HeadsStates
    <3>2. \A c \in pipeline.classes : Heads!Position(c, pipeline.classes) \in Nat
      <4>1. \A c \in pipeline.classes :
              Heads!Position(c, pipeline.classes) \in 1..Cardinality(pipeline.classes)
        BY <3>1, Positions
      <4>2. Cardinality(pipeline.classes) \in Nat
        BY <3>1, Positions
      <4> QED  BY <4>1, <4>2
    <3> QED  BY <3>1, <3>2 DEF Heads!IndexOf
  <2>5. index' \in [Predictor -> Nat] /\ own' \in [Predictor -> Label \cup {Heads!None}]
    BY <1>0, <2>3, <2>4
  <2>6. UNCHANGED <<kind, rows, learnable, mistaken, pipeline, classes, version, fits, blob, task,
                    carried, quiet>>
    BY <1>10 DEF Heads!Score
  <2> QED  BY <1>0, <1>04, <1>07, <2>1, <2>2, <2>5, <2>6
<1>11. ASSUME NEW t \in Predictor, Heads!NameAnswer(t)
       PROVE  Heads!TypeOK'
  <2>1. headsPc' = [headsPc EXCEPT ![t] = "answered"]
    BY <1>11 DEF Heads!NameAnswer, Heads!Answers
  <2>2. PICK a \in Label \cup {Heads!Raised} : answer' = [answer EXCEPT ![t] = a]
    BY <1>0, <1>11, NamedLabel DEF Heads!NameAnswer, Heads!Answers
  <2>3. answer' \in [Predictor -> Label \cup {Heads!None, Heads!Raised}]
    BY <1>0, <2>2
  <2>4. UNCHANGED <<kind, rows, learnable, mistaken, pipeline, classes, version, fits, blob, task,
                    carried, index, own, quiet>>
    BY <1>11 DEF Heads!NameAnswer
  <2> QED  BY <1>0, <1>04, <1>07, <2>1, <2>3, <2>4
<1>12. ASSUME NEW t \in Predictor, Heads!Return(t)
       PROVE  Heads!TypeOK'
  <2>1. headsPc' = [headsPc EXCEPT ![t] = "idle"]
    BY <1>12 DEF Heads!Return
  <2>2. index' \in [Predictor -> Nat] /\ own' \in [Predictor -> Label \cup {Heads!None}]
        /\ answer' \in [Predictor -> Label \cup {Heads!None, Heads!Raised}]
    BY <1>0, <1>12 DEF Heads!Return
  <2>3. UNCHANGED <<kind, rows, learnable, mistaken, pipeline, classes, version, fits, blob, task,
                    carried, quiet>>
    BY <1>12 DEF Heads!Return
  <2> QED  BY <1>0, <1>04, <1>07, <2>1, <2>2, <2>3
<1>13. CASE UNCHANGED Heads!vars
  BY <1>0, <1>13 DEF Heads!vars, Heads!TypeOK
<1> QED  BY <1>1, <1>2, <1>3, <1>4, <1>5, <1>6, <1>7, <1>8, <1>9, <1>10, <1>11, <1>12, <1>13
         DEF Heads!Next

\* A keeper's step that installs nothing keeps the head whole.
LEMMA HeadsNextWhole == HeadsInv /\ [Heads!Next]_(Heads!vars) => HeadIsWhole'
<1> SUFFICES ASSUME HeadsInv, [Heads!Next]_(Heads!vars) PROVE HeadIsWhole'
  OBVIOUS
<1> DEFINE Sound(s) == s.version = s.model.fit /\ (kind = "image" => s.classes = s.model.classes)
           Busy(l) == l \in {"classes", "version"}
           Holds(l) == l \in {"model", "classes", "version"}
<1>0. /\ Sound(blob) /\ \A k \in Process : Sound(carried[k])
      /\ (\A k \in Process : ~Busy(task[k])) => Sound(InPlace)
      /\ \A k \in Process : Busy(task[k]) => pipeline = carried[k].model
      /\ \A k \in Process : task[k] = "version" /\ kind = "image" => classes = carried[k].classes
  BY DEF HeadsInv, HeadIsWhole, Whole, Installing
<1>00. ASSUME kind' = kind, Sound(blob'), \A k \in Process : Sound(carried'[k]),
              (\A k \in Process : ~Busy(task'[k])) => Sound(InPlace'),
              \A k \in Process : Busy(task'[k]) => pipeline' = carried'[k].model,
              \A k \in Process : task'[k] = "version" /\ kind = "image" => classes' = carried'[k].classes
       PROVE  HeadIsWhole'
  BY <1>00 DEF HeadIsWhole, Whole, Installing
<1>01. /\ DOMAIN task = Process /\ DOMAIN carried = Process
       /\ \A k, l \in Process : Holds(task[k]) /\ Holds(task[l]) => k = l
  BY DEF HeadsInv, Heads!TypeOK
<1>02. Heads!Unlocked <=> \A k \in Process : ~Holds(task[k])
  BY DEF Heads!Unlocked
<1>03. Sound(Heads!Fresh)
  BY DEF Heads!Fresh, Heads!Untrained
<1>04. /\ InPlace.model = pipeline /\ InPlace.classes = classes /\ InPlace.version = version
       /\ InPlace'.model = pipeline' /\ InPlace'.classes = classes' /\ InPlace'.version = version'
  BY DEF InPlace
<1>05. \A l : Busy(l) => Holds(l)
  OBVIOUS
<1> HIDE DEF Sound
<1> USE DEF Heads!log, Heads!head, Heads!keepers, Heads!predictors
\* Nothing that keeper k does is an installation.
<1>06. ASSUME NEW k \in Process, ~Busy(task[k]), ~Busy(task'[k]), kind' = kind, InPlace' = InPlace,
              \A j \in Process \ {k} : task'[j] = task[j] /\ carried'[j] = carried[j],
              Sound(carried'[k]), Sound(blob')
       PROVE  HeadIsWhole'
  <2>1. pipeline' = pipeline /\ classes' = classes
    BY <1>04, <1>06
  <2>2. \A j \in Process : Busy(task'[j]) => j # k /\ Busy(task[j])
    BY <1>06
  <2>3. (\A j \in Process : ~Busy(task'[j])) => Sound(InPlace')
    BY <1>0, <1>06
  <2>4. \A j \in Process : Busy(task'[j]) => pipeline' = carried'[j].model
    BY <1>0, <1>06, <2>1, <2>2
  <2>5. \A j \in Process : task'[j] = "version" /\ kind = "image" => classes' = carried'[j].classes
    BY <1>0, <1>06, <2>1, <2>2
  <2>6. \A j \in Process : Sound(carried'[j])
    BY <1>0, <1>06
  <2> HIDE DEF Busy
  <2> QED  BY <1>00, <1>06, <2>3, <2>4, <2>5, <2>6
<1>1. CASE Heads!Log \/ (\E t \in Predictor :
             \/ Heads!Begin(t) \/ Heads!TestMono(t) \/ Heads!ReadLabel(t) \/ Heads!Score(t)
             \/ Heads!NameAnswer(t) \/ Heads!Return(t)) \/ UNCHANGED Heads!vars
  <2>1. UNCHANGED <<kind, pipeline, classes, version, blob, task, carried>>
    BY <1>1 DEF Heads!vars, Heads!Log, Heads!Begin, Heads!TestMono, Heads!ReadLabel, Heads!Score,
                Heads!NameAnswer, Heads!Return
  <2>2. HeadIsWhole
    BY DEF HeadsInv
  <2> QED  BY <2>1, <2>2 DEF HeadIsWhole, Whole, Installing, InPlace
<1>2. ASSUME NEW k \in Process, Heads!Fit(k)
      PROVE  HeadIsWhole'
  <2> DEFINE s == [model |-> [fit |-> fits + 1, classes |-> learnable],
                   classes |-> IF kind = "image" THEN learnable ELSE {}, version |-> fits + 1]
  <2>1. carried' = [carried EXCEPT ![k] = s] /\ task' = [task EXCEPT ![k] = "model"]
        /\ UNCHANGED <<kind, pipeline, classes, version, blob>> /\ Heads!Unlocked
    BY <1>2 DEF Heads!Fit, Heads!Targets
  <2>2. Sound(s)
    BY DEF Sound
  <2> HIDE DEF s
  <2>3. /\ ~Busy(task[k]) /\ ~Busy(task'[k])
        /\ \A j \in Process \ {k} : task'[j] = task[j] /\ carried'[j] = carried[j]
    BY <1>01, <1>02, <2>1
  <2>4. Sound(carried'[k]) /\ Sound(blob') /\ InPlace' = InPlace
    BY <1>0, <1>01, <2>1, <2>2 DEF InPlace
  <2> QED  BY <1>06, <2>1, <2>3, <2>4
<1>3. ASSUME NEW k \in Process, Heads!ReadBlob(k) \/ Heads!TakeBytes(k) \/ Heads!Load(k) \/ Heads!PutBytes(k)
      PROVE  HeadIsWhole'
  <2>1. /\ UNCHANGED <<kind, pipeline, classes, version>> /\ ~Busy(task[k]) /\ ~Busy(task'[k])
        /\ \A j \in Process \ {k} : task'[j] = task[j] /\ carried'[j] = carried[j]
    BY <1>01, <1>3 DEF Heads!ReadBlob, Heads!TakeBytes, Heads!Load, Heads!PutBytes
  <2>2. InPlace' = InPlace
    BY <2>1 DEF InPlace
  <2>3. Heads!TakeBytes(k) => Sound(InPlace)
    BY <1>0, <1>02, <1>05 DEF Heads!TakeBytes
  <2>4. \/ carried'[k] \in {blob, carried[k], Heads!Fresh}
        \/ Heads!TakeBytes(k) /\ carried'[k] = InPlace
    BY <1>01, <1>3 DEF Heads!ReadBlob, Heads!TakeBytes, Heads!Load, Heads!PutBytes, InPlace
  <2>5. blob' \in {blob, carried[k]}
    BY <1>3 DEF Heads!ReadBlob, Heads!TakeBytes, Heads!Load, Heads!PutBytes
  <2>6. Sound(carried'[k]) /\ Sound(blob')
    BY <1>0, <1>03, <2>3, <2>4, <2>5
  <2> QED  BY <1>06, <2>1, <2>2, <2>6
<1>4. ASSUME NEW k \in Process, Heads!InstallModel(k)
      PROVE  HeadIsWhole'
  <2>1. /\ task[k] = "model" /\ pipeline' = carried[k].model
        /\ task' = [task EXCEPT ![k] = IF kind = "image" THEN "classes" ELSE "version"]
        /\ UNCHANGED <<kind, classes, version, blob, carried>>
    BY <1>4 DEF Heads!InstallModel
  <2>2. \A j \in Process \ {k} : task'[j] = task[j] /\ ~Busy(task[j])
    BY <1>01, <1>05, <2>1
  <2>3. Busy(task'[k]) /\ (task'[k] = "version" => kind # "image")
    BY <1>01, <2>1
  <2>4. \A j \in Process : Busy(task'[j]) => j = k
    BY <2>2
  <2>5. \A j \in Process : Busy(task'[j]) => pipeline' = carried'[j].model
    BY <2>1, <2>4
  <2>6. \A j \in Process : task'[j] = "version" /\ kind = "image" => classes' = carried'[j].classes
    BY <2>3, <2>4
  <2>7. \A j \in Process : Sound(carried'[j])
    BY <1>0, <2>1
  <2> HIDE DEF Busy
  <2> QED  BY <1>0, <1>00, <2>1, <2>3, <2>5, <2>6, <2>7
<1>5. ASSUME NEW k \in Process, Heads!InstallClasses(k)
      PROVE  HeadIsWhole'
  <2>1. /\ task[k] = "classes" /\ classes' = carried[k].classes
        /\ task' = [task EXCEPT ![k] = "version"]
        /\ UNCHANGED <<kind, pipeline, version, blob, carried>>
    BY <1>5 DEF Heads!InstallClasses
  <2>2. \A j \in Process \ {k} : task'[j] = task[j] /\ ~Busy(task[j])
    BY <1>01, <1>05, <2>1
  <2>3. Busy(task'[k]) /\ Busy(task[k])
    BY <1>01, <2>1
  <2>4. \A j \in Process : Busy(task'[j]) => j = k
    BY <2>2
  <2>5. \A j \in Process : Busy(task'[j]) => pipeline' = carried'[j].model
    BY <1>0, <2>1, <2>3, <2>4
  <2>6. \A j \in Process : task'[j] = "version" /\ kind = "image" => classes' = carried'[j].classes
    BY <2>1, <2>4
  <2>7. \A j \in Process : Sound(carried'[j])
    BY <1>0, <2>1
  <2> HIDE DEF Busy
  <2> QED  BY <1>0, <1>00, <2>1, <2>3, <2>5, <2>6, <2>7
<1>6. ASSUME NEW k \in Process, Heads!InstallVersion(k)
      PROVE  HeadIsWhole'
  <2>1. /\ task[k] = "version" /\ version' = carried[k].version
        /\ task' = [task EXCEPT ![k] = "idle"] /\ carried' = [carried EXCEPT ![k] = Heads!Fresh]
        /\ UNCHANGED <<kind, pipeline, classes, blob>>
    BY <1>6 DEF Heads!InstallVersion
  <2>2. \A j \in Process \ {k} : task'[j] = task[j] /\ ~Busy(task[j]) /\ carried'[j] = carried[j]
    BY <1>01, <1>05, <2>1
  <2>3. \A j \in Process : ~Busy(task'[j])
    BY <1>01, <2>1, <2>2
  <2>4. Sound(InPlace')
    <3>1. InPlace'.model = carried[k].model /\ InPlace'.version = carried[k].version
          /\ (kind = "image" => InPlace'.classes = carried[k].classes)
      BY <1>0, <1>04, <2>1
    <3>2. Sound(carried[k])
      BY <1>0
    <3> QED  BY <3>1, <3>2 DEF Sound
  <2>5. \A j \in Process : Sound(carried'[j])
    <3>1. \A j \in Process : carried'[j] \in {carried[j], Heads!Fresh}
      BY <1>01, <2>1
    <3> QED  BY <1>0, <1>03, <3>1
  <2>6. \A j \in Process : task'[j] # "version"
    BY <2>3
  <2> HIDE DEF Busy
  <2> QED  BY <1>0, <1>00, <2>1, <2>3, <2>4, <2>5, <2>6
<1> QED  BY <1>1, <1>2, <1>3, <1>4, <1>5, <1>6 DEF Heads!Next

LEMMA HeadsNextKnown == HeadsInv /\ [Heads!Next]_(Heads!vars) => HeadIsKnown'
<1> SUFFICES ASSUME HeadsInv, [Heads!Next]_(Heads!vars) PROVE HeadIsKnown'
  OBVIOUS
<1> DEFINE Right(s) == s.model.classes \subseteq learnable /\ s.classes \subseteq learnable
<1>0. Right(blob) /\ Right(InPlace) /\ \A k \in Process : Right(carried[k])
  BY DEF HeadsInv, HeadIsKnown, Known
<1>01. DOMAIN carried = Process
  BY DEF HeadsInv, Heads!TypeOK
<1>02. Right(Heads!Fresh)
  BY DEF Heads!Fresh, Heads!Untrained
<1>03. /\ InPlace.model = pipeline /\ InPlace.classes = classes
       /\ InPlace'.model = pipeline' /\ InPlace'.classes = classes'
  BY DEF InPlace
<1> USE DEF Heads!log, Heads!head, Heads!keepers, Heads!predictors
<1>04. learnable \subseteq learnable'
  BY DEF Heads!Next, Heads!vars, Heads!Log, Heads!Fit, Heads!ReadBlob, Heads!Load, Heads!InstallModel,
         Heads!InstallClasses, Heads!InstallVersion, Heads!TakeBytes, Heads!PutBytes, Heads!Begin,
         Heads!TestMono, Heads!ReadLabel, Heads!Score, Heads!NameAnswer, Heads!Return
<1>00. ASSUME Right(blob'), Right(InPlace'), \A k \in Process : Right(carried'[k])
       PROVE  HeadIsKnown'
  <2>1. \A s : Right(s) => s.model.classes \subseteq learnable' /\ s.classes \subseteq learnable'
    BY <1>04
  <2> HIDE DEF Right
  <2>2. \A k \in Process : carried'[k].model.classes \subseteq learnable'
                           /\ carried'[k].classes \subseteq learnable'
    BY <1>00, <2>1
  <2>3. /\ blob'.model.classes \subseteq learnable' /\ blob'.classes \subseteq learnable'
        /\ InPlace'.model.classes \subseteq learnable' /\ InPlace'.classes \subseteq learnable'
    BY <1>00, <2>1
  <2> QED  BY <2>2, <2>3 DEF HeadIsKnown, Known
<1>1. CASE Heads!Log \/ (\E t \in Predictor :
             \/ Heads!Begin(t) \/ Heads!TestMono(t) \/ Heads!ReadLabel(t) \/ Heads!Score(t)
             \/ Heads!NameAnswer(t) \/ Heads!Return(t)) \/ UNCHANGED Heads!vars
  <2>1. UNCHANGED <<pipeline, classes, version, blob, carried>>
    BY <1>1 DEF Heads!vars, Heads!Log, Heads!Begin, Heads!TestMono, Heads!ReadLabel, Heads!Score,
                Heads!NameAnswer, Heads!Return
  <2>2. InPlace' = InPlace
    BY <2>1 DEF InPlace
  <2> HIDE DEF Right
  <2> QED  BY <1>0, <1>00, <2>1, <2>2
<1>2. ASSUME NEW k \in Process, Heads!Fit(k)
      PROVE  HeadIsKnown'
  <2> DEFINE s == [model |-> [fit |-> fits + 1, classes |-> learnable],
                   classes |-> IF kind = "image" THEN learnable ELSE {}, version |-> fits + 1]
  <2>1. carried' = [carried EXCEPT ![k] = s] /\ UNCHANGED <<pipeline, classes, version, blob>>
    BY <1>2 DEF Heads!Fit, Heads!Targets
  <2>2. Right(s)
    OBVIOUS
  <2> HIDE DEF s
  <2>3. InPlace' = InPlace
    BY <2>1 DEF InPlace
  <2>4. \A j \in Process : carried'[j] \in {carried[j], s}
    BY <1>01, <2>1
  <2> HIDE DEF Right
  <2> QED  BY <1>0, <1>00, <2>1, <2>2, <2>3, <2>4
<1>3. ASSUME NEW k \in Process,
             \/ Heads!ReadBlob(k) \/ Heads!TakeBytes(k) \/ Heads!Load(k) \/ Heads!PutBytes(k)
             \/ Heads!InstallModel(k) \/ Heads!InstallClasses(k) \/ Heads!InstallVersion(k)
      PROVE  HeadIsKnown'
  <2> USE DEF Heads!ReadBlob, Heads!TakeBytes, Heads!Load, Heads!PutBytes, Heads!InstallModel,
              Heads!InstallClasses, Heads!InstallVersion
  <2>1. \A j \in Process : carried'[j] \in {carried[j], blob, InPlace, Heads!Fresh}
    BY <1>01, <1>3 DEF InPlace
  <2>2. blob' \in {blob, carried[k]}
    BY <1>3
  <2>3. pipeline' \in {pipeline, carried[k].model} /\ classes' \in {classes, carried[k].classes}
    BY <1>3
  <2>4. Right(InPlace')
    BY <1>0, <1>03, <2>3
  <2> HIDE DEF Right
  <2> QED  BY <1>0, <1>00, <1>02, <2>1, <2>2, <2>4
<1> QED  BY <1>1, <1>2, <1>3 DEF Heads!Next

\* What a predict reads is still there unless something is installed.
LEMMA HeadsNextAsked == HeadsInv /\ [Heads!Next]_(Heads!vars) => HeadIsAsked' /\ NothingOwned'
<1> SUFFICES ASSUME HeadsInv, [Heads!Next]_(Heads!vars) PROVE HeadIsAsked' /\ NothingOwned'
  OBVIOUS
<1> DEFINE Settled == \A k \in Process : task[k] # "classes"
           Asked(p, i, o) ==
             /\ p \in {"type", "label", "score", "name"} => pipeline # Heads!Untrained /\ Settled
             /\ p = "label" => Heads!Mono(pipeline)
             /\ p = "score" /\ kind # "image" => ~Heads!Mono(pipeline)
             /\ p = "name" => o \in pipeline.classes /\ i = Heads!Position(o, pipeline.classes)
<1>0. /\ \A t \in Predictor : quiet[t] => Asked(headsPc[t], index[t], own[t])
      /\ \A t \in Predictor : headsPc[t] = "idle" => own[t] = Heads!None
  BY DEF HeadsInv, HeadIsAsked, NothingOwned
<1>01. /\ DOMAIN task = Process /\ DOMAIN headsPc = Predictor /\ DOMAIN index = Predictor
       /\ DOMAIN own = Predictor /\ DOMAIN quiet = Predictor
       /\ kind \in {"logreg", "svc", "image"}
  <2>1. kind \in Kinds /\ Kinds \subseteq {"logreg", "svc", "image"}
    BY PartsAssumption DEF PartsAssumption, Heads!HeadsAssumption, HeadsInv, Heads!TypeOK
  <2> QED  BY <2>1 DEF HeadsInv, Heads!TypeOK
<1>00. ASSUME pipeline' = pipeline, kind' = kind, Settled => Settled',
              \A t \in Predictor : quiet'[t] => Asked(headsPc'[t], index'[t], own'[t]),
              \A t \in Predictor : headsPc'[t] = "idle" => own'[t] = Heads!None
       PROVE  HeadIsAsked' /\ NothingOwned'
  <2>1. NothingOwned'
    BY <1>00 DEF NothingOwned
  <2>2. HeadIsAsked'
    BY <1>00 DEF HeadIsAsked
  <2> QED  BY <2>1, <2>2
<1> USE DEF Heads!log, Heads!head, Heads!keepers, Heads!predictors
<1>1. CASE Heads!Log \/ UNCHANGED Heads!vars \/ (\E k \in Process :
             \/ Heads!Fit(k) \/ Heads!ReadBlob(k) \/ Heads!Load(k) \/ Heads!TakeBytes(k)
             \/ Heads!PutBytes(k) \/ Heads!InstallVersion(k))
  <2>1. UNCHANGED <<kind, pipeline, headsPc, index, own, quiet>>
    BY <1>1 DEF Heads!Log, Heads!vars, Heads!Fit, Heads!ReadBlob, Heads!Load, Heads!TakeBytes,
                Heads!PutBytes, Heads!InstallVersion
  <2>2. Settled => Settled'
    BY <1>01, <1>1 DEF Heads!Log, Heads!vars, Heads!Fit, Heads!ReadBlob, Heads!Load,
                       Heads!TakeBytes, Heads!PutBytes, Heads!InstallVersion
  <2> HIDE DEF Settled, Asked
  <2> QED  BY <1>0, <1>00, <2>1, <2>2
<1>2. ASSUME NEW k \in Process, Heads!InstallModel(k) \/ Heads!InstallClasses(k)
      PROVE  HeadIsAsked' /\ NothingOwned'
  <2>1. UNCHANGED <<headsPc, own>> /\ quiet' = [t \in Predictor |-> FALSE]
    BY <1>2 DEF Heads!InstallModel, Heads!InstallClasses
  <2>2. \A t \in Predictor : ~quiet'[t]
    BY <2>1, Zenon
  <2> QED  BY <1>0, <2>1, <2>2 DEF HeadIsAsked, NothingOwned
\* A predictor's step.
<1>03. ASSUME NEW t \in Predictor, UNCHANGED <<kind, pipeline, task>>,
              quiet'[t] => Asked(headsPc'[t], index'[t], own'[t]),
              headsPc'[t] = "idle" => own'[t] = Heads!None,
              \A u \in Predictor \ {t} : /\ headsPc'[u] = headsPc[u] /\ index'[u] = index[u]
                                         /\ own'[u] = own[u] /\ quiet'[u] = quiet[u]
       PROVE  HeadIsAsked' /\ NothingOwned'
  <2>1. Settled => Settled'
    BY <1>03
  <2> HIDE DEF Settled, Asked
  <2>2. \A u \in Predictor : quiet'[u] => Asked(headsPc'[u], index'[u], own'[u])
    BY <1>0, <1>03
  <2>3. \A u \in Predictor : headsPc'[u] = "idle" => own'[u] = Heads!None
    BY <1>0, <1>03
  <2> QED  BY <1>00, <1>03, <2>1, <2>2, <2>3
<1>3. ASSUME NEW t \in Predictor, Heads!Begin(t)
      PROVE  HeadIsAsked' /\ NothingOwned'
  <2>1. /\ UNCHANGED <<kind, pipeline, task, index, own>>
        /\ \A u \in Predictor \ {t} : headsPc'[u] = headsPc[u] /\ quiet'[u] = quiet[u]
        /\ quiet'[t] = Settled
        /\ \/ headsPc'[t] = "answered"
           \/ pipeline # Heads!Untrained /\ headsPc'[t] = (IF kind = "image" THEN "score" ELSE "type")
    BY <1>01, <1>3 DEF Heads!Begin, Heads!Answers, Heads!Goes
  <2> QED  BY <1>03, <2>1
<1>4. ASSUME NEW t \in Predictor, Heads!TestMono(t)
      PROVE  HeadIsAsked' /\ NothingOwned'
  <2>1. /\ UNCHANGED <<kind, pipeline, task, index, own, quiet>> /\ headsPc[t] = "type"
        /\ headsPc'[t] = (IF Heads!Mono(pipeline) THEN "label" ELSE "score")
        /\ \A u \in Predictor \ {t} : headsPc'[u] = headsPc[u]
    BY <1>01, <1>4 DEF Heads!TestMono, Heads!Goes
  <2>2. quiet[t] => pipeline # Heads!Untrained /\ Settled
    BY <1>0, <2>1
  <2>3. Asked(headsPc'[t], index'[t], own'[t]) \/ ~quiet'[t]
    BY <2>1, <2>2
  <2> QED  BY <1>03, <2>1, <2>3
<1>5. ASSUME NEW t \in Predictor, Heads!ReadLabel(t)
      PROVE  HeadIsAsked' /\ NothingOwned'
  <2>1. /\ UNCHANGED <<kind, pipeline, task, index, quiet>> /\ headsPc'[t] = "answered"
        /\ \A u \in Predictor \ {t} : headsPc'[u] = headsPc[u] /\ own'[u] = own[u]
    BY <1>01, <1>5 DEF Heads!ReadLabel, Heads!Answers
  <2> QED  BY <1>03, <2>1
<1>6. ASSUME NEW t \in Predictor, Heads!Score(t)
      PROVE  HeadIsAsked' /\ NothingOwned'
  <2>1. /\ UNCHANGED <<kind, pipeline, task, quiet>> /\ headsPc[t] = "score"
        /\ \A u \in Predictor \ {t} : headsPc'[u] = headsPc[u] /\ own'[u] = own[u] /\ index'[u] = index[u]
        /\ \/ headsPc'[t] = "answered"
           \/ headsPc'[t] = "name" /\ \E c \in pipeline.classes :
                index'[t] = Heads!IndexOf(c) /\ own'[t] = c
    <3>1. UNCHANGED <<kind, pipeline, task, quiet>> /\ headsPc[t] = "score"
      BY <1>6 DEF Heads!Score
    <3>2. CASE pipeline = Heads!Untrained
      BY <1>01, <1>6, <3>1, <3>2 DEF Heads!Score, Heads!Answers
    <3>3. CASE pipeline # Heads!Untrained
      <4>1. /\ headsPc' = [headsPc EXCEPT ![t] = "name"]
            /\ \E c \in pipeline.classes :
                 index' = [index EXCEPT ![t] = Heads!IndexOf(c)] /\ own' = [own EXCEPT ![t] = c]
        BY <1>6, <3>3 DEF Heads!Score, Heads!Goes
      <4> QED  BY <1>01, <3>1, <4>1
    <3> QED  BY <3>2, <3>3
  <2>2. quiet[t] => /\ pipeline # Heads!Untrained /\ Settled
                    /\ kind # "image" => ~Heads!Mono(pipeline)
    BY <1>0, <2>1
  <2>3. quiet[t] => \A c : Heads!IndexOf(c) = Heads!Position(c, pipeline.classes)
    BY <2>2 DEF Heads!IndexOf
  <2>4. quiet'[t] => Asked(headsPc'[t], index'[t], own'[t])
    <3> HIDE DEF Settled
    <3> QED  BY <2>1, <2>2, <2>3
  <2>5. headsPc'[t] # "idle"
    BY <2>1
  <2> HIDE DEF Asked, Settled
  <2> QED  BY <1>03, <2>1, <2>4, <2>5
<1>7. ASSUME NEW t \in Predictor, Heads!NameAnswer(t)
      PROVE  HeadIsAsked' /\ NothingOwned'
  <2>1. /\ UNCHANGED <<kind, pipeline, task, index, own, quiet>> /\ headsPc'[t] = "answered"
        /\ \A u \in Predictor \ {t} : headsPc'[u] = headsPc[u]
    BY <1>01, <1>7 DEF Heads!NameAnswer, Heads!Answers
  <2> QED  BY <1>03, <2>1
<1>8. ASSUME NEW t \in Predictor, Heads!Return(t)
      PROVE  HeadIsAsked' /\ NothingOwned'
  <2>1. /\ UNCHANGED <<kind, pipeline, task, quiet>> /\ headsPc'[t] = "idle" /\ own'[t] = Heads!None
        /\ \A u \in Predictor \ {t} : headsPc'[u] = headsPc[u] /\ own'[u] = own[u] /\ index'[u] = index[u]
    BY <1>01, <1>8 DEF Heads!Return
  <2> QED  BY <1>03, <2>1
<1> QED  BY <1>1, <1>2, <1>3, <1>4, <1>5, <1>6, <1>7, <1>8 DEF Heads!Next

\* Every answer is a label that was right once, and the one that the model
\* asked gives unless something was installed meanwhile.
LEMMA HeadsNextRight ==
    HeadsInv /\ [Heads!Next]_(Heads!vars) => Heads!QuietAnswerIsOwn' /\ Heads!NeverAnswersAMistake'
<1> SUFFICES ASSUME HeadsInv, [Heads!Next]_(Heads!vars)
             PROVE  Heads!QuietAnswerIsOwn' /\ Heads!NeverAnswersAMistake'
  OBVIOUS
<1> DEFINE Right(a) == a \in Label => a \in learnable
           Own(p, q, a, o) == p = "answered" /\ q => a = o
<1>0. /\ \A t \in Predictor : Right(answer[t])
      /\ \A t \in Predictor : Own(headsPc[t], quiet[t], answer[t], own[t])
  BY DEF HeadsInv, Heads!QuietAnswerIsOwn, Heads!NeverAnswersAMistake
<1>01. /\ DOMAIN headsPc = Predictor /\ DOMAIN answer = Predictor /\ DOMAIN own = Predictor
       /\ DOMAIN quiet = Predictor /\ Heads!TypeOK
  BY DEF HeadsInv, Heads!TypeOK
<1>02. Heads!None \notin Label /\ Heads!Raised \notin Label
  BY HeadsConstants DEF Heads!None, Heads!Raised
<1>03. pipeline.classes \subseteq learnable /\ classes \subseteq learnable
  BY DEF HeadsInv, HeadIsKnown, Known, InPlace
<1>00. ASSUME learnable \subseteq learnable',
              \A t \in Predictor : Right(answer'[t]),
              \A t \in Predictor : Own(headsPc'[t], quiet'[t], answer'[t], own'[t])
       PROVE  Heads!QuietAnswerIsOwn' /\ Heads!NeverAnswersAMistake'
  <2>1. Heads!QuietAnswerIsOwn'
    BY <1>00 DEF Heads!QuietAnswerIsOwn
  <2>2. Heads!NeverAnswersAMistake'
    BY <1>00 DEF Heads!NeverAnswersAMistake
  <2> QED  BY <2>1, <2>2
<1> USE DEF Heads!log, Heads!head, Heads!keepers, Heads!predictors
<1>1. CASE Heads!Log \/ UNCHANGED Heads!vars \/ (\E k \in Process :
             \/ Heads!Fit(k) \/ Heads!ReadBlob(k) \/ Heads!Load(k) \/ Heads!TakeBytes(k)
             \/ Heads!PutBytes(k) \/ Heads!InstallVersion(k))
  <2>1. UNCHANGED <<headsPc, own, answer, quiet>> /\ learnable \subseteq learnable'
    BY <1>1 DEF Heads!Log, Heads!vars, Heads!Fit, Heads!ReadBlob, Heads!Load, Heads!TakeBytes,
                Heads!PutBytes, Heads!InstallVersion
  <2> HIDE DEF Right, Own
  <2> QED  BY <1>0, <1>00, <2>1
<1>2. ASSUME NEW k \in Process, Heads!InstallModel(k) \/ Heads!InstallClasses(k)
      PROVE  Heads!QuietAnswerIsOwn' /\ Heads!NeverAnswersAMistake'
  <2>1. UNCHANGED <<learnable, answer>> /\ quiet' = [t \in Predictor |-> FALSE]
    BY <1>2 DEF Heads!InstallModel, Heads!InstallClasses
  <2>2. \A t \in Predictor : ~quiet'[t]
    BY <2>1, Zenon
  <2> QED  BY <1>0, <1>00, <2>1, <2>2
\* A predictor's step.
<1>04. ASSUME NEW t \in Predictor, UNCHANGED learnable, Right(answer'[t]),
              Own(headsPc'[t], quiet'[t], answer'[t], own'[t]),
              \A u \in Predictor \ {t} : /\ headsPc'[u] = headsPc[u] /\ own'[u] = own[u]
                                         /\ answer'[u] = answer[u] /\ quiet'[u] = quiet[u]
       PROVE  Heads!QuietAnswerIsOwn' /\ Heads!NeverAnswersAMistake'
  <2> HIDE DEF Right, Own
  <2>1. \A u \in Predictor : Right(answer'[u])
    BY <1>0, <1>04
  <2>2. \A u \in Predictor : Own(headsPc'[u], quiet'[u], answer'[u], own'[u])
    BY <1>0, <1>04
  <2> QED  BY <1>00, <1>04, <2>1, <2>2
<1>3. ASSUME NEW t \in Predictor, Heads!Begin(t)
      PROVE  Heads!QuietAnswerIsOwn' /\ Heads!NeverAnswersAMistake'
  <2>1. /\ UNCHANGED <<learnable, own>> /\ headsPc[t] = "idle"
        /\ \A u \in Predictor \ {t} : /\ headsPc'[u] = headsPc[u] /\ quiet'[u] = quiet[u]
                                      /\ answer'[u] = answer[u]
        /\ \/ headsPc'[t] = "answered" /\ answer'[t] = Heads!None
           \/ headsPc'[t] # "answered" /\ answer'[t] = answer[t]
    <3>1. UNCHANGED <<learnable, own>> /\ headsPc[t] = "idle"
          /\ \A u \in Predictor \ {t} : quiet'[u] = quiet[u]
      BY <1>01, <1>3 DEF Heads!Begin
    <3>2. \/ headsPc' = [headsPc EXCEPT ![t] = "answered"] /\ answer' = [answer EXCEPT ![t] = Heads!None]
          \/ /\ headsPc' = [headsPc EXCEPT ![t] = IF kind = "image" THEN "score" ELSE "type"]
             /\ answer' = answer
      BY <1>3 DEF Heads!Begin, Heads!Answers, Heads!Goes
    <3> QED  BY <1>01, <3>1, <3>2
  <2>2. own[t] = Heads!None
    BY <2>1 DEF HeadsInv, NothingOwned
  <2>3. Right(answer'[t]) /\ Own(headsPc'[t], quiet'[t], answer'[t], own'[t])
    BY <1>0, <1>02, <2>1, <2>2
  <2> HIDE DEF Right, Own
  <2> QED  BY <1>04, <2>1, <2>3
<1>4. ASSUME NEW t \in Predictor, Heads!TestMono(t)
      PROVE  Heads!QuietAnswerIsOwn' /\ Heads!NeverAnswersAMistake'
  <2>1. /\ UNCHANGED <<learnable, own, answer, quiet>> /\ headsPc'[t] # "answered"
        /\ \A u \in Predictor \ {t} : headsPc'[u] = headsPc[u]
    BY <1>01, <1>4 DEF Heads!TestMono, Heads!Goes
  <2>2. Right(answer'[t]) /\ Own(headsPc'[t], quiet'[t], answer'[t], own'[t])
    BY <1>0, <2>1
  <2> HIDE DEF Right, Own
  <2> QED  BY <1>04, <2>1, <2>2
<1>5. ASSUME NEW t \in Predictor, Heads!ReadLabel(t)
      PROVE  Heads!QuietAnswerIsOwn' /\ Heads!NeverAnswersAMistake'
  <2> DEFINE n == Heads!Nth(1, pipeline.classes)
  <2> HIDE DEF n
  <2>1. /\ UNCHANGED <<learnable, quiet>> /\ headsPc[t] = "label"
        /\ answer' = [answer EXCEPT ![t] = IF Heads!Mono(pipeline) THEN n ELSE Heads!Raised]
        /\ own' = [own EXCEPT ![t] = IF Heads!Mono(pipeline) THEN n ELSE @]
        /\ headsPc' = [headsPc EXCEPT ![t] = "answered"]
    BY <1>5 DEF Heads!ReadLabel, Heads!Answers, n
  <2>2. quiet[t] => Heads!Mono(pipeline)
    BY <2>1 DEF HeadsInv, HeadIsAsked
  <2>3. Heads!Mono(pipeline) => n \in learnable
    BY <1>01, <1>03, OnlyLabel DEF n
  <2>4. answer'[t] = (IF Heads!Mono(pipeline) THEN n ELSE Heads!Raised)
        /\ own'[t] = (IF Heads!Mono(pipeline) THEN n ELSE own[t])
        /\ \A u \in Predictor \ {t} : headsPc'[u] = headsPc[u] /\ answer'[u] = answer[u] /\ own'[u] = own[u]
    BY <1>01, <2>1
  <2>5. Right(answer'[t]) /\ Own(headsPc'[t], quiet'[t], answer'[t], own'[t])
    BY <1>02, <2>1, <2>2, <2>3, <2>4
  <2> HIDE DEF Right, Own
  <2> QED  BY <1>04, <2>1, <2>4, <2>5
<1>6. ASSUME NEW t \in Predictor, Heads!Score(t)
      PROVE  Heads!QuietAnswerIsOwn' /\ Heads!NeverAnswersAMistake'
  <2>1. UNCHANGED <<learnable, quiet>> /\ headsPc[t] = "score"
    BY <1>6 DEF Heads!Score
  <2>2. quiet[t] => pipeline # Heads!Untrained
    BY <2>1 DEF HeadsInv, HeadIsAsked
  <2>3. /\ \A u \in Predictor \ {t} : headsPc'[u] = headsPc[u] /\ own'[u] = own[u] /\ answer'[u] = answer[u]
        /\ Right(answer'[t]) /\ Own(headsPc'[t], quiet'[t], answer'[t], own'[t])
    <3>1. CASE pipeline = Heads!Untrained
      <4>1. headsPc' = [headsPc EXCEPT ![t] = "answered"] /\ own' = own
            /\ answer' = [answer EXCEPT ![t] = Heads!Raised]
        BY <1>6, <3>1 DEF Heads!Score, Heads!Answers
      <4>2. ~quiet'[t]
        BY <2>1, <2>2, <3>1
      <4>3. answer'[t] = Heads!Raised
        BY <1>01, <4>1
      <4>4. Right(answer'[t]) /\ Own(headsPc'[t], quiet'[t], answer'[t], own'[t])
        BY <1>02, <4>2, <4>3
      <4> QED  BY <1>01, <4>1, <4>4
    <3>2. CASE pipeline # Heads!Untrained
      <4>1. headsPc' = [headsPc EXCEPT ![t] = "name"] /\ answer' = answer
        BY <1>6, <3>2 DEF Heads!Score, Heads!Goes
      <4>2. \E c : own' = [own EXCEPT ![t] = c]
        BY <1>6, <3>2 DEF Heads!Score
      <4>3. Right(answer'[t]) /\ Own(headsPc'[t], quiet'[t], answer'[t], own'[t])
        BY <1>0, <1>01, <4>1
      <4> QED  BY <1>01, <4>1, <4>2, <4>3
    <3> QED  BY <3>1, <3>2
  <2> HIDE DEF Right, Own
  <2> QED  BY <1>04, <2>1, <2>3
<1>7. ASSUME NEW t \in Predictor, Heads!NameAnswer(t)
      PROVE  Heads!QuietAnswerIsOwn' /\ Heads!NeverAnswersAMistake'
  <2> DEFINE n == Heads!Nth(index[t], Heads!Names)
             In == index[t] \in 1..Heads!Cardinality(Heads!Names)
  <2> HIDE DEF n, In
  <2>1. /\ UNCHANGED <<learnable, own, quiet>> /\ headsPc[t] = "name"
        /\ headsPc' = [headsPc EXCEPT ![t] = "answered"]
        /\ answer' = [answer EXCEPT ![t] = IF In THEN n ELSE Heads!Raised]
    BY <1>7 DEF Heads!NameAnswer, Heads!Answers, n, In
  <2>2. answer'[t] = (IF In THEN n ELSE Heads!Raised)
        /\ \A u \in Predictor \ {t} : headsPc'[u] = headsPc[u] /\ answer'[u] = answer[u]
    BY <1>01, <2>1
  <2>3. In => n \in learnable
    <3>1. In => n \in Heads!Names
      BY <1>01, NamedLabel DEF n, In
    <3>2. Heads!Names \subseteq learnable
      BY <1>03 DEF Heads!Names
    <3> QED  BY <3>1, <3>2
  <2>4. quiet[t] => In /\ n = own[t]
    <3>1. SUFFICES ASSUME quiet[t] PROVE In /\ n = own[t]
      OBVIOUS
    <3>2. /\ own[t] \in pipeline.classes /\ index[t] = Heads!Position(own[t], pipeline.classes)
          /\ \A k \in Process : task[k] # "classes"
      BY <2>1, <3>1 DEF HeadsInv, HeadIsAsked
    <3>3. kind = "image" => classes = pipeline.classes
      <4>1. SUFFICES ASSUME kind = "image" PROVE classes = pipeline.classes
        OBVIOUS
      <4>2. CASE \A k \in Process : ~Installing(k)
        BY <4>1, <4>2 DEF HeadsInv, HeadIsWhole, Whole, InPlace
      <4>3. ASSUME NEW k \in Process, Installing(k) PROVE classes = pipeline.classes
        <5>1. task[k] = "version"
          BY <3>2, <4>3 DEF Installing
        <5> QED  BY <4>1, <4>3, <5>1 DEF HeadsInv, HeadIsWhole, Whole
      <4> QED  BY <4>2, <4>3
    <3>4. Heads!Names = pipeline.classes /\ pipeline.classes \in SUBSET Label
      BY <1>01, <3>3, HeadsStates DEF Heads!Names
    <3>5. /\ Heads!Position(own[t], pipeline.classes) \in 1..Cardinality(pipeline.classes)
          /\ Heads!Nth(Heads!Position(own[t], pipeline.classes), pipeline.classes) = own[t]
      BY <3>2, <3>4, NthOfPosition
    <3>6. n = own[t]
      BY <3>2, <3>4, <3>5 DEF n
    <3>7. In
      BY <3>2, <3>4, <3>5, HeadsCounts DEF In
    <3> QED  BY <3>6, <3>7
  <2>5. Right(answer'[t]) /\ Own(headsPc'[t], quiet'[t], answer'[t], own'[t])
    BY <1>02, <2>1, <2>2, <2>3, <2>4
  <2> HIDE DEF Right, Own
  <2> QED  BY <1>04, <2>1, <2>2, <2>5
<1>8. ASSUME NEW t \in Predictor, Heads!Return(t)
      PROVE  Heads!QuietAnswerIsOwn' /\ Heads!NeverAnswersAMistake'
  <2>1. /\ UNCHANGED <<learnable, quiet>> /\ headsPc'[t] = "idle" /\ answer'[t] = Heads!None
        /\ \A u \in Predictor \ {t} : headsPc'[u] = headsPc[u] /\ own'[u] = own[u] /\ answer'[u] = answer[u]
    BY <1>01, <1>8 DEF Heads!Return
  <2>2. Right(answer'[t]) /\ Own(headsPc'[t], quiet'[t], answer'[t], own'[t])
    BY <1>02, <2>1
  <2> HIDE DEF Right, Own
  <2> QED  BY <1>04, <2>1, <2>2
<1> QED  BY <1>1, <1>2, <1>3, <1>4, <1>5, <1>6, <1>7, <1>8 DEF Heads!Next

\* A head that nobody is installing answers as the model it asked, no head
\* ever answers a label that was never right, and a checkpoint is one whole
\* model (ml.py 145-207, 414-466).
THEOREM HeadAnswersAsOne ==
    Heads!Spec => [](/\ Heads!TypeOK /\ Heads!QuietAnswerIsOwn /\ Heads!NeverAnswersAMistake
                     /\ Heads!CheckpointIsWhole)
<1>1. HeadsInv /\ [Heads!Next]_(Heads!vars) => HeadsInv'
  BY HeadsNextTyped, HeadsNextWhole, HeadsNextKnown, HeadsNextAsked, HeadsNextRight DEF HeadsInv
<1>2. HeadsInv => /\ Heads!TypeOK /\ Heads!QuietAnswerIsOwn /\ Heads!NeverAnswersAMistake
                  /\ Heads!CheckpointIsWhole
  <2>1. Heads!Unlocked => \A k \in Process : ~Installing(k)
    BY DEF Heads!Unlocked, Installing
  <2>2. HeadIsWhole => Heads!CheckpointIsWhole
    BY <2>1 DEF HeadIsWhole, Heads!CheckpointIsWhole, Whole, InPlace
  <2> QED  BY <2>2 DEF HeadsInv
<1> QED  BY <1>1, <1>2, HeadsInitInv, PTL DEF Heads!Spec

-----------------------------------------------------------------------------
(***************************************************************************)
(* Insights on disk (Insights).  Until an append or a second flush gets    *)
(* under a flush, or a flush dies past its post, what the collector has    *)
(* and what is still to be sent are the events 1, 2, ... in order: to be   *)
(* sent is the queue, and past its post what the one flush under way read  *)
(* beyond its batch.                                                       *)
(***************************************************************************)
LEMMA CloudConstants ==
    /\ BatchSize \in Nat \ {0} /\ MaxEvents \in Nat
    /\ MaxPosts \in Nat /\ MaxKills \in Nat /\ MaxPublished \in Nat \ {0}
  BY PartsAssumption DEF PartsAssumption, Cloud!InsightsAssumption

Successive(s, c) == \A i \in 1..Len(s) : s[i] = c + i
Pending(p) ==
  /\ Len(collected) + Len(p) = events
  /\ Successive(p, Len(collected))
PastPost == {t \in Process : cloudPc[t] \in {"rewrite", "tail"}}

CloudTyped ==
  /\ Cloud!TypeOK
  /\ cloudLinked \in [Process -> BOOLEAN]
  /\ \A t \in Process : doc[t] \in 0..published
  /\ cache.file = "whole" => cache.version \in 0..published
OneFlush == \A t, u \in Cloud!Flushing : t = u
FlushedAsRead ==
  /\ \A t \in Process : cloudPc[t] \in {"post", "rewrite"} => got[t] = queue
  /\ \A t \in Process : cloudPc[t] = "tail" => queue = <<>>
InOrder ==
  /\ Successive(collected, 0)
  /\ PastPost = {} => Pending(queue)
  /\ \A t \in PastPost : Pending(Cloud!Rest(t))
CloudInv == CloudTyped /\ (~raced /\ ~cloudCut => OneFlush /\ FlushedAsRead /\ InOrder)

LEMMA CloudInitInv == Cloud!Init => CloudInv
<1> SUFFICES ASSUME Cloud!Init PROVE CloudInv
  OBVIOUS
<1> USE DEF Cloud!Init
<1>1. Len(<<>>) = 0 /\ <<>> \in Seq(Cloud!Event)
  OBVIOUS
<1>2. 0 \in 0..MaxEvents /\ 0 \in 0..MaxPosts /\ 0 \in 0..MaxKills /\ 0 \in 0..MaxPublished
      /\ 1 \in 1..MaxPublished /\ 0 \in 0..(MaxPublished + 1) /\ 0 \in 0..1
  BY CloudConstants
<1>3. CloudTyped
  <2>1. cloudLinked \in [Process -> BOOLEAN]
    BY Zenon
  <2>2. \A t \in Process : doc[t] \in 0..published
    BY <1>2 DEF Cloud!BakedIn
  <2>3. doc \in [Process -> 0..MaxPublished] /\ got \in [Process -> Seq(Cloud!Event)]
    BY <1>1, <1>2 DEF Cloud!BakedIn
  <2>4. cache \in [file : {"absent", "torn", "whole"}, version : 0..(MaxPublished + 1)]
        /\ cache.file # "whole"
    BY <1>2 DEF Cloud!BakedIn
  <2>5. cloudPc \in [Process -> {"idle", "enrol", "append", "post", "rewrite", "tail",
                                 "fetch", "cache", "document"}]
    OBVIOUS
  <2> QED  BY <1>1, <1>2, <2>1, <2>2, <2>3, <2>4, <2>5 DEF CloudTyped, Cloud!TypeOK
<1>4. OneFlush /\ FlushedAsRead /\ InOrder
  <2>1. PastPost = {} /\ Cloud!Flushing = {}
    BY DEF PastPost, Cloud!Flushing
  <2>2. Successive(<<>>, 0) /\ Pending(queue)
    BY <1>1 DEF Successive, Pending
  <2> QED  BY <2>1, <2>2 DEF OneFlush, FlushedAsRead, InOrder
<1> QED  BY <1>3, <1>4 DEF CloudInv

\* What a flush sends of the queue it read, and what it keeps.
LEMMA Parted ==
    ASSUME Cloud!TypeOK, NEW t \in Process
    PROVE  /\ Cloud!Batch(t) \in Seq(Cloud!Event) /\ Cloud!Rest(t) \in Seq(Cloud!Event)
           /\ got[t] \in Seq(Cloud!Event)
           /\ Len(Cloud!Batch(t)) + Len(Cloud!Rest(t)) = Len(got[t])
           /\ \A i \in 1..Len(Cloud!Batch(t)) : Cloud!Batch(t)[i] = got[t][i]
           /\ \A i \in 1..Len(Cloud!Rest(t)) :
                /\ Len(Cloud!Batch(t)) + i \in 1..Len(got[t])
                /\ Cloud!Rest(t)[i] = got[t][Len(Cloud!Batch(t)) + i]
<1> DEFINE g == got[t]
           n == IF Len(g) < BatchSize THEN Len(g) ELSE BatchSize
<1>1. g \in Seq(Cloud!Event)
  BY DEF Cloud!TypeOK
<1> HIDE DEF g
<1>2. Len(g) \in Nat /\ \A i \in 1..Len(g) : g[i] \in Cloud!Event
  BY <1>1
<1>3. n \in Nat /\ n <= Len(g) /\ BatchSize \in Nat
  BY <1>2, CloudConstants
<1>4. Cloud!Batch(t) = SubSeq(g, 1, n)
  BY DEF Cloud!Batch, g
<1>5. Cloud!Rest(t) = SubSeq(g, n + 1, Len(g))
  <2>1. CASE Len(g) < BatchSize
    <3>1. BatchSize + 1 \in Int /\ Len(g) \in Int /\ Len(g) < BatchSize + 1 /\ n + 1 \in Int /\ Len(g) < n + 1
      BY <1>2, <1>3, <2>1
    <3>2. SubSeq(g, BatchSize + 1, Len(g)) = <<>> /\ SubSeq(g, n + 1, Len(g)) = <<>>
      BY <3>1, SubSeqEmpty
    <3> QED  BY <3>2 DEF Cloud!Rest, g
  <2>2. CASE ~(Len(g) < BatchSize)
    BY <2>2 DEF Cloud!Rest, g
  <2> QED  BY <2>1, <2>2
<1> HIDE DEF n
<1>6. /\ SubSeq(g, 1, n) \in Seq(Cloud!Event) /\ Len(SubSeq(g, 1, n)) = n
      /\ \A i \in 1..n : SubSeq(g, 1, n)[i] = g[i]
  <2>1. \A i \in 1..n : g[i] \in Cloud!Event
    BY <1>2, <1>3
  <2>2. 1 \in Int /\ n \in Int
    BY <1>3
  <2>3. /\ SubSeq(g, 1, n) \in Seq(Cloud!Event)
        /\ Len(SubSeq(g, 1, n)) = IF 1 <= n THEN n - 1 + 1 ELSE 0
        /\ \A i \in 1..(n - 1 + 1) : SubSeq(g, 1, n)[i] = g[1 + i - 1]
    BY <2>1, <2>2, SubSeqProperties
  <2>4. Len(SubSeq(g, 1, n)) = n /\ n - 1 + 1 = n /\ \A i \in 1..n : 1 + i - 1 = i
    BY <1>3, <2>3
  <2> QED  BY <2>3, <2>4
<1>7. /\ SubSeq(g, n + 1, Len(g)) \in Seq(Cloud!Event) /\ Len(SubSeq(g, n + 1, Len(g))) = Len(g) - n
      /\ \A i \in 1..(Len(g) - n) : SubSeq(g, n + 1, Len(g))[i] = g[n + i]
  <2>1. \A i \in (n + 1)..Len(g) : g[i] \in Cloud!Event
    BY <1>2, <1>3
  <2>2. n + 1 \in Int /\ Len(g) \in Int
    BY <1>2, <1>3
  <2>3. /\ SubSeq(g, n + 1, Len(g)) \in Seq(Cloud!Event)
        /\ Len(SubSeq(g, n + 1, Len(g))) = IF n + 1 <= Len(g) THEN Len(g) - (n + 1) + 1 ELSE 0
        /\ \A i \in 1..(Len(g) - (n + 1) + 1) : SubSeq(g, n + 1, Len(g))[i] = g[n + 1 + i - 1]
    BY <2>1, <2>2, SubSeqProperties
  <2>4. /\ Len(SubSeq(g, n + 1, Len(g))) = Len(g) - n /\ Len(g) - (n + 1) + 1 = Len(g) - n
        /\ \A i \in 1..(Len(g) - n) : n + 1 + i - 1 = n + i
    BY <1>2, <1>3, <2>3
  <2> QED  BY <2>3, <2>4
<1>8. n + (Len(g) - n) = Len(g) /\ \A i \in 1..(Len(g) - n) : n + i \in 1..Len(g)
  BY <1>2, <1>3
<1> QED  BY <1>1, <1>4, <1>5, <1>6, <1>7, <1>8 DEF g

LEMMA CloudNextTyped == CloudTyped /\ [Cloud!Next]_(Cloud!vars) => CloudTyped'
<1> SUFFICES ASSUME CloudTyped, [Cloud!Next]_(Cloud!vars) PROVE CloudTyped'
  OBVIOUS
<1> DEFINE Pcs == {"idle", "enrol", "append", "post", "rewrite", "tail", "fetch", "cache", "document"}
           Files == [file : {"absent", "torn", "whole"}, version : 0..(MaxPublished + 1)]
           Seen(c, p) == c.file = "whole" => c.version \in 0..p
<1>0. /\ enrolment \in {"absent", "torn", "enrolled"}
      /\ queue \in Seq(Cloud!Event) /\ collected \in Seq(Cloud!Event)
      /\ cache \in Files /\ Seen(cache, published) /\ fresh \in BOOLEAN /\ published \in 1..MaxPublished
      /\ cloudPc \in [Process -> Pcs] /\ got \in [Process -> Seq(Cloud!Event)]
      /\ doc \in [Process -> 0..MaxPublished] /\ \A t \in Process : doc[t] \in 0..published
      /\ events \in 0..MaxEvents /\ posts \in 0..MaxPosts /\ kills \in 0..MaxKills
      /\ raced \in BOOLEAN /\ cloudCut \in BOOLEAN /\ cloudLinked \in [Process -> BOOLEAN]
      /\ Cloud!TypeOK
  BY DEF CloudTyped, Cloud!TypeOK
<1>00. ASSUME enrolment' \in {"absent", "torn", "enrolled"},
              queue' \in Seq(Cloud!Event), collected' \in Seq(Cloud!Event),
              cache' \in Files, Seen(cache', published'), fresh' \in BOOLEAN,
              published' \in 1..MaxPublished,
              cloudPc' \in [Process -> Pcs], got' \in [Process -> Seq(Cloud!Event)],
              doc' \in [Process -> 0..MaxPublished], \A t \in Process : doc'[t] \in 0..published',
              events' \in 0..MaxEvents, posts' \in 0..MaxPosts, kills' \in 0..MaxKills,
              raced' \in BOOLEAN, cloudCut' \in BOOLEAN, cloudLinked' \in [Process -> BOOLEAN]
       PROVE  CloudTyped'
  BY <1>00 DEF CloudTyped, Cloud!TypeOK
<1>01. ASSUME NEW t \in Process, NEW l, NEW m \in Pcs, Cloud!Go(t, l, m)
       PROVE  cloudPc' \in [Process -> Pcs]
  BY <1>0, <1>01 DEF Cloud!Go
<1>02. \A l \in {"idle", "enrol", "append", "post", "rewrite", "tail", "fetch", "cache", "document"} : l \in Pcs
  OBVIOUS
<1>03. ASSUME NEW t \in Process, NEW b \in BOOLEAN, cloudLinked' = [cloudLinked EXCEPT ![t] = b]
       PROVE  cloudLinked' \in [Process -> BOOLEAN]
  BY <1>0, <1>03
<1>04. ASSUME NEW l, cloudLinked' = [u \in Process |-> cloudLinked[u] /\ cloudPc[u] # l]
       PROVE  cloudLinked' \in [Process -> BOOLEAN]
  BY <1>04, Zenon
<1>05. ASSUME NEW t \in Process, Cloud!Forget(t)
       PROVE  got' \in [Process -> Seq(Cloud!Event)]
  BY <1>0, <1>05 DEF Cloud!Forget
<1>06. ASSUME NEW t \in Process, Cloud!Taken(t)
       PROVE  collected' \in Seq(Cloud!Event) /\ posts' \in 0..MaxPosts
  <2>1. Cloud!Batch(t) \in Seq(Cloud!Event)
    BY <1>0, Parted
  <2>2. posts' \in 0..MaxPosts
    BY <1>0, <1>06, CloudConstants DEF Cloud!Taken
  <2> QED  BY <1>0, <1>06, <2>1, <2>2 DEF Cloud!Taken
<1> HIDE DEF Pcs, Files, Seen
<1> USE DEF Cloud!home, Cloud!mail, Cloud!count
\* Enrolment.
<1>1. ASSUME NEW t \in Process, Cloud!Enrol(t) \/ Cloud!EnrolWritten(t) \/ Cloud!Leave(t)
      PROVE  CloudTyped'
  <2>1. cloudPc' \in [Process -> Pcs]
    BY <1>01, <1>02, <1>1 DEF Cloud!Enrol, Cloud!EnrolWritten, Cloud!Leave
  <2>2. cloudLinked' \in [Process -> BOOLEAN]
    <3>1. TRUE \in BOOLEAN /\ FALSE \in BOOLEAN
      OBVIOUS
    <3> QED  BY <1>03, <1>04, <1>1, <3>1, Zenon DEF Cloud!Enrol, Cloud!EnrolWritten, Cloud!Leave
  <2>3. enrolment' \in {"absent", "torn", "enrolled"}
    BY <1>0, <1>1 DEF Cloud!Enrol, Cloud!EnrolWritten, Cloud!Leave
  <2>4. UNCHANGED <<cache, fresh, published, doc, queue, collected, got, events, posts, kills, raced, cloudCut>>
    BY <1>1 DEF Cloud!Enrol, Cloud!EnrolWritten, Cloud!Leave
  <2> QED  BY <1>0, <1>00, <2>1, <2>2, <2>3, <2>4
\* The queue.
<1>2. ASSUME NEW t \in Process, Cloud!OpenQueue(t)
      PROVE  CloudTyped'
  <2>1. cloudPc' \in [Process -> Pcs]
    BY <1>01, <1>02, <1>2 DEF Cloud!OpenQueue
  <2>2. cloudLinked' \in [Process -> BOOLEAN]
    BY <1>03, <1>2 DEF Cloud!OpenQueue
  <2>3. UNCHANGED <<enrolment, cache, fresh, published, doc, queue, collected, got, events, posts, kills,
                    raced, cloudCut>>
    BY <1>2 DEF Cloud!OpenQueue
  <2> QED  BY <1>0, <1>00, <2>1, <2>2, <2>3
<1>3. ASSUME NEW t \in Process, Cloud!AppendEvent(t)
      PROVE  CloudTyped'
  <2>1. cloudPc' \in [Process -> Pcs]
    BY <1>01, <1>02, <1>3 DEF Cloud!AppendEvent
  <2>2. cloudLinked' \in [Process -> BOOLEAN]
    BY <1>03, <1>3 DEF Cloud!AppendEvent
  <2>3. events' \in 0..MaxEvents /\ events + 1 \in Cloud!Event
    BY <1>0, <1>3, CloudConstants DEF Cloud!AppendEvent, Cloud!Event
  <2>4. queue' \in Seq(Cloud!Event)
    BY <1>0, <1>3, <2>3 DEF Cloud!AppendEvent
  <2>5. raced' \in BOOLEAN
    BY <1>3, Zenon DEF Cloud!AppendEvent
  <2>6. UNCHANGED <<enrolment, cache, fresh, published, doc, collected, got, posts, kills, cloudCut>>
    BY <1>3 DEF Cloud!AppendEvent
  <2> QED  BY <1>0, <1>00, <2>1, <2>2, <2>3, <2>4, <2>5, <2>6
<1>4. ASSUME NEW t \in Process, Cloud!ReadQueue(t)
      PROVE  CloudTyped'
  <2>1. cloudPc' \in [Process -> Pcs]
    BY <1>01, <1>02, <1>4 DEF Cloud!ReadQueue
  <2>2. got' \in [Process -> Seq(Cloud!Event)]
    BY <1>0, <1>4 DEF Cloud!ReadQueue
  <2>3. raced' \in BOOLEAN
    BY <1>4, Zenon DEF Cloud!ReadQueue
  <2>4. UNCHANGED <<enrolment, cache, fresh, published, doc, queue, collected, cloudLinked, events, posts,
                    kills, cloudCut>>
    BY <1>4 DEF Cloud!ReadQueue
  <2> QED  BY <1>0, <1>00, <2>1, <2>2, <2>3, <2>4
<1>5. ASSUME NEW t \in Process, Cloud!Post(t)
      PROVE  CloudTyped'
  <2>1. cloudPc' \in [Process -> Pcs]
    BY <1>01, <1>02, <1>5 DEF Cloud!Post
  <2>2. collected' \in Seq(Cloud!Event) /\ posts' \in 0..MaxPosts
    BY <1>06, <1>5 DEF Cloud!Post
  <2>3. UNCHANGED <<enrolment, cache, fresh, published, doc, queue, cloudLinked, got, events, kills, raced,
                    cloudCut>>
    BY <1>5 DEF Cloud!Post
  <2> QED  BY <1>0, <1>00, <2>1, <2>2, <2>3
<1>6. ASSUME NEW t \in Process, Cloud!PostFails(t)
      PROVE  CloudTyped'
  <2>1. cloudPc' \in [Process -> Pcs]
    BY <1>01, <1>02, <1>6 DEF Cloud!PostFails
  <2>2. collected' \in Seq(Cloud!Event) /\ posts' \in 0..MaxPosts /\ cloudCut' \in BOOLEAN
    BY <1>0, <1>06, <1>6 DEF Cloud!PostFails
  <2>3. got' \in [Process -> Seq(Cloud!Event)]
    BY <1>05, <1>6 DEF Cloud!PostFails
  <2>4. UNCHANGED <<enrolment, cache, fresh, published, doc, queue, cloudLinked, events, kills, raced>>
    BY <1>6 DEF Cloud!PostFails
  <2> QED  BY <1>0, <1>00, <2>1, <2>2, <2>3, <2>4
<1>7. ASSUME NEW t \in Process, Cloud!Rewrite(t)
      PROVE  CloudTyped'
  <2>1. /\ UNCHANGED <<enrolment, cache, fresh, published, doc, collected, events, posts, kills, raced,
                       cloudCut>>
        /\ queue' = <<>>
        /\ \/ /\ Cloud!Go(t, "rewrite", "idle") /\ Cloud!Forget(t)
              /\ cloudLinked' = [u \in Process |-> cloudLinked[u] /\ cloudPc[u] # "append"]
           \/ Cloud!Go(t, "rewrite", "tail") /\ UNCHANGED <<cloudLinked, got>>
    BY <1>7 DEF Cloud!Rewrite
  <2>2. cloudPc' \in [Process -> Pcs]
    BY <1>01, <1>02, <2>1
  <2>3. got' \in [Process -> Seq(Cloud!Event)]
    BY <1>0, <1>05, <2>1
  <2>4. cloudLinked' \in [Process -> BOOLEAN]
    BY <1>0, <1>04, <2>1, Zenon
  <2> QED  BY <1>0, <1>00, <2>1, <2>2, <2>3, <2>4
<1>8. ASSUME NEW t \in Process, Cloud!WriteTail(t)
      PROVE  CloudTyped'
  <2>1. cloudPc' \in [Process -> Pcs]
    BY <1>01, <1>02, <1>8 DEF Cloud!WriteTail
  <2>2. got' \in [Process -> Seq(Cloud!Event)]
    BY <1>05, <1>8 DEF Cloud!WriteTail
  <2>3. PICK half \in {0, 1} :
          queue' = Cloud!Rest(t) \o SubSeq(queue, Len(Cloud!Rest(t)) + half + 1, Len(queue))
    BY <1>8 DEF Cloud!WriteTail
  <2> DEFINE m == Len(Cloud!Rest(t)) + half + 1
  <2>4. Cloud!Rest(t) \in Seq(Cloud!Event) /\ m \in Int /\ m >= 1
    BY <1>0, Parted
  <2> HIDE DEF m
  <2>5. SubSeq(queue, m, Len(queue)) \in Seq(Cloud!Event)
    <3>1. Len(queue) \in Int /\ \A i \in m..Len(queue) : queue[i] \in Cloud!Event
      BY <1>0, <2>4
    <3> QED  BY <2>4, <3>1, SubSeqProperties
  <2>6. queue' \in Seq(Cloud!Event)
    BY <2>3, <2>4, <2>5 DEF m
  <2>7. UNCHANGED <<enrolment, cache, fresh, published, doc, collected, cloudLinked, events, posts, kills,
                    raced, cloudCut>>
    BY <1>8 DEF Cloud!WriteTail
  <2> QED  BY <1>0, <1>00, <2>1, <2>2, <2>6, <2>7
\* The tuned defaults.
<1>9. ASSUME NEW t \in Process, Cloud!RefreshIfStale(t) \/ Cloud!Fetch(t)
      PROVE  CloudTyped'
  <2>1. cloudPc' \in [Process -> Pcs]
    BY <1>01, <1>02, <1>9 DEF Cloud!RefreshIfStale, Cloud!Fetch
  <2>2. doc' = doc \/ \E v \in {published, 0} : doc' = [doc EXCEPT ![t] = v]
    BY <1>9 DEF Cloud!RefreshIfStale, Cloud!Fetch, Cloud!BakedIn
  <2>3. doc' \in [Process -> 0..MaxPublished] /\ \A u \in Process : doc'[u] \in 0..published
    <3>1. \A v \in {published, 0} : v \in 0..published /\ v \in 0..MaxPublished
      BY <1>0, CloudConstants
    <3> QED  BY <1>0, <2>2, <3>1
  <2>4. UNCHANGED <<enrolment, cache, fresh, published, queue, collected, cloudLinked, got, events, posts,
                    kills, raced, cloudCut>>
    BY <1>9 DEF Cloud!RefreshIfStale, Cloud!Fetch
  <2> QED  BY <1>0, <1>00, <2>1, <2>3, <2>4
<1>10. ASSUME NEW t \in Process, Cloud!TruncateCache(t) \/ Cloud!WriteCache(t)
       PROVE  CloudTyped'
  <2>1. cloudPc' \in [Process -> Pcs]
    BY <1>01, <1>02, <1>10 DEF Cloud!TruncateCache, Cloud!WriteCache
  <2>2. Cloud!Garbage \in Files /\ Seen(Cloud!Garbage, published)
    BY CloudConstants DEF Cloud!Garbage, Files, Seen
  <2>3. ASSUME NEW v \in 0..published
        PROVE  [file |-> "whole", version |-> v] \in Files /\ Seen([file |-> "whole", version |-> v], published)
    <3>1. v \in 0..(MaxPublished + 1)
      BY <1>0, CloudConstants
    <3> QED  BY <3>1 DEF Files, Seen
  <2>4. cache' = Cloud!Garbage \/ cache' = [file |-> "whole", version |-> doc[t]]
    BY <1>10 DEF Cloud!TruncateCache, Cloud!WriteCache
  <2>5. cache' \in Files /\ Seen(cache', published)
    BY <1>0, <2>2, <2>3, <2>4
  <2>6. doc' = doc \/ doc' = [doc EXCEPT ![t] = 0]
    BY <1>10 DEF Cloud!TruncateCache, Cloud!WriteCache, Cloud!BakedIn
  <2>7. doc' \in [Process -> 0..MaxPublished] /\ \A u \in Process : doc'[u] \in 0..published
    <3>1. 0 \in 0..published /\ 0 \in 0..MaxPublished
      BY <1>0, CloudConstants
    <3> QED  BY <1>0, <2>6, <3>1
  <2>8. UNCHANGED <<enrolment, published, queue, collected, cloudLinked, got, events, posts,
                    kills, raced, cloudCut>> /\ fresh' = TRUE
    BY <1>10 DEF Cloud!TruncateCache, Cloud!WriteCache
  <2> QED  BY <1>0, <1>00, <2>1, <2>5, <2>7, <2>8
<1>11. CASE Cloud!Day
  <2>1. published' \in 1..MaxPublished /\ 0..published \subseteq 0..published' /\ fresh' = FALSE
    BY <1>0, <1>11 DEF Cloud!Day
  <2>2. Seen(cache, published') /\ \A t \in Process : doc[t] \in 0..published'
    BY <1>0, <2>1 DEF Seen
  <2>3. UNCHANGED <<enrolment, cache, doc, cloudPc, kills, queue, collected, cloudLinked, got, events, posts,
                    raced, cloudCut>>
    BY <1>11 DEF Cloud!Day
  <2> QED  BY <1>0, <1>00, <2>1, <2>2, <2>3
<1>12. ASSUME NEW t \in Process, Cloud!Kill(t)
       PROVE  CloudTyped'
  <2>1. cloudPc' \in [Process -> Pcs]
    BY <1>0, <1>02, <1>12 DEF Cloud!Kill
  <2>2. cloudLinked' \in [Process -> BOOLEAN]
    BY <1>03, <1>12 DEF Cloud!Kill
  <2>3. got' \in [Process -> Seq(Cloud!Event)]
    BY <1>05, <1>12 DEF Cloud!Kill
  <2>4. kills' \in 0..MaxKills
    BY <1>0, <1>12, CloudConstants DEF Cloud!Kill
  <2>5. cloudCut' \in BOOLEAN
    BY <1>12, Zenon DEF Cloud!Kill
  <2>6. UNCHANGED <<enrolment, cache, fresh, published, doc, queue, collected, events, posts, raced>>
    BY <1>12 DEF Cloud!Kill
  <2> QED  BY <1>0, <1>00, <2>1, <2>2, <2>3, <2>4, <2>5, <2>6
<1>13. CASE UNCHANGED Cloud!vars
  BY <1>0, <1>00, <1>13 DEF Cloud!vars
<1> QED  BY <1>1, <1>2, <1>3, <1>4, <1>5, <1>6, <1>7, <1>8, <1>9, <1>10, <1>11, <1>12, <1>13
         DEF Cloud!Next, Cloud!Step

\* Events in a row stay in a row at the end and beyond a batch.
LEMMA SuccessiveAppend ==
    ASSUME NEW s \in Seq(Nat), NEW c \in Nat, NEW e \in Nat, Successive(s, c), e = c + Len(s) + 1
    PROVE  Successive(Append(s, e), c)
<1>1. Len(Append(s, e)) = Len(s) + 1 /\ Len(s) \in Nat
      /\ \A i \in 1..Len(s) : Append(s, e)[i] = s[i]
      /\ Append(s, e)[Len(s) + 1] = e
  OBVIOUS
<1>2. \A i \in 1..(Len(s) + 1) : i \in 1..Len(s) \/ i = Len(s) + 1
  BY <1>1
<1> QED  BY <1>1, <1>2 DEF Successive
LEMMA SuccessiveConcat ==
    ASSUME NEW S, NEW s \in Seq(S), NEW r \in Seq(S), NEW c \in Nat,
           Successive(s, c), Successive(r, c + Len(s))
    PROVE  Successive(s \o r, c)
<1>1. Len(s) \in Nat /\ Len(r) \in Nat
  OBVIOUS
<1>2. /\ Len(s \o r) = Len(s) + Len(r)
      /\ \A i \in 1..(Len(s) + Len(r)) : (s \o r)[i] = IF i <= Len(s) THEN s[i] ELSE r[i - Len(s)]
  BY ConcatProperties
<1>3. \A i \in 1..(Len(s) + Len(r)) :
        \/ i <= Len(s) /\ i \in 1..Len(s)
        \/ ~(i <= Len(s)) /\ i - Len(s) \in 1..Len(r) /\ c + Len(s) + (i - Len(s)) = c + i
  BY <1>1
<1> QED  BY <1>2, <1>3 DEF Successive

LEMMA CloudNextOrder ==
    CloudInv /\ [Cloud!Next]_(Cloud!vars) /\ ~raced' /\ ~cloudCut'
      => OneFlush' /\ FlushedAsRead' /\ InOrder'
<1> SUFFICES ASSUME CloudInv, [Cloud!Next]_(Cloud!vars), ~raced', ~cloudCut'
             PROVE  OneFlush' /\ FlushedAsRead' /\ InOrder'
  OBVIOUS
<1> USE DEF Cloud!home, Cloud!mail, Cloud!count
<1>01. /\ Cloud!TypeOK /\ DOMAIN cloudPc = Process /\ DOMAIN got = Process
       /\ queue \in Seq(Cloud!Event) /\ collected \in Seq(Cloud!Event) /\ events \in Nat
       /\ Len(queue) \in Nat /\ Len(collected) \in Nat
  <2>1. /\ Cloud!TypeOK /\ DOMAIN cloudPc = Process /\ DOMAIN got = Process
        /\ queue \in Seq(Cloud!Event) /\ collected \in Seq(Cloud!Event) /\ events \in Nat
    BY CloudConstants DEF CloudInv, CloudTyped, Cloud!TypeOK
  <2> QED  BY <2>1
<1>02. ~raced /\ ~cloudCut
  <2>0. raced \in BOOLEAN /\ cloudCut \in BOOLEAN
    BY Zenon DEF CloudInv, CloudTyped, Cloud!TypeOK
  <2>1. CASE Cloud!Day \/ UNCHANGED Cloud!vars
    BY <2>1 DEF Cloud!vars, Cloud!Day
  <2>2. ASSUME NEW t \in Process, \/ Cloud!Enrol(t) \/ Cloud!EnrolWritten(t) \/ Cloud!Leave(t)
                                  \/ Cloud!OpenQueue(t) \/ Cloud!RefreshIfStale(t) \/ Cloud!Fetch(t)
                                  \/ Cloud!TruncateCache(t) \/ Cloud!WriteCache(t)
        PROVE  ~raced /\ ~cloudCut
    BY <2>2 DEF Cloud!Enrol, Cloud!EnrolWritten, Cloud!Leave, Cloud!OpenQueue, Cloud!RefreshIfStale,
                Cloud!Fetch, Cloud!TruncateCache, Cloud!WriteCache
  <2>3. ASSUME NEW t \in Process, Cloud!AppendEvent(t) \/ Cloud!ReadQueue(t)
        PROVE  ~raced /\ ~cloudCut
    BY <2>0, <2>3 DEF Cloud!AppendEvent, Cloud!ReadQueue
  <2>4. ASSUME NEW t \in Process, Cloud!PostFails(t) \/ Cloud!Kill(t)
        PROVE  ~raced /\ ~cloudCut
    BY <2>0, <2>4 DEF Cloud!PostFails, Cloud!Kill
  <2>5. ASSUME NEW t \in Process, Cloud!Post(t) \/ Cloud!Rewrite(t) \/ Cloud!WriteTail(t)
        PROVE  ~raced /\ ~cloudCut
    BY <2>5 DEF Cloud!Post, Cloud!Rewrite, Cloud!WriteTail
  <2> QED  BY <2>1, <2>2, <2>3, <2>4, <2>5 DEF Cloud!Next, Cloud!Step
<1> DEFINE Flush(l) == l \in {"post", "rewrite", "tail"}
           Past(l) == l \in {"rewrite", "tail"}
           Send(c, e, p) == Len(c) + Len(p) = e /\ Successive(p, Len(c))
<1>0. /\ \A t, u \in Process : Flush(cloudPc[t]) /\ Flush(cloudPc[u]) => t = u
      /\ \A t \in Process : cloudPc[t] \in {"post", "rewrite"} => got[t] = queue
      /\ \A t \in Process : cloudPc[t] = "tail" => queue = <<>>
      /\ Successive(collected, 0)
      /\ (\A t \in Process : ~Past(cloudPc[t])) => Send(collected, events, queue)
      /\ \A t \in Process : Past(cloudPc[t]) => Send(collected, events, Cloud!Rest(t))
  <2>1. OneFlush /\ FlushedAsRead /\ InOrder
    BY <1>02 DEF CloudInv
  <2> QED  BY <2>1 DEF OneFlush, FlushedAsRead, InOrder, Pending, PastPost, Cloud!Flushing
<1>00. ASSUME \A t, u \in Process : Flush(cloudPc'[t]) /\ Flush(cloudPc'[u]) => t = u,
              \A t \in Process : cloudPc'[t] \in {"post", "rewrite"} => got'[t] = queue',
              \A t \in Process : cloudPc'[t] = "tail" => queue' = <<>>,
              Successive(collected', 0),
              (\A t \in Process : ~Past(cloudPc'[t])) => Send(collected', events', queue'),
              \A t \in Process : Past(cloudPc'[t]) => Send(collected', events', Cloud!Rest(t)')
       PROVE  OneFlush' /\ FlushedAsRead' /\ InOrder'
  <2>1. OneFlush'
    BY <1>00 DEF OneFlush, Cloud!Flushing
  <2>2. FlushedAsRead'
    BY <1>00 DEF FlushedAsRead
  <2>3. InOrder'
    BY <1>00 DEF InOrder, Pending, PastPost
  <2> QED  BY <2>1, <2>2, <2>3
<1>03. \A t \in Process : got'[t] = got[t] => Cloud!Rest(t)' = Cloud!Rest(t)
  BY DEF Cloud!Rest
<1>04. \A l : Past(l) => Flush(l)
  OBVIOUS
<1>05. ASSUME NEW t \in Process, NEW l, NEW m, Cloud!Go(t, l, m)
       PROVE  cloudPc[t] = l /\ cloudPc'[t] = m /\ \A u \in Process \ {t} : cloudPc'[u] = cloudPc[u]
  BY <1>01, <1>05 DEF Cloud!Go
<1> HIDE DEF Send
\* Nobody takes a step at the queue's file.
<1>06. ASSUME UNCHANGED <<queue, collected, got, events>>,
              \A t \in Process : 
                cloudPc'[t] = cloudPc[t] \/ (~Flush(cloudPc[t]) /\ ~Flush(cloudPc'[t]))
       PROVE  OneFlush' /\ FlushedAsRead' /\ InOrder'
  <2>1. \A t \in Process : Flush(cloudPc'[t]) <=> Flush(cloudPc[t])
    BY <1>06
  <2>2. \A t \in Process : Past(cloudPc'[t]) <=> Past(cloudPc[t])
    BY <1>04, <1>06
  <2>3. \A t \in Process : /\ cloudPc'[t] \in {"post", "rewrite"} => cloudPc[t] \in {"post", "rewrite"}
                           /\ cloudPc'[t] = "tail" => cloudPc[t] = "tail"
    BY <1>06
  <2> HIDE DEF Flush, Past
  <2>4. \A t \in Process : Past(cloudPc'[t]) => Send(collected', events', Cloud!Rest(t)')
    BY <1>0, <1>03, <1>06, <2>2
  <2> QED  BY <1>0, <1>00, <1>06, <2>1, <2>2, <2>3, <2>4
<1>1. ASSUME NEW t \in Process, \/ Cloud!Enrol(t) \/ Cloud!EnrolWritten(t) \/ Cloud!Leave(t)
                                \/ Cloud!OpenQueue(t) \/ Cloud!RefreshIfStale(t) \/ Cloud!Fetch(t)
                                \/ Cloud!TruncateCache(t) \/ Cloud!WriteCache(t)
      PROVE  OneFlush' /\ FlushedAsRead' /\ InOrder'
  <2>1. UNCHANGED <<queue, collected, got, events>>
    BY <1>1 DEF Cloud!Enrol, Cloud!EnrolWritten, Cloud!Leave, Cloud!OpenQueue, Cloud!RefreshIfStale,
                Cloud!Fetch, Cloud!TruncateCache, Cloud!WriteCache
  <2>2. PICK l, m \in {"idle", "enrol", "append", "fetch", "cache", "document"} : Cloud!Go(t, l, m)
    BY <1>1 DEF Cloud!Enrol, Cloud!EnrolWritten, Cloud!Leave, Cloud!OpenQueue, Cloud!RefreshIfStale,
                Cloud!Fetch, Cloud!TruncateCache, Cloud!WriteCache
  <2>3. cloudPc[t] = l /\ cloudPc'[t] = m /\ \A u \in Process \ {t} : cloudPc'[u] = cloudPc[u]
    BY <1>05, <2>2
  <2> QED  BY <1>06, <2>1, <2>3
<1>2. CASE Cloud!Day \/ UNCHANGED Cloud!vars
  <2>1. UNCHANGED <<queue, collected, got, events, cloudPc>>
    BY <1>2 DEF Cloud!Day, Cloud!vars
  <2> QED  BY <1>06, <2>1
<1>3. ASSUME NEW t \in Process, Cloud!AppendEvent(t)
      PROVE  OneFlush' /\ FlushedAsRead' /\ InOrder'
  <2>1. /\ Cloud!Go(t, "append", "idle") /\ Cloud!Flushing = {} /\ queue' = Append(queue, events + 1)
        /\ events' = events + 1 /\ UNCHANGED <<collected, got>>
    BY <1>3 DEF Cloud!AppendEvent
  <2>2. cloudPc'[t] = "idle" /\ \A u \in Process \ {t} : cloudPc'[u] = cloudPc[u]
    BY <1>05, <2>1
  <2>3. \A u \in Process : ~Flush(cloudPc[u]) /\ ~Flush(cloudPc'[u])
    BY <2>1, <2>2 DEF Cloud!Flushing
  <2>4. Send(collected, events, queue)
    BY <1>0, <1>04, <2>3
  <2>5. Send(collected', events', queue')
    <3>1. Len(collected) + Len(queue) = events /\ Successive(queue, Len(collected))
      BY <2>4 DEF Send
    <3>2. queue \in Seq(Nat) /\ events + 1 \in Nat /\ events + 1 = Len(collected) + Len(queue) + 1
      <4>1. Cloud!Event \subseteq Nat
        BY DEF Cloud!Event
      <4>2. queue \in Seq(Nat)
        BY <1>01, <4>1, SeqMonotonic
      <4> QED  BY <1>01, <3>1, <4>2
    <3>3. Successive(queue', Len(collected))
      BY <1>01, <2>1, <3>1, <3>2, SuccessiveAppend
    <3>4. Len(queue') = Len(queue) + 1
      BY <1>01, <2>1, <3>2
    <3>5. Len(collected) + (Len(queue) + 1) = events + 1
      BY <1>01, <3>1
    <3> QED  BY <2>1, <3>3, <3>4, <3>5 DEF Send
  <2>6. \A u \in Process : ~Past(cloudPc'[u]) /\ cloudPc'[u] \notin {"post", "rewrite"} /\ cloudPc'[u] # "tail"
    BY <2>3
  <2> HIDE DEF Flush, Past
  <2> QED  BY <1>0, <1>00, <2>1, <2>3, <2>5, <2>6
<1>4. ASSUME NEW t \in Process, Cloud!ReadQueue(t)
      PROVE  OneFlush' /\ FlushedAsRead' /\ InOrder'
  <2>1. /\ Cloud!Go(t, "idle", "post") /\ Cloud!Flushing = {} /\ got' = [got EXCEPT ![t] = queue]
        /\ UNCHANGED <<queue, collected, events>>
    BY <1>4 DEF Cloud!ReadQueue
  <2>2. cloudPc'[t] = "post" /\ \A u \in Process \ {t} : cloudPc'[u] = cloudPc[u]
    BY <1>05, <2>1
  <2>3. \A u \in Process : ~Flush(cloudPc[u]) /\ (u # t => ~Flush(cloudPc'[u]))
    BY <2>1, <2>2 DEF Cloud!Flushing
  <2>4. got'[t] = queue
    BY <1>01, <2>1
  <2>5. \A u \in Process : /\ ~Past(cloudPc[u]) /\ ~Past(cloudPc'[u]) /\ cloudPc'[u] # "tail"
                           /\ cloudPc'[u] \in {"post", "rewrite"} => u = t
    BY <2>2, <2>3
  <2> HIDE DEF Flush, Past
  <2> QED  BY <1>0, <1>00, <2>1, <2>3, <2>4, <2>5
\* Steps of the one thread that flushes.
<1>07. ASSUME NEW t \in Process, NEW l, NEW m, Cloud!Go(t, l, m), Flush(l)
       PROVE  /\ cloudPc[t] = l /\ cloudPc'[t] = m
              /\ \A u \in Process \ {t} : /\ ~Flush(cloudPc[u]) /\ ~Past(cloudPc[u])
                                          /\ ~Flush(cloudPc'[u]) /\ ~Past(cloudPc'[u])
                                          /\ cloudPc'[u] \notin {"post", "rewrite"} /\ cloudPc'[u] # "tail"
  <2>1. cloudPc[t] = l /\ cloudPc'[t] = m /\ \A u \in Process \ {t} : cloudPc'[u] = cloudPc[u]
    BY <1>05, <1>07
  <2>2. \A u \in Process \ {t} : ~Flush(cloudPc[u])
    BY <1>0, <1>07, <2>1
  <2> QED  BY <2>1, <2>2
<1>5. ASSUME NEW t \in Process, Cloud!Post(t)
      PROVE  OneFlush' /\ FlushedAsRead' /\ InOrder'
  <2>1. /\ Cloud!Go(t, "post", "rewrite") /\ collected' = collected \o Cloud!Batch(t)
        /\ UNCHANGED <<queue, got, events>>
    BY <1>5 DEF Cloud!Post, Cloud!Taken
  <2>2. /\ cloudPc[t] = "post" /\ cloudPc'[t] = "rewrite"
        /\ \A u \in Process \ {t} : /\ ~Flush(cloudPc[u]) /\ ~Past(cloudPc[u])
                                    /\ ~Flush(cloudPc'[u]) /\ ~Past(cloudPc'[u])
                                    /\ cloudPc'[u] \notin {"post", "rewrite"} /\ cloudPc'[u] # "tail"
    BY <1>07, <2>1
  <2>3. got[t] = queue
    BY <1>0, <2>2
  <2>4. Send(collected, events, queue)
    <3>1. \A u \in Process : ~Past(cloudPc[u])
      BY <2>2
    <3> QED  BY <1>0, <3>1
  <2> DEFINE b == Cloud!Batch(t)
             r == Cloud!Rest(t)
  <2>5. /\ b \in Seq(Cloud!Event) /\ r \in Seq(Cloud!Event) /\ Len(b) + Len(r) = Len(queue)
        /\ \A i \in 1..Len(b) : b[i] = queue[i]
        /\ \A i \in 1..Len(r) : Len(b) + i \in 1..Len(queue) /\ r[i] = queue[Len(b) + i]
    BY <1>01, <2>3, Parted
  <2>6. collected' = collected \o b /\ Cloud!Rest(t)' = r
    BY <1>03, <2>1
  <2> HIDE DEF b, r
  <2>7. Len(b) \in Nat /\ Len(r) \in Nat
    BY <2>5
  <2>8. Len(collected) + Len(queue) = events /\ \A i \in 1..Len(queue) : queue[i] = Len(collected) + i
    BY <2>4 DEF Send, Successive
  <2>9. Successive(b, Len(collected))
    <3>1. \A i \in 1..Len(b) : i \in 1..Len(queue)
      BY <1>01, <2>5, <2>7
    <3> QED  BY <2>5, <2>8, <3>1 DEF Successive
  <2>10. Len(collected') = Len(collected) + Len(b)
    BY <1>01, <2>5, <2>6, ConcatProperties
  <2>11. Successive(collected', 0)
    <3>1. 0 + Len(collected) = Len(collected) /\ 0 \in Nat
      BY <1>01
    <3>2. Successive(collected, 0) /\ Successive(b, 0 + Len(collected))
      BY <1>0, <2>9, <3>1
    <3> QED  BY <1>01, <2>5, <2>6, <3>1, <3>2, SuccessiveConcat
  <2>12. Send(collected', events', Cloud!Rest(t)')
    <3>1. \A i \in 1..Len(r) : r[i] = (Len(collected) + Len(b)) + i
      <4>1. \A i \in 1..Len(r) : Len(collected) + (Len(b) + i) = (Len(collected) + Len(b)) + i
        BY <1>01, <2>7
      <4>2. \A i \in 1..Len(r) : r[i] = Len(collected) + (Len(b) + i)
        BY <2>5, <2>8
      <4> QED  BY <4>1, <4>2
    <3>2. (Len(collected) + Len(b)) + Len(r) = events
      BY <1>01, <2>5, <2>7, <2>8
    <3> QED  BY <2>1, <2>6, <2>10, <3>1, <3>2 DEF Send, Successive
  <2>13. Past(cloudPc'[t])
    BY <2>2
  <2>14. \A u \in Process : Flush(cloudPc'[u]) => u = t
    BY <2>2
  <2>15. \A u \in Process : cloudPc'[u] \in {"post", "rewrite"} => got'[u] = queue'
    BY <2>1, <2>2, <2>3
  <2>16. \A u \in Process : cloudPc'[u] # "tail"
    BY <2>2
  <2>17. \A u \in Process : Past(cloudPc'[u]) => u = t
    BY <2>2
  <2> HIDE DEF Flush, Past
  <2> QED  BY <1>00, <2>11, <2>12, <2>13, <2>14, <2>15, <2>16, <2>17
\* A flush that ends: all there is to send is in the file again.
<1>08. ASSUME NEW t \in Process, cloudPc'[t] = "idle",
              \A u \in Process \ {t} : /\ ~Flush(cloudPc'[u]) /\ ~Past(cloudPc'[u])
                                       /\ cloudPc'[u] \notin {"post", "rewrite"} /\ cloudPc'[u] # "tail",
              UNCHANGED <<collected, events>>, Send(collected, events, queue')
       PROVE  OneFlush' /\ FlushedAsRead' /\ InOrder'
  <2>1. \A u \in Process : /\ ~Flush(cloudPc'[u]) /\ ~Past(cloudPc'[u])
                           /\ cloudPc'[u] \notin {"post", "rewrite"} /\ cloudPc'[u] # "tail"
    BY <1>08
  <2> HIDE DEF Flush, Past
  <2> QED  BY <1>0, <1>00, <1>08, <2>1
<1>6. ASSUME NEW t \in Process, Cloud!PostFails(t)
      PROVE  OneFlush' /\ FlushedAsRead' /\ InOrder'
  <2>1. Cloud!Go(t, "post", "idle") /\ UNCHANGED <<collected, queue, events>>
    BY <1>6 DEF Cloud!PostFails
  <2>2. /\ cloudPc[t] = "post" /\ cloudPc'[t] = "idle"
        /\ \A u \in Process \ {t} : /\ ~Flush(cloudPc[u]) /\ ~Past(cloudPc[u])
                                    /\ ~Flush(cloudPc'[u]) /\ ~Past(cloudPc'[u])
                                    /\ cloudPc'[u] \notin {"post", "rewrite"} /\ cloudPc'[u] # "tail"
    BY <1>07, <2>1
  <2>3. \A u \in Process : ~Past(cloudPc[u])
    BY <2>2
  <2> HIDE DEF Flush, Past
  <2> QED  BY <1>0, <1>08, <2>1, <2>2, <2>3
<1>7. ASSUME NEW t \in Process, Cloud!Rewrite(t)
      PROVE  OneFlush' /\ FlushedAsRead' /\ InOrder'
  <2>1. /\ queue' = <<>> /\ UNCHANGED <<collected, events>>
        /\ \/ Cloud!Rest(t) = <<>> /\ Cloud!Go(t, "rewrite", "idle")
           \/ Cloud!Go(t, "rewrite", "tail") /\ UNCHANGED got
    BY <1>7 DEF Cloud!Rewrite
  <2>2. PICK m \in {"idle", "tail"} : /\ Cloud!Go(t, "rewrite", m)
                                      /\ m = "idle" => Cloud!Rest(t) = <<>>
                                      /\ m = "tail" => UNCHANGED got
    BY <2>1
  <2>3. /\ cloudPc[t] = "rewrite" /\ cloudPc'[t] = m
        /\ \A u \in Process \ {t} : /\ ~Flush(cloudPc[u]) /\ ~Past(cloudPc[u])
                                    /\ ~Flush(cloudPc'[u]) /\ ~Past(cloudPc'[u])
                                    /\ cloudPc'[u] \notin {"post", "rewrite"} /\ cloudPc'[u] # "tail"
    BY <1>07, <2>2
  <2>4. Send(collected, events, Cloud!Rest(t))
    BY <1>0, <2>3
  <2>5. CASE m = "idle"
    <3> HIDE DEF Flush, Past
    <3> QED  BY <1>08, <2>1, <2>2, <2>3, <2>4, <2>5
  <2>6. CASE m = "tail"
    <3>1. \A u \in Process : /\ Flush(cloudPc'[u]) => u = t
                             /\ Past(cloudPc'[u]) => u = t
                             /\ cloudPc'[u] \notin {"post", "rewrite"}
      BY <2>3, <2>6
    <3>2. Past(cloudPc'[t])
      BY <2>3, <2>6
    <3>3. Send(collected', events', Cloud!Rest(t)')
      BY <1>03, <2>1, <2>2, <2>4, <2>6
    <3> HIDE DEF Flush, Past
    <3> QED  BY <1>0, <1>00, <2>1, <3>1, <3>2, <3>3
  <2> QED  BY <2>2, <2>5, <2>6
<1>8. ASSUME NEW t \in Process, Cloud!WriteTail(t)
      PROVE  OneFlush' /\ FlushedAsRead' /\ InOrder'
  <2>1. Cloud!Go(t, "tail", "idle") /\ UNCHANGED <<collected, events>>
    BY <1>8 DEF Cloud!WriteTail
  <2>2. /\ cloudPc[t] = "tail" /\ cloudPc'[t] = "idle"
        /\ \A u \in Process \ {t} : /\ ~Flush(cloudPc[u]) /\ ~Past(cloudPc[u])
                                    /\ ~Flush(cloudPc'[u]) /\ ~Past(cloudPc'[u])
                                    /\ cloudPc'[u] \notin {"post", "rewrite"} /\ cloudPc'[u] # "tail"
    BY <1>07, <2>1
  <2>3. queue = <<>> /\ Send(collected, events, Cloud!Rest(t))
    BY <1>0, <2>2
  <2>4. PICK half \in {0, 1} :
          queue' = Cloud!Rest(t) \o SubSeq(queue, Len(Cloud!Rest(t)) + half + 1, Len(queue))
    BY <1>8 DEF Cloud!WriteTail
  <2>5. queue' = Cloud!Rest(t)
    <3>1. Cloud!Rest(t) \in Seq(Cloud!Event)
      BY <1>01, Parted
    <3> DEFINE n == Len(Cloud!Rest(t)) + half + 1
    <3>2. n \in Int /\ Len(queue) \in Int /\ Len(queue) < n
      BY <2>3, <3>1
    <3>3. SubSeq(queue, n, Len(queue)) = <<>>
      BY <3>2, SubSeqEmpty
    <3> QED  BY <2>4, <3>1, <3>3, ConcatEmptySeq
  <2> HIDE DEF Flush, Past
  <2> QED  BY <1>08, <2>1, <2>2, <2>3, <2>5
<1>9. ASSUME NEW t \in Process, Cloud!Kill(t)
      PROVE  OneFlush' /\ FlushedAsRead' /\ InOrder'
  <2>1. /\ ~Past(cloudPc[t]) /\ cloudPc' = [cloudPc EXCEPT ![t] = "idle"]
        /\ got' = [got EXCEPT ![t] = <<>>] /\ UNCHANGED <<queue, collected, events>>
    BY <1>9 DEF Cloud!Kill, Cloud!Forget
  <2>2. /\ cloudPc'[t] = "idle"
        /\ \A u \in Process \ {t} : cloudPc'[u] = cloudPc[u] /\ got'[u] = got[u]
    BY <1>01, <2>1
  <2>3. /\ ~Flush(cloudPc'[t]) /\ ~Past(cloudPc'[t])
        /\ cloudPc'[t] \notin {"post", "rewrite"} /\ cloudPc'[t] # "tail"
    BY <2>2
  <2>4. \A u \in Process : Flush(cloudPc'[u]) => u # t /\ Flush(cloudPc[u])
    BY <2>2, <2>3
  <2>5. \A u \in Process : Past(cloudPc'[u]) <=> Past(cloudPc[u])
    BY <2>1, <2>2, <2>3
  <2>6. \A u \in Process : Past(cloudPc'[u]) => Send(collected', events', Cloud!Rest(u)')
    <3>1. \A u \in Process : Past(cloudPc'[u]) => u # t
      BY <2>3
    <3> HIDE DEF Past
    <3> QED  BY <1>0, <1>03, <2>1, <2>2, <2>5, <3>1
  <2>7. \A u \in Process : /\ cloudPc'[u] \in {"post", "rewrite"} => got'[u] = queue'
                           /\ cloudPc'[u] = "tail" => queue' = <<>>
    <3>1. \A u \in Process : cloudPc'[u] \in {"post", "rewrite", "tail"} => u # t
      BY <2>3
    <3> QED  BY <1>0, <2>1, <2>2, <3>1
  <2> HIDE DEF Flush, Past
  <2> QED  BY <1>0, <1>00, <2>1, <2>4, <2>5, <2>6, <2>7
<1> QED  BY <1>1, <1>2, <1>3, <1>4, <1>5, <1>6, <1>7, <1>8, <1>9 DEF Cloud!Next, Cloud!Step

\* Where flushes and appends do not overlap and no flush dies after its post,
\* every event reaches the collector once and in order, or is still in the
\* queue or in the tail a flush is about to write; and the defaults in force
\* are a whole published document or the baked-in ones (insights/events.py
\* 146-276, insights/tuned_defaults.py 220-294).
THEOREM EventsNeitherLostNorTwice ==
    Cloud!Spec => [](/\ Cloud!TypeOK /\ Cloud!LossNeedsOverlap /\ Cloud!DuplicateNeedsCut
                     /\ Cloud!LoadedIsPublished)
<1>1. CloudInv /\ [Cloud!Next]_(Cloud!vars) => CloudInv'
  BY CloudNextTyped, CloudNextOrder DEF CloudInv
<1>2. CloudInv => Cloud!LossNeedsOverlap
  <2>1. SUFFICES ASSUME CloudInv, ~raced, ~cloudCut, NEW e \in 1..events
                 PROVE  \/ e \in Cloud!EventsOf(collected) \cup Cloud!EventsOf(queue)
                        \/ \E t \in Process : cloudPc[t] = "tail" /\ e \in Cloud!EventsOf(Cloud!Rest(t))
    BY Zenon DEF Cloud!LossNeedsOverlap
  <2>2. /\ Cloud!TypeOK /\ OneFlush /\ FlushedAsRead /\ InOrder
        /\ queue \in Seq(Cloud!Event) /\ collected \in Seq(Cloud!Event) /\ events \in Nat
    BY <2>1, CloudConstants DEF CloudInv, CloudTyped, Cloud!TypeOK
  <2>3. ASSUME NEW s \in Seq(Cloud!Event), NEW i \in 1..Len(s), s[i] = e
        PROVE  e \in Cloud!EventsOf(s)
    BY <2>3 DEF Cloud!EventsOf
  <2>4. Len(collected) \in Nat
    BY <2>2
  <2>5. CASE e <= Len(collected)
    <3>1. e \in 1..Len(collected) /\ collected[e] = 0 + e /\ 0 + e = e
      BY <2>2, <2>4, <2>5 DEF InOrder, Successive
    <3> QED  BY <2>2, <2>3, <3>1
  <2>6. ASSUME NEW p \in Seq(Cloud!Event), Pending(p), e > Len(collected)
        PROVE  \E i \in 1..Len(p) : p[i] = e
    <3>1. Len(p) \in Nat /\ Len(collected) + Len(p) = events
      BY <2>6 DEF Pending
    <3>2. e - Len(collected) \in 1..Len(p) /\ Len(collected) + (e - Len(collected)) = e
      BY <2>2, <2>4, <2>6, <3>1
    <3> QED  BY <2>6, <3>2 DEF Pending, Successive
  <2>7. CASE e > Len(collected) /\ PastPost = {}
    <3>1. Pending(queue)
      BY <2>2, <2>7 DEF InOrder
    <3> QED  BY <2>2, <2>3, <2>6, <2>7, <3>1
  <2>8. ASSUME e > Len(collected), NEW t \in PastPost
        PROVE  \/ e \in Cloud!EventsOf(queue)
               \/ cloudPc[t] = "tail" /\ e \in Cloud!EventsOf(Cloud!Rest(t))
    <3>1. /\ Pending(Cloud!Rest(t)) /\ t \in Process /\ Cloud!Rest(t) \in Seq(Cloud!Event)
          /\ cloudPc[t] \in {"rewrite", "tail"}
      BY <2>2, <2>8, Parted DEF InOrder, PastPost
    <3>2. PICK i \in 1..Len(Cloud!Rest(t)) : Cloud!Rest(t)[i] = e
      BY <2>6, <2>8, <3>1
    <3>3. CASE cloudPc[t] = "tail"
      BY <2>3, <3>1, <3>2, <3>3
    <3>4. CASE cloudPc[t] = "rewrite"
      <4>1. got[t] = queue
        BY <2>2, <3>1, <3>4 DEF FlushedAsRead
      <4>2. Len(Cloud!Batch(t)) + i \in 1..Len(queue) /\ queue[Len(Cloud!Batch(t)) + i] = e
        BY <2>2, <3>1, <3>2, <4>1, Parted
      <4> QED  BY <2>2, <2>3, <4>2
    <3> QED  BY <3>1, <3>3, <3>4
  <2>9. e <= Len(collected) \/ e > Len(collected)
    BY <2>2, <2>4
  <2> QED  BY <2>5, <2>7, <2>8, <2>9 DEF PastPost
<1>3. CloudInv => Cloud!DuplicateNeedsCut
  <2>1. SUFFICES ASSUME CloudInv, ~raced, ~cloudCut, NEW m \in DOMAIN collected, NEW n \in DOMAIN collected,
                        m < n
                 PROVE  collected[m] < collected[n]
    BY Zenon DEF Cloud!DuplicateNeedsCut
  <2>2. collected \in Seq(Cloud!Event) /\ \A i \in 1..Len(collected) : collected[i] = 0 + i
    BY <2>1 DEF CloudInv, CloudTyped, Cloud!TypeOK, InOrder, Successive
  <2>3. DOMAIN collected = 1..Len(collected) /\ Len(collected) \in Nat
    BY <2>2
  <2>4. collected[m] = 0 + m /\ collected[n] = 0 + n /\ m \in Nat /\ n \in Nat
    BY <2>2, <2>3
  <2> QED  BY <2>1, <2>4
<1>4. CloudInv => Cloud!LoadedIsPublished
  <2>1. SUFFICES ASSUME CloudInv PROVE Cloud!LoadedIsPublished
    OBVIOUS
  <2>2. published \in 1..MaxPublished /\ (cache.file = "whole" => cache.version \in 0..published)
    BY <2>1 DEF CloudInv, CloudTyped, Cloud!TypeOK
  <2>3. \A v \in 0..published : v = 0 \/ v \in 1..published
    BY <2>2, CloudConstants
  <2> QED  BY <2>2, <2>3 DEF Cloud!LoadedIsPublished, Cloud!Loaded, Cloud!BakedIn
<1>5. CloudInv => Cloud!TypeOK
  BY DEF CloudInv, CloudTyped
<1> QED  BY <1>1, <1>2, <1>3, <1>4, <1>5, CloudInitInv, PTL DEF Cloud!Spec

-----------------------------------------------------------------------------
(***************************************************************************)
(* The shared stores (SharedStores).  A file's writer that nobody overlaps *)
(* has the temporary file for itself, from the empty file it opens to the  *)
(* blob it puts, and what it puts extends the ledger by its own line; a    *)
(* row's id is newer than every row of the table, and in SQLite stays so   *)
(* until its one transaction commits.                                      *)
(***************************************************************************)
LEMMA StoresConstants ==
    /\ Backends \subseteq {"file", "sqlite", "postgres"} /\ Keys \subseteq {"head", "ledger"}
    /\ MaxEntries \in Nat /\ MaxFaults \in Nat
  BY PartsAssumption DEF PartsAssumption, Stores!StoresAssumption

Putting(p) == storesPc[p] \in {"open", "write", "replace", "upsert"}
Inserting == {hand[p] : p \in {q \in Process : storesPc[q] = "insert"}}

HandsCounted ==
  /\ \A p \in Process : storesPc[p] # "idle" => hand[p] \in 1..storesEntries
  /\ \A p, q \in Process : storesPc[p] # "idle" /\ storesPc[q] # "idle" /\ hand[p] = hand[q] => p = q
  /\ Cardinality(Inserting) + nextId <= storesEntries + 1
IdsAscend ==
  /\ \A r \in table : r.id < nextId
  /\ \A p \in Process : storesPc[p] = "commit" => \E i \in 1..(nextId - 1) : read[p].lines = {i}
  /\ backend = "sqlite" =>
       /\ \A p, q \in Process : storesPc[p] = "commit" /\ storesPc[q] = "commit" => p = q
       /\ \A p \in Process : storesPc[p] = "commit" => \A r \in table, i \in read[p].lines : r.id < i
StepsOfBackend ==
  \A p \in Process : /\ storesPc[p] \in {"open", "write", "replace"} => backend = "file"
                     /\ storesPc[p] \in {"upsert", "insert", "commit"} => backend # "file"
OneWriter ==
  ~storesOverlap => \A p, q \in Process : storesPc[p] # "idle" /\ storesPc[q] # "idle" => p = q
TempIsMine ==
  backend = "file" /\ ~storesOverlap =>
    /\ \A p \in Process : handle[p] = IF storesPc[p] = "write" THEN "temp" ELSE "none"
    /\ \A p \in Process : storesPc[p] = "write" => temp = Stores!Empty
    /\ \A p \in Process : storesPc[p] = "replace" => temp = read[p]
PutsAreWhole ==
  (backend = "file" => ~storesOverlap) =>
    stored.whole /\ \A p \in Process : Putting(p) => read[p].whole
LedgerGrows ==
  key = "ledger" /\ ~storesOverlap /\ ~failed =>
    /\ \A e \in done : e \in stored.lines \cup {r.record : r \in table}
    /\ \A p \in Process : Putting(p) => stored.lines \cup {hand[p]} \subseteq read[p].lines
StoresInv ==
  /\ Stores!TypeOK /\ HandsCounted /\ IdsAscend /\ StepsOfBackend /\ OneWriter /\ TempIsMine
  /\ PutsAreWhole /\ LedgerGrows

LEMMA StoresInitInv == Stores!Init => StoresInv
<1> SUFFICES ASSUME Stores!Init PROVE StoresInv
  OBVIOUS
<1> USE DEF Stores!Init
<1>1. 0 \in 0..MaxEntries /\ 0 \in 0..MaxFaults /\ 1 \in 1..(MaxEntries + 1)
  BY StoresConstants
<1>2. Stores!Missing \in Stores!Blob /\ Stores!Missing.whole
  BY DEF Stores!Missing, Stores!Blob
<1>3. Stores!TypeOK
  <2>1. /\ read \in [Process -> Stores!Blob] /\ hand \in [Process -> 0..MaxEntries]
        /\ storesPc \in [Process -> {"idle", "open", "write", "replace", "upsert", "insert", "commit"}]
        /\ handle \in [Process -> {"none", "temp", "blob"}]
    BY <1>1, <1>2
  <2> QED  BY <1>1, <1>2, <2>1 DEF Stores!TypeOK
<1>4. HandsCounted
  <2>1. Inserting = {}
    BY DEF Inserting
  <2>2. Cardinality(Inserting) = 0
    BY <2>1, FS_EmptySet
  <2> QED  BY <2>2 DEF HandsCounted
<1>5. IdsAscend /\ StepsOfBackend /\ OneWriter /\ TempIsMine
  BY DEF IdsAscend, StepsOfBackend, OneWriter, TempIsMine
<1>6. PutsAreWhole /\ LedgerGrows
  BY <1>2 DEF PutsAreWhole, LedgerGrows, Putting
<1> QED  BY <1>3, <1>4, <1>5, <1>6 DEF StoresInv

\* The bytes of p, over what is there or alone.
LEMMA OverIs ==
    ASSUME Stores!TypeOK, NEW p \in Process, NEW there
    PROVE  /\ \A b \in Stores!Over(p, there) : b \in Stores!Blob
           /\ Stores!Over(p, Stores!Empty) = {read[p]}
<1>1. read[p] \in Stores!Blob
  BY DEF Stores!TypeOK
<1>2. [read[p] EXCEPT !.whole = FALSE] \in Stores!Blob
  BY <1>1 DEF Stores!Blob
<1>3. Stores!Empty.lines = {}
  BY DEF Stores!Empty
<1> QED  BY <1>1, <1>2, <1>3 DEF Stores!Over

LEMMA StoresNextTyped == StoresInv /\ [Stores!Next]_(Stores!vars) => Stores!TypeOK'
<1> SUFFICES ASSUME StoresInv, [Stores!Next]_(Stores!vars) PROVE Stores!TypeOK'
  OBVIOUS
<1> DEFINE PutSteps == {"idle", "open", "write", "replace", "upsert", "insert", "commit"}
           Handles == {"none", "temp", "blob"}
           TableRows == [id : 1..MaxEntries, record : Stores!Entry]
<1>0. /\ backend \in Backends /\ key \in Keys /\ stored \in Stores!Blob /\ temp \in Stores!Blob
      /\ table \subseteq TableRows /\ nextId \in 1..(MaxEntries + 1)
      /\ storesPc \in [Process -> PutSteps] /\ hand \in [Process -> 0..MaxEntries]
      /\ read \in [Process -> Stores!Blob] /\ handle \in [Process -> Handles]
      /\ storesEntries \in 0..MaxEntries /\ done \subseteq Stores!Entry /\ storesFaults \in 0..MaxFaults
      /\ storesOverlap \in BOOLEAN /\ failed \in BOOLEAN /\ Stores!TypeOK
  BY DEF StoresInv, Stores!TypeOK
<1>00. ASSUME backend' \in Backends, key' \in Keys, stored' \in Stores!Blob, temp' \in Stores!Blob,
              table' \subseteq TableRows, nextId' \in 1..(MaxEntries + 1),
              storesPc' \in [Process -> PutSteps], hand' \in [Process -> 0..MaxEntries],
              read' \in [Process -> Stores!Blob], handle' \in [Process -> Handles],
              storesEntries' \in 0..MaxEntries, done' \subseteq Stores!Entry,
              storesFaults' \in 0..MaxFaults, storesOverlap' \in BOOLEAN, failed' \in BOOLEAN
       PROVE  Stores!TypeOK'
  BY <1>00 DEF Stores!TypeOK
<1>01. \A l \in {"idle", "open", "write", "replace", "upsert", "insert", "commit"} : l \in PutSteps
  OBVIOUS
<1>02. \A l \in {"none", "temp", "blob"} : l \in Handles
  OBVIOUS
<1>03. ASSUME NEW p \in Process, NEW l \in PutSteps, Stores!Goto(p, l)
       PROVE  storesPc' \in [Process -> PutSteps]
  BY <1>0, <1>03 DEF Stores!Goto
<1>04. ASSUME NEW p \in Process, NEW l \in PutSteps, Stores!Start(p, l)
       PROVE  /\ storesPc' \in [Process -> PutSteps] /\ storesEntries' \in 0..MaxEntries
              /\ hand' \in [Process -> 0..MaxEntries] /\ storesOverlap' \in BOOLEAN
              /\ storesEntries + 1 \in Stores!Entry
  <2>1. storesPc' \in [Process -> PutSteps]
    BY <1>03, <1>04 DEF Stores!Start
  <2>2. storesEntries' = storesEntries + 1 /\ storesEntries < MaxEntries
        /\ hand' = [hand EXCEPT ![p] = storesEntries + 1]
    BY <1>04 DEF Stores!Start
  <2>3. storesEntries + 1 \in 0..MaxEntries /\ storesEntries + 1 \in 1..MaxEntries
    BY <1>0, <2>2, StoresConstants
  <2>4. hand' \in [Process -> 0..MaxEntries]
    BY <1>0, <2>2, <2>3
  <2>5. storesOverlap' \in BOOLEAN
    BY <1>04, Zenon DEF Stores!Start
  <2> QED  BY <2>1, <2>2, <2>3, <2>4, <2>5 DEF Stores!Entry
<1>05. ASSUME NEW p \in Process, Stores!Finish(p), storesPc[p] # "idle"
       PROVE  storesPc' \in [Process -> PutSteps] /\ done' \subseteq Stores!Entry
  <2>1. hand[p] \in Stores!Entry
    <3>1. hand[p] \in 1..storesEntries
      BY <1>05 DEF StoresInv, HandsCounted
    <3> QED  BY <1>0, <3>1, StoresConstants DEF Stores!Entry
  <2> QED  BY <1>0, <1>01, <1>03, <1>05, <2>1 DEF Stores!Finish
<1>06. ASSUME storesFaults < MaxFaults, storesFaults' = storesFaults + 1
       PROVE  storesFaults' \in 0..MaxFaults
  BY <1>0, <1>06, StoresConstants
<1>07. Stores!Missing \in Stores!Blob /\ Stores!Empty \in Stores!Blob
  BY DEF Stores!Missing, Stores!Empty, Stores!Blob
<1>08. TRUE \in BOOLEAN
  OBVIOUS
<1> HIDE DEF PutSteps, Handles, TableRows
<1> USE DEF Stores!kind, Stores!files, Stores!rows, Stores!past
<1>1. ASSUME NEW p \in Process, Stores!StartPut(p) \/ Stores!ReadFails(p)
      PROVE  Stores!TypeOK'
  <2>1. PICK l \in {"open", "upsert"} : Stores!Start(p, l)
    BY <1>1 DEF Stores!StartPut, Stores!ReadFails
  <2>2. /\ storesPc' \in [Process -> PutSteps] /\ storesEntries' \in 0..MaxEntries
        /\ hand' \in [Process -> 0..MaxEntries] /\ storesOverlap' \in BOOLEAN
        /\ storesEntries + 1 \in Stores!Entry
    BY <1>01, <1>04, <2>1
  <2>3. read' \in [Process -> Stores!Blob]
    <3>1. PICK b \in {stored, Stores!Missing}, w \in {key = "head" \/ stored.whole, TRUE} :
            read' = [read EXCEPT ![p] = [lines |-> Stores!Adds(p, b), whole |-> w]]
      BY <1>1 DEF Stores!StartPut, Stores!ReadFails
    <3>2. w \in BOOLEAN
      BY <3>1, Zenon
    <3>3. b.lines \subseteq Stores!Entry
      BY <1>0, <1>07, <3>1 DEF Stores!Blob
    <3>4. Stores!Adds(p, b) \subseteq Stores!Entry
      BY <2>2, <3>3 DEF Stores!Adds
    <3>5. [lines |-> Stores!Adds(p, b), whole |-> w] \in Stores!Blob
      BY <3>2, <3>4 DEF Stores!Blob
    <3> QED  BY <1>0, <3>1, <3>5
  <2>4. storesFaults' \in 0..MaxFaults /\ failed' \in BOOLEAN
    BY <1>0, <1>06, <1>08, <1>1 DEF Stores!StartPut, Stores!ReadFails
  <2>5. UNCHANGED <<backend, key, stored, temp, handle, table, nextId, done>>
    BY <1>1 DEF Stores!StartPut, Stores!ReadFails
  <2> QED  BY <1>0, <1>00, <2>2, <2>3, <2>4, <2>5
<1>2. ASSUME NEW p \in Process, Stores!Open(p)
      PROVE  Stores!TypeOK'
  <2>1. storesPc' \in [Process -> PutSteps]
    BY <1>01, <1>03, <1>2 DEF Stores!Open
  <2>2. handle' \in [Process -> Handles] /\ temp' \in Stores!Blob
    BY <1>0, <1>02, <1>07, <1>2 DEF Stores!Open
  <2>3. UNCHANGED <<backend, key, stored, table, nextId, hand, read, storesEntries, done, storesFaults,
                    storesOverlap, failed>>
    BY <1>2 DEF Stores!Open
  <2> QED  BY <1>0, <1>00, <2>1, <2>2, <2>3
<1>3. ASSUME NEW p \in Process, Stores!Write(p)
      PROVE  Stores!TypeOK'
  <2>1. storesPc' \in [Process -> PutSteps]
    BY <1>01, <1>03, <1>3 DEF Stores!Write
  <2>2. handle' \in [Process -> Handles]
    BY <1>0, <1>02, <1>3 DEF Stores!Write
  <2>3. \/ temp' \in Stores!Over(p, temp) /\ UNCHANGED stored
        \/ stored' \in Stores!Over(p, stored) /\ UNCHANGED temp
        \/ UNCHANGED <<stored, temp>>
    <3>1. CASE handle[p] = "temp"
      BY <1>3, <3>1 DEF Stores!Write
    <3>2. CASE handle[p] = "blob"
      BY <1>3, <3>2 DEF Stores!Write
    <3>3. CASE handle[p] # "temp" /\ handle[p] # "blob"
      BY <1>3, <3>3 DEF Stores!Write
    <3> QED  BY <3>1, <3>2, <3>3
  <2>4. stored' \in Stores!Blob /\ temp' \in Stores!Blob
    <3>1. \A b \in Stores!Over(p, temp) : b \in Stores!Blob
      BY <1>0, OverIs
    <3>2. \A b \in Stores!Over(p, stored) : b \in Stores!Blob
      BY <1>0, OverIs
    <3> QED  BY <1>0, <2>3, <3>1, <3>2
  <2>5. UNCHANGED <<backend, key, table, nextId, hand, read, storesEntries, done, storesFaults,
                    storesOverlap, failed>>
    BY <1>3 DEF Stores!Write
  <2> QED  BY <1>0, <1>00, <2>1, <2>2, <2>4, <2>5
<1>4. ASSUME NEW p \in Process, Stores!Replace(p) \/ Stores!Upsert(p)
      PROVE  Stores!TypeOK'
  <2>1. Stores!Finish(p) /\ storesPc[p] # "idle"
    BY <1>4 DEF Stores!Replace, Stores!Upsert
  <2>2. storesPc' \in [Process -> PutSteps] /\ done' \subseteq Stores!Entry
    BY <1>05, <2>1
  <2>3. /\ stored' \in {stored, temp, read[p]} /\ temp' \in {temp, Stores!Missing}
        /\ \/ handle' = handle
           \/ handle' = [q \in Process |-> IF handle[q] = "temp" THEN "blob" ELSE "none"]
    BY <1>4 DEF Stores!Replace, Stores!Upsert, Stores!Renamed
  <2>4. stored' \in Stores!Blob /\ temp' \in Stores!Blob
    BY <1>0, <1>07, <2>3
  <2>5. handle' \in [Process -> Handles]
    BY <1>0, <1>02, <2>3
  <2>6. UNCHANGED <<backend, key, table, nextId, hand, read, storesEntries, storesFaults, storesOverlap, failed>>
    BY <1>4 DEF Stores!Replace, Stores!Upsert
  <2> QED  BY <1>0, <1>00, <2>2, <2>4, <2>5, <2>6
<1>5. ASSUME NEW p \in Process, Stores!PutFails(p)
      PROVE  Stores!TypeOK'
  <2>1. Stores!Finish(p) /\ storesPc[p] # "idle"
    BY <1>5 DEF Stores!PutFails
  <2>2. storesPc' \in [Process -> PutSteps] /\ done' \subseteq Stores!Entry
    BY <1>05, <2>1
  <2>3. storesFaults' \in 0..MaxFaults /\ failed' \in BOOLEAN
    BY <1>06, <1>08, <1>5 DEF Stores!PutFails
  <2>4. handle' \in [Process -> Handles]
    BY <1>0, <1>02, <1>5 DEF Stores!PutFails
  <2>5. UNCHANGED <<backend, key, stored, temp, table, nextId, hand, read, storesEntries, storesOverlap>>
    BY <1>5 DEF Stores!PutFails
  <2> QED  BY <1>0, <1>00, <2>2, <2>3, <2>4, <2>5
<1>6. ASSUME NEW p \in Process, Stores!Delete(p)
      PROVE  Stores!TypeOK'
  <2>1. handle' \in [Process -> Handles] /\ stored' \in Stores!Blob
    BY <1>0, <1>02, <1>07, <1>6 DEF Stores!Delete
  <2>2. UNCHANGED <<backend, key, temp, table, nextId, storesPc, hand, read, storesEntries, done,
                    storesFaults, storesOverlap, failed>>
    BY <1>6 DEF Stores!Delete
  <2> QED  BY <1>0, <1>00, <2>1, <2>2
<1>7. ASSUME NEW p \in Process, Stores!StartAppend(p)
      PROVE  Stores!TypeOK'
  <2>1. /\ storesPc' \in [Process -> PutSteps] /\ storesEntries' \in 0..MaxEntries
        /\ hand' \in [Process -> 0..MaxEntries] /\ storesOverlap' \in BOOLEAN
    BY <1>01, <1>04, <1>7 DEF Stores!StartAppend
  <2>2. UNCHANGED <<backend, key, stored, temp, handle, table, nextId, read, done, storesFaults, failed>>
    BY <1>7 DEF Stores!StartAppend
  <2> QED  BY <1>0, <1>00, <2>1, <2>2
<1>8. ASSUME NEW p \in Process, Stores!Insert(p)
      PROVE  Stores!TypeOK'
  <2>1. storesPc' \in [Process -> PutSteps]
    BY <1>01, <1>03, <1>8 DEF Stores!Insert
  <2>2. Cardinality(Inserting) \in Nat /\ Cardinality(Inserting) # 0
    <3>1. Inserting \subseteq 1..storesEntries /\ hand[p] \in Inserting
      BY <1>8 DEF StoresInv, HandsCounted, Inserting, Stores!Insert
    <3>2. IsFiniteSet(Inserting)
      <4>1. 1 \in Int /\ storesEntries \in Int
        BY <1>0
      <4>2. IsFiniteSet(1..storesEntries)
        BY <4>1, FS_Interval, Zenon
      <4> QED  BY <3>1, <4>2, FS_Subset
    <3> QED  BY <3>1, <3>2, FS_CardinalityType, FS_EmptySet
  <2>3. nextId <= storesEntries
    <3>1. Cardinality(Inserting) + nextId <= storesEntries + 1
      BY DEF StoresInv, HandsCounted
    <3>2. nextId \in Nat /\ storesEntries \in Nat
      BY <1>0, StoresConstants
    <3> QED  BY <2>2, <3>1, <3>2
  <2>4. nextId \in 1..MaxEntries /\ nextId + 1 \in 1..(MaxEntries + 1)
    BY <1>0, <2>3, StoresConstants
  <2>5. nextId' = nextId + 1 /\ read' = [read EXCEPT ![p] = [lines |-> {nextId}, whole |-> TRUE]]
    BY <1>8 DEF Stores!Insert
  <2>6. [lines |-> {nextId}, whole |-> TRUE] \in Stores!Blob
    BY <2>4 DEF Stores!Blob, Stores!Entry
  <2>7. UNCHANGED <<backend, key, stored, temp, handle, table, hand, storesEntries, done, storesFaults,
                    storesOverlap, failed>>
    BY <1>8 DEF Stores!Insert
  <2>8. read' \in [Process -> Stores!Blob]
    BY <1>0, <2>5, <2>6
  <2>9. nextId' \in 1..(MaxEntries + 1)
    BY <2>4, <2>5
  <2> QED  BY <1>0, <1>00, <2>1, <2>7, <2>8, <2>9
<1>9. ASSUME NEW p \in Process, Stores!Commit(p)
      PROVE  Stores!TypeOK'
  <2>1. Stores!Finish(p) /\ storesPc[p] = "commit"
    BY <1>9 DEF Stores!Commit
  <2>2. storesPc' \in [Process -> PutSteps] /\ done' \subseteq Stores!Entry
    BY <1>05, <2>1
  <2>3. hand[p] \in Stores!Entry
    <3>1. hand[p] \in 1..storesEntries
      BY <2>1 DEF StoresInv, HandsCounted
    <3> QED  BY <1>0, <3>1, StoresConstants DEF Stores!Entry
  <2>4. \A i \in read[p].lines : i \in 1..MaxEntries
    <3>1. PICK i \in 1..(nextId - 1) : read[p].lines = {i}
      BY <2>1 DEF StoresInv, IdsAscend
    <3>2. i \in 1..MaxEntries
      BY <1>0, StoresConstants
    <3> QED  BY <3>1, <3>2
  <2>5. table' \subseteq TableRows
    BY <1>0, <1>9, <2>3, <2>4 DEF Stores!Commit, TableRows
  <2>6. UNCHANGED <<backend, key, stored, temp, handle, nextId, hand, read, storesEntries, storesFaults,
                    storesOverlap, failed>>
    BY <1>9 DEF Stores!Commit
  <2> QED  BY <1>0, <1>00, <2>2, <2>5, <2>6
<1>10. ASSUME NEW p \in Process, Stores!Rollback(p)
       PROVE  Stores!TypeOK'
  <2>1. storesPc' \in [Process -> PutSteps] /\ storesFaults' \in 0..MaxFaults
    BY <1>01, <1>03, <1>06, <1>10 DEF Stores!Rollback
  <2>2. UNCHANGED <<backend, key, stored, temp, handle, table, nextId, hand, read, storesEntries, done,
                    storesOverlap, failed>>
    BY <1>10 DEF Stores!Rollback
  <2> QED  BY <1>0, <1>00, <2>1, <2>2
<1>11. ASSUME NEW p \in Process, Stores!Kill(p)
       PROVE  Stores!TypeOK'
  <2>1. storesPc' \in [Process -> PutSteps] /\ storesFaults' \in 0..MaxFaults
    BY <1>01, <1>03, <1>06, <1>11 DEF Stores!Kill
  <2>2. handle' \in [Process -> Handles]
    BY <1>0, <1>02, <1>11 DEF Stores!Kill
  <2>3. failed' \in BOOLEAN
    BY <1>11, Zenon DEF Stores!Kill
  <2>4. UNCHANGED <<backend, key, stored, temp, table, nextId, hand, read, storesEntries, done, storesOverlap>>
    BY <1>11 DEF Stores!Kill
  <2> QED  BY <1>0, <1>00, <2>1, <2>2, <2>3, <2>4
<1>12. CASE UNCHANGED Stores!vars
  BY <1>0, <1>00, <1>12 DEF Stores!vars
<1> QED  BY <1>1, <1>2, <1>3, <1>4, <1>5, <1>6, <1>7, <1>8, <1>9, <1>10, <1>11, <1>12 DEF Stores!Next

\* No two calls at work have the same entry, every entry at an insert has an
\* id to come, ids ascend, and each store takes its own steps.
LEMMA StoresNextCounted ==
    StoresInv /\ [Stores!Next]_(Stores!vars) => HandsCounted' /\ IdsAscend' /\ StepsOfBackend' /\ OneWriter'
<1> SUFFICES ASSUME StoresInv, [Stores!Next]_(Stores!vars)
             PROVE  HandsCounted' /\ IdsAscend' /\ StepsOfBackend' /\ OneWriter'
  OBVIOUS
<1> DEFINE Busy(l) == l # "idle"
           File(l) == l \in {"open", "write", "replace"}
           Table(l) == l \in {"upsert", "insert", "commit"}
<1>0. /\ \A p \in Process : Busy(storesPc[p]) => hand[p] \in 1..storesEntries
      /\ \A p, q \in Process : Busy(storesPc[p]) /\ Busy(storesPc[q]) /\ hand[p] = hand[q] => p = q
      /\ Cardinality(Inserting) + nextId <= storesEntries + 1
      /\ \A r \in table : r.id < nextId
      /\ \A p \in Process : storesPc[p] = "commit" => \E i \in 1..(nextId - 1) : read[p].lines = {i}
      /\ backend = "sqlite" =>
           /\ \A p, q \in Process : storesPc[p] = "commit" /\ storesPc[q] = "commit" => p = q
           /\ \A p \in Process : storesPc[p] = "commit" => \A r \in table, i \in read[p].lines : r.id < i
      /\ \A p \in Process : File(storesPc[p]) => backend = "file"
      /\ \A p \in Process : Table(storesPc[p]) => backend # "file"
      /\ ~storesOverlap => \A p, q \in Process : Busy(storesPc[p]) /\ Busy(storesPc[q]) => p = q
      /\ HandsCounted /\ IdsAscend /\ OneWriter
  BY DEF StoresInv, HandsCounted, IdsAscend, StepsOfBackend, OneWriter
<1>01. /\ DOMAIN storesPc = Process /\ DOMAIN hand = Process /\ DOMAIN read = Process
       /\ nextId \in Nat /\ storesEntries \in Nat /\ storesOverlap \in BOOLEAN
       /\ \A r \in table : r.id \in Nat
  BY StoresConstants DEF StoresInv, Stores!TypeOK
<1>02. IsFiniteSet(Inserting) /\ Cardinality(Inserting) \in Nat
  <2>1. Inserting \subseteq 1..storesEntries
    BY <1>0 DEF Inserting
  <2>2. 1 \in Int /\ storesEntries \in Int
    BY <1>01
  <2>3. IsFiniteSet(1..storesEntries)
    BY <2>2, FS_Interval, Zenon
  <2> QED  BY <2>1, <2>3, FS_Subset, FS_CardinalityType
<1>03. ASSUME NEW p \in Process, NEW l, Stores!Goto(p, l)
       PROVE  storesPc'[p] = l /\ \A q \in Process \ {p} : storesPc'[q] = storesPc[q]
  BY <1>01, <1>03 DEF Stores!Goto
<1> USE DEF Stores!kind, Stores!files, Stores!rows, Stores!past
\* A step in which nothing begins and nobody gets an id.
<1>04. ASSUME UNCHANGED <<hand, storesEntries, nextId, table, backend, storesOverlap>>,
              \A q \in Process : /\ Busy(storesPc'[q]) => Busy(storesPc[q])
                                 /\ storesPc'[q] = "insert" => storesPc[q] = "insert"
                                 /\ storesPc'[q] = "commit" => storesPc[q] = "commit" /\ read'[q] = read[q],
              StepsOfBackend'
       PROVE  HandsCounted' /\ IdsAscend' /\ StepsOfBackend' /\ OneWriter'
  <2>1. Cardinality(Inserting') <= Cardinality(Inserting) /\ Cardinality(Inserting') \in Nat
    <3>1. Inserting' \subseteq Inserting
      BY <1>04 DEF Inserting
    <3>2. IsFiniteSet(Inserting')
      BY <1>02, <3>1, FS_Subset
    <3> QED  BY <1>02, <3>1, <3>2, FS_Subset, FS_CardinalityType
  <2>2. Cardinality(Inserting') + nextId <= storesEntries + 1
    BY <1>0, <1>01, <1>02, <2>1
  <2>3. HandsCounted'
    BY <1>0, <1>04, <2>2 DEF HandsCounted
  <2>4. IdsAscend'
    BY <1>0, <1>04 DEF IdsAscend
  <2>5. OneWriter'
    BY <1>0, <1>04 DEF OneWriter
  <2> QED  BY <1>04, <2>3, <2>4, <2>5
\* A call of p begins.
<1>05. ASSUME NEW p \in Process, NEW l \in {"open", "upsert", "insert"}, Stores!Start(p, l),
              UNCHANGED <<nextId, table, backend>>, \A q \in Process \ {p} : read'[q] = read[q],
              l = "open" <=> backend = "file"
       PROVE  HandsCounted' /\ IdsAscend' /\ StepsOfBackend' /\ OneWriter'
  <2>1. /\ storesPc[p] = "idle" /\ storesEntries' = storesEntries + 1
        /\ hand' = [hand EXCEPT ![p] = storesEntries + 1] /\ Stores!Goto(p, l)
        /\ storesOverlap' = (storesOverlap \/ \E q \in Process : storesPc[q] # "idle")
    BY <1>05 DEF Stores!Start
  <2>2. /\ storesPc'[p] = l /\ hand'[p] = storesEntries + 1
        /\ \A q \in Process \ {p} : storesPc'[q] = storesPc[q] /\ hand'[q] = hand[q]
    BY <1>01, <1>03, <2>1
  <2>3. Cardinality(Inserting') <= Cardinality(Inserting) + 1 /\ Cardinality(Inserting') \in Nat
    <3>1. Inserting' \subseteq Inserting \cup {storesEntries + 1}
      BY <2>2 DEF Inserting
    <3>2. /\ IsFiniteSet(Inserting \cup {storesEntries + 1})
          /\ Cardinality(Inserting \cup {storesEntries + 1}) <= Cardinality(Inserting) + 1
      BY <1>02, FS_AddElement
    <3>3. /\ IsFiniteSet(Inserting')
          /\ Cardinality(Inserting') <= Cardinality(Inserting \cup {storesEntries + 1})
      BY <3>1, <3>2, FS_Subset
    <3>4. Cardinality(Inserting') \in Nat /\ Cardinality(Inserting \cup {storesEntries + 1}) \in Nat
      BY <3>2, <3>3, FS_CardinalityType
    <3> QED  BY <1>02, <3>2, <3>3, <3>4
  <2>4. Cardinality(Inserting') + nextId' <= storesEntries' + 1
    BY <1>0, <1>01, <1>02, <1>05, <2>1, <2>3
  <2>5. \A q \in Process : Busy(storesPc'[q]) => hand'[q] \in 1..storesEntries'
    <3>1. storesEntries + 1 \in 1..storesEntries' /\ \A n \in 1..storesEntries : n \in 1..storesEntries'
      BY <1>01, <2>1
    <3> QED  BY <1>0, <2>2, <3>1
  <2>6. \A q, r \in Process : Busy(storesPc'[q]) /\ Busy(storesPc'[r]) /\ hand'[q] = hand'[r] => q = r
    <3>1. \A n \in 1..storesEntries : n # storesEntries + 1
      BY <1>01
    <3> QED  BY <1>0, <2>2, <3>1
  <2>7. HandsCounted'
    BY <2>4, <2>5, <2>6 DEF HandsCounted
  <2>8. \A q \in Process : storesPc'[q] = "commit" => q # p /\ storesPc[q] = "commit" /\ read'[q] = read[q]
    BY <1>05, <2>2
  <2>9. IdsAscend'
    BY <1>0, <1>05, <2>8 DEF IdsAscend
  <2>10. StepsOfBackend'
    BY <1>0, <1>05, <2>2 DEF StepsOfBackend
  <2>11. OneWriter'
    BY <2>1, <2>2 DEF OneWriter
  <2> QED  BY <2>7, <2>9, <2>10, <2>11
<1>1. ASSUME NEW p \in Process, Stores!StartPut(p) \/ Stores!ReadFails(p)
      PROVE  HandsCounted' /\ IdsAscend' /\ StepsOfBackend' /\ OneWriter'
  <2>1. /\ Stores!Start(p, IF backend = "file" THEN "open" ELSE "upsert")
        /\ \E b : read' = [read EXCEPT ![p] = b]
        /\ UNCHANGED <<nextId, table, backend>>
    BY <1>1 DEF Stores!StartPut, Stores!ReadFails
  <2>2. \A q \in Process \ {p} : read'[q] = read[q]
    BY <1>01, <2>1
  <2>3. CASE backend = "file"
    <3>1. Stores!Start(p, "open")
      BY <2>1, <2>3
    <3> QED  BY <1>05, <2>1, <2>2, <2>3, <3>1
  <2>4. CASE backend # "file"
    <3>1. Stores!Start(p, "upsert")
      BY <2>1, <2>4
    <3> QED  BY <1>05, <2>1, <2>2, <2>4, <3>1
  <2> QED  BY <2>3, <2>4
<1>2. ASSUME NEW p \in Process, Stores!StartAppend(p)
      PROVE  HandsCounted' /\ IdsAscend' /\ StepsOfBackend' /\ OneWriter'
  <2>1. Stores!Start(p, "insert") /\ UNCHANGED <<nextId, table, backend, read>> /\ backend # "file"
    BY <1>2 DEF Stores!StartAppend
  <2> QED  BY <1>05, <2>1
<1>3. ASSUME NEW p \in Process, Stores!Open(p) \/ Stores!Write(p)
      PROVE  HandsCounted' /\ IdsAscend' /\ StepsOfBackend' /\ OneWriter'
  <2>1. /\ UNCHANGED <<hand, read, storesEntries, nextId, table, backend, storesOverlap>>
        /\ File(storesPc[p])
        /\ \E l \in {"write", "replace"} : Stores!Goto(p, l)
    BY <1>3 DEF Stores!Open, Stores!Write
  <2>2. /\ storesPc'[p] \in {"write", "replace"}
        /\ \A q \in Process \ {p} : storesPc'[q] = storesPc[q]
    BY <1>03, <2>1
  <2>3. StepsOfBackend'
    BY <1>0, <2>1, <2>2 DEF StepsOfBackend
  <2>4. \A q \in Process : /\ Busy(storesPc'[q]) => Busy(storesPc[q])
                           /\ storesPc'[q] = "insert" => storesPc[q] = "insert"
                           /\ storesPc'[q] = "commit" => storesPc[q] = "commit" /\ read'[q] = read[q]
    BY <2>1, <2>2
  <2> HIDE DEF Busy
  <2> QED  BY <1>04, <2>1, <2>3, <2>4
<1>4. ASSUME NEW p \in Process,
             \/ Stores!Replace(p) \/ Stores!Upsert(p) \/ Stores!PutFails(p) \/ Stores!Rollback(p)
             \/ Stores!Kill(p)
      PROVE  HandsCounted' /\ IdsAscend' /\ StepsOfBackend' /\ OneWriter'
  <2>1. /\ UNCHANGED <<hand, read, storesEntries, nextId, table, backend, storesOverlap>>
        /\ Stores!Goto(p, "idle")
    BY <1>4 DEF Stores!Replace, Stores!Upsert, Stores!PutFails, Stores!Rollback, Stores!Kill, Stores!Finish
  <2>2. storesPc'[p] = "idle" /\ \A q \in Process \ {p} : storesPc'[q] = storesPc[q]
    BY <1>03, <2>1
  <2>3. StepsOfBackend'
    BY <1>0, <2>1, <2>2 DEF StepsOfBackend
  <2>4. \A q \in Process : /\ Busy(storesPc'[q]) => Busy(storesPc[q])
                           /\ storesPc'[q] = "insert" => storesPc[q] = "insert"
                           /\ storesPc'[q] = "commit" => storesPc[q] = "commit" /\ read'[q] = read[q]
    BY <2>1, <2>2
  <2> HIDE DEF Busy
  <2> QED  BY <1>04, <2>1, <2>3, <2>4
<1>5. CASE UNCHANGED Stores!vars \/ \E p \in Process : Stores!Delete(p)
  <2>1. UNCHANGED <<hand, read, storesEntries, nextId, table, backend, storesOverlap, storesPc>>
    BY <1>5 DEF Stores!vars, Stores!Delete
  <2>2. StepsOfBackend'
    BY <2>1 DEF StoresInv, StepsOfBackend
  <2> QED  BY <1>04, <2>1, <2>2
<1>6. ASSUME NEW p \in Process, Stores!Insert(p)
      PROVE  HandsCounted' /\ IdsAscend' /\ StepsOfBackend' /\ OneWriter'
  <2>1. /\ storesPc[p] = "insert" /\ Stores!Goto(p, "commit") /\ nextId' = nextId + 1
        /\ read' = [read EXCEPT ![p] = [lines |-> {nextId}, whole |-> TRUE]]
        /\ backend = "sqlite" => \A q \in Process : storesPc[q] # "commit"
        /\ UNCHANGED <<hand, storesEntries, table, backend, storesOverlap>>
    BY <1>6 DEF Stores!Insert, Stores!MayInsert
  <2>2. /\ storesPc'[p] = "commit" /\ read'[p].lines = {nextId}
        /\ \A q \in Process \ {p} : storesPc'[q] = storesPc[q] /\ read'[q] = read[q]
    BY <1>01, <1>03, <2>1
  <2>3. Inserting' = Inserting \ {hand[p]} /\ hand[p] \in Inserting
    <3>1. \A q \in Process : storesPc[q] = "insert" /\ hand[q] = hand[p] => q = p
      BY <1>0, <2>1
    <3>2. \A q \in Process : storesPc'[q] = "insert" <=> storesPc[q] = "insert" /\ q # p
      BY <2>2
    <3> QED  BY <2>1, <3>1, <3>2 DEF Inserting
  <2>4. Cardinality(Inserting') = Cardinality(Inserting) - 1
    BY <1>02, <2>3, FS_RemoveElement
  <2>5. Cardinality(Inserting') + nextId' <= storesEntries' + 1
    BY <1>0, <1>01, <1>02, <2>1, <2>4
  <2>6. \A q \in Process : Busy(storesPc'[q]) <=> Busy(storesPc[q])
    BY <2>1, <2>2
  <2>7. HandsCounted'
    BY <1>0, <2>1, <2>5, <2>6 DEF HandsCounted
  <2>8. OneWriter'
    BY <1>0, <2>1, <2>6 DEF OneWriter
  <2>9. StepsOfBackend'
    BY <1>0, <2>1, <2>2 DEF StepsOfBackend
  <2>10. nextId \in 1..(nextId' - 1) /\ \A i \in 1..(nextId - 1) : i \in 1..(nextId' - 1)
    <3>1. nextId \in 1..(MaxEntries + 1)
      BY DEF StoresInv, Stores!TypeOK
    <3> QED  BY <1>01, <2>1, <3>1, StoresConstants
  <2>11. \A q \in Process : storesPc'[q] = "commit" => \E i \in 1..(nextId' - 1) : read'[q].lines = {i}
    BY <1>0, <2>2, <2>10
  <2>12. \A r \in table' : r.id < nextId'
    BY <1>0, <1>01, <2>1
  <2>13. backend = "sqlite" => \A q \in Process : storesPc'[q] = "commit" => q = p
    BY <2>1, <2>2
  <2>14. backend = "sqlite" =>
           \A q \in Process : storesPc'[q] = "commit" => \A r \in table', i \in read'[q].lines : r.id < i
    BY <1>0, <2>1, <2>2, <2>13
  <2>15. IdsAscend'
    BY <2>1, <2>11, <2>12, <2>13, <2>14 DEF IdsAscend
  <2> QED  BY <2>7, <2>8, <2>9, <2>15
<1>7. ASSUME NEW p \in Process, Stores!Commit(p)
      PROVE  HandsCounted' /\ IdsAscend' /\ StepsOfBackend' /\ OneWriter'
  <2>1. /\ storesPc[p] = "commit" /\ Stores!Goto(p, "idle")
        /\ table' = table \cup {[id |-> i, record |-> hand[p]] : i \in read[p].lines}
        /\ UNCHANGED <<hand, read, storesEntries, nextId, backend, storesOverlap>>
    BY <1>7 DEF Stores!Commit, Stores!Finish
  <2>2. storesPc'[p] = "idle" /\ \A q \in Process \ {p} : storesPc'[q] = storesPc[q]
    BY <1>03, <2>1
  <2>3. \A q \in Process : /\ Busy(storesPc'[q]) => Busy(storesPc[q]) /\ q # p
                           /\ storesPc'[q] = "insert" => storesPc[q] = "insert"
                           /\ storesPc'[q] = "commit" => storesPc[q] = "commit" /\ q # p
    BY <2>2
  <2>4. HandsCounted'
    <3>1. Inserting' = Inserting
      BY <2>1, <2>2 DEF Inserting
    <3> QED  BY <1>0, <2>1, <2>3, <3>1 DEF HandsCounted
  <2>5. StepsOfBackend'
    BY <1>0, <2>1, <2>2 DEF StepsOfBackend
  <2>6. OneWriter'
    BY <1>0, <2>1, <2>3 DEF OneWriter
  <2>7. \A r \in table' : r.id < nextId'
    <3>1. PICK i \in 1..(nextId - 1) : read[p].lines = {i}
      BY <1>0, <2>1
    <3>2. i < nextId
      BY <1>01
    <3> QED  BY <1>0, <2>1, <3>1, <3>2
  <2>8. backend = "sqlite" => \A q \in Process : storesPc'[q] # "commit"
    BY <1>0, <2>1, <2>3
  <2>9. \A q \in Process : storesPc'[q] = "commit" => \E i \in 1..(nextId' - 1) : read'[q].lines = {i}
    BY <1>0, <2>1, <2>3
  <2>10. IdsAscend'
    BY <2>1, <2>7, <2>8, <2>9 DEF IdsAscend
  <2> QED  BY <2>4, <2>5, <2>6, <2>10
<1> QED  BY <1>1, <1>2, <1>3, <1>4, <1>5, <1>6, <1>7 DEF Stores!Next

LEMMA StoresNextWhole == StoresInv /\ [Stores!Next]_(Stores!vars) => TempIsMine' /\ PutsAreWhole'
<1> SUFFICES ASSUME StoresInv, [Stores!Next]_(Stores!vars) PROVE TempIsMine' /\ PutsAreWhole'
  OBVIOUS
<1> DEFINE Puts(l) == l \in {"open", "write", "replace", "upsert"}
           Mine(l, h, t, r) ==
             /\ h = IF l = "write" THEN "temp" ELSE "none"
             /\ l = "write" => t = Stores!Empty
             /\ l = "replace" => t = r
           Sound == backend = "file" => ~storesOverlap
           Alone == backend = "file" /\ ~storesOverlap
<1>0. /\ Alone => \A p \in Process : Mine(storesPc[p], handle[p], temp, read[p])
      /\ Sound => stored.whole /\ \A p \in Process : Puts(storesPc[p]) => read[p].whole
      /\ \A p \in Process : storesPc[p] \in {"open", "write", "replace"} => backend = "file"
      /\ \A p \in Process : storesPc[p] \in {"upsert", "insert", "commit"} => backend # "file"
      /\ ~storesOverlap => \A p, q \in Process : storesPc[p] # "idle" /\ storesPc[q] # "idle" => p = q
      /\ Stores!TypeOK
  BY DEF StoresInv, TempIsMine, PutsAreWhole, StepsOfBackend, OneWriter, Putting
<1>01. /\ DOMAIN storesPc = Process /\ DOMAIN hand = Process /\ DOMAIN read = Process
       /\ DOMAIN handle = Process /\ storesOverlap \in BOOLEAN
  BY DEF StoresInv, Stores!TypeOK
<1>00. ASSUME Alone' => \A p \in Process : Mine(storesPc'[p], handle'[p], temp', read'[p]),
              Sound' => stored'.whole /\ \A p \in Process : Puts(storesPc'[p]) => read'[p].whole
       PROVE  TempIsMine' /\ PutsAreWhole'
  <2>1. TempIsMine'
    BY <1>00 DEF TempIsMine
  <2>2. PutsAreWhole'
    BY <1>00 DEF PutsAreWhole, Putting
  <2> QED  BY <2>1, <2>2
<1>03. ASSUME NEW p \in Process, NEW l, Stores!Goto(p, l)
       PROVE  storesPc'[p] = l /\ \A q \in Process \ {p} : storesPc'[q] = storesPc[q]
  BY <1>01, <1>03 DEF Stores!Goto
<1>04. Alone => Sound
  OBVIOUS
<1> USE DEF Stores!kind, Stores!files, Stores!rows, Stores!past
\* A call of p begins.
<1>1. ASSUME NEW p \in Process, Stores!StartPut(p) \/ Stores!ReadFails(p)
      PROVE  TempIsMine' /\ PutsAreWhole'
  <2>1. /\ Stores!Start(p, IF backend = "file" THEN "open" ELSE "upsert")
        /\ \E w, s : /\ read' = [read EXCEPT ![p] = [lines |-> s, whole |-> w]]
                     /\ stored.whole => w
        /\ UNCHANGED <<backend, stored, temp, handle>>
    BY <1>1 DEF Stores!StartPut, Stores!ReadFails
  <2>2. /\ storesPc[p] = "idle" /\ Stores!Goto(p, IF backend = "file" THEN "open" ELSE "upsert")
        /\ storesOverlap' = (storesOverlap \/ \E q \in Process : storesPc[q] # "idle")
    BY <2>1 DEF Stores!Start
  <2>3. /\ storesPc'[p] = (IF backend = "file" THEN "open" ELSE "upsert")
        /\ \A q \in Process \ {p} : storesPc'[q] = storesPc[q] /\ read'[q] = read[q]
        /\ stored.whole => read'[p].whole
    BY <1>01, <1>03, <2>1, <2>2
  <2>4. Alone' => Alone /\ \A q \in Process : storesPc[q] = "idle"
    BY <2>1, <2>2
  <2>5. Sound' => Sound
    BY <2>1, <2>2
  <2>6. Alone' => \A q \in Process : Mine(storesPc'[q], handle'[q], temp', read'[q])
    <3>1. SUFFICES ASSUME Alone' PROVE \A q \in Process : Mine(storesPc'[q], handle'[q], temp', read'[q])
      OBVIOUS
    <3>2. \A q \in Process : handle[q] = "none"
      BY <1>0, <2>4, <3>1
    <3>3. \A q \in Process : storesPc'[q] \in {"idle", "open"}
      BY <2>1, <2>3, <2>4, <3>1
    <3> QED  BY <2>1, <3>2, <3>3
  <2>7. Sound' => stored'.whole /\ \A q \in Process : Puts(storesPc'[q]) => read'[q].whole
    <3> HIDE DEF Sound, Alone
    <3> QED  BY <1>0, <2>1, <2>3, <2>5
  <2> HIDE DEF Sound, Alone, Mine, Puts
  <2> QED  BY <1>00, <2>6, <2>7
\* A step of p at the file, under the temporary name.
<1>2. ASSUME NEW p \in Process, Stores!Open(p)
      PROVE  TempIsMine' /\ PutsAreWhole'
  <2>1. /\ storesPc[p] = "open" /\ temp' = Stores!Empty /\ handle' = [handle EXCEPT ![p] = "temp"]
        /\ Stores!Goto(p, "write") /\ UNCHANGED <<backend, stored, read, storesOverlap>>
    BY <1>2 DEF Stores!Open
  <2>2. /\ storesPc'[p] = "write" /\ handle'[p] = "temp"
        /\ \A q \in Process \ {p} : storesPc'[q] = storesPc[q] /\ handle'[q] = handle[q]
    BY <1>01, <1>03, <2>1
  <2>3. Alone' => \A q \in Process : Mine(storesPc'[q], handle'[q], temp', read'[q])
    <3>1. SUFFICES ASSUME Alone' PROVE \A q \in Process : Mine(storesPc'[q], handle'[q], temp', read'[q])
      OBVIOUS
    <3>2. Alone /\ \A q \in Process \ {p} : storesPc[q] = "idle"
      BY <1>0, <2>1, <3>1
    <3>3. \A q \in Process \ {p} : Mine(storesPc'[q], handle'[q], temp', read'[q])
      BY <1>0, <2>2, <3>2
    <3>4. Mine(storesPc'[p], handle'[p], temp', read'[p])
      BY <2>1, <2>2
    <3> HIDE DEF Mine
    <3> QED  BY <3>3, <3>4
  <2>4. Sound' => stored'.whole /\ \A q \in Process : Puts(storesPc'[q]) => read'[q].whole
    BY <1>0, <2>1, <2>2
  <2> HIDE DEF Sound, Alone, Mine, Puts
  <2> QED  BY <1>00, <2>3, <2>4
<1>3. ASSUME NEW p \in Process, Stores!Write(p)
      PROVE  TempIsMine' /\ PutsAreWhole'
  <2>1. /\ storesPc[p] = "write" /\ handle' = [handle EXCEPT ![p] = "none"]
        /\ Stores!Goto(p, "replace") /\ UNCHANGED <<backend, read, storesOverlap>>
        /\ handle[p] = "temp" => temp' \in Stores!Over(p, temp) /\ UNCHANGED stored
    BY <1>3 DEF Stores!Write
  <2>2. /\ storesPc'[p] = "replace" /\ handle'[p] = "none"
        /\ \A q \in Process \ {p} : storesPc'[q] = storesPc[q] /\ handle'[q] = handle[q]
    BY <1>01, <1>03, <2>1
  <2>3. backend = "file" /\ (Alone' <=> Alone) /\ (Sound' <=> Alone)
    BY <1>0, <2>1
  <2>4. Alone => temp' = read[p] /\ UNCHANGED stored /\ \A q \in Process \ {p} : storesPc[q] = "idle"
    <3>1. SUFFICES ASSUME Alone
                   PROVE  temp' = read[p] /\ UNCHANGED stored /\ \A q \in Process \ {p} : storesPc[q] = "idle"
      OBVIOUS
    <3>2. handle[p] = "temp" /\ temp = Stores!Empty
      BY <1>0, <2>1, <3>1
    <3>3. Stores!Over(p, Stores!Empty) = {read[p]}
      BY <1>0, OverIs
    <3>4. temp' = read[p] /\ UNCHANGED stored
      BY <2>1, <3>2, <3>3
    <3> QED  BY <1>0, <2>1, <3>1, <3>4
  <2>5. Alone' => \A q \in Process : Mine(storesPc'[q], handle'[q], temp', read'[q])
    <3>1. SUFFICES ASSUME Alone' PROVE \A q \in Process : Mine(storesPc'[q], handle'[q], temp', read'[q])
      OBVIOUS
    <3>2. Alone
      BY <2>3, <3>1
    <3>3. \A q \in Process \ {p} : Mine(storesPc'[q], handle'[q], temp', read'[q])
      BY <1>0, <2>2, <2>4, <3>2
    <3>4. Mine(storesPc'[p], handle'[p], temp', read'[p])
      BY <2>1, <2>2, <2>4, <3>2
    <3> HIDE DEF Mine
    <3> QED  BY <3>3, <3>4
  <2>6. Sound' => stored'.whole /\ \A q \in Process : Puts(storesPc'[q]) => read'[q].whole
    BY <1>0, <2>1, <2>2, <2>3, <2>4
  <2> HIDE DEF Sound, Alone, Mine, Puts
  <2> QED  BY <1>00, <2>5, <2>6
<1>4. ASSUME NEW p \in Process, Stores!Replace(p)
      PROVE  TempIsMine' /\ PutsAreWhole'
  <2>1. /\ storesPc[p] = "replace" /\ Stores!Goto(p, "idle") /\ UNCHANGED <<backend, read, storesOverlap>>
        /\ \/ Stores!Renamed
           \/ UNCHANGED <<stored, temp, handle>>
    BY <1>4 DEF Stores!Replace, Stores!Finish
  <2>2. storesPc'[p] = "idle" /\ \A q \in Process \ {p} : storesPc'[q] = storesPc[q]
    BY <1>03, <2>1
  <2>3. backend = "file" /\ (Alone' <=> Alone) /\ (Sound' <=> Alone)
    BY <1>0, <2>1
  <2>4. Alone => /\ \A q \in Process : handle[q] = "none" /\ storesPc'[q] = "idle"
                 /\ temp = read[p] /\ stored.whole /\ read[p].whole
    <3>1. SUFFICES ASSUME Alone
                   PROVE  /\ \A q \in Process : handle[q] = "none" /\ storesPc'[q] = "idle"
                          /\ temp = read[p] /\ stored.whole /\ read[p].whole
      OBVIOUS
    <3>2. \A q \in Process \ {p} : storesPc[q] = "idle"
      BY <1>0, <2>1, <3>1
    <3>3. \A q \in Process : storesPc[q] # "write"
      BY <2>1, <3>2
    <3>4. \A q \in Process : Mine(storesPc[q], handle[q], temp, read[q])
      BY <1>0, <3>1
    <3>5. \A q \in Process : handle[q] = "none"
      BY <3>3, <3>4
    <3>6. temp = read[p]
      BY <2>1, <3>4
    <3> QED  BY <1>0, <2>1, <2>2, <2>3, <3>1, <3>2, <3>5, <3>6
  <2>5. Alone => \A q \in Process : handle'[q] = "none"
    BY <2>1, <2>4 DEF Stores!Renamed
  <2>6. Alone => stored'.whole
    BY <2>1, <2>4 DEF Stores!Renamed
  <2>7. Alone' => \A q \in Process : Mine(storesPc'[q], handle'[q], temp', read'[q])
    BY <2>3, <2>4, <2>5
  <2>8. Sound' => stored'.whole /\ \A q \in Process : Puts(storesPc'[q]) => read'[q].whole
    BY <2>3, <2>4, <2>6
  <2> HIDE DEF Sound, Alone, Mine, Puts
  <2> QED  BY <1>00, <2>7, <2>8
\* A call of p ends with what is stored as it was.
<1>05. ASSUME NEW p \in Process, Stores!Goto(p, "idle"), UNCHANGED <<backend, stored, temp, read, storesOverlap>>,
              handle' = [handle EXCEPT ![p] = "none"]
       PROVE  TempIsMine' /\ PutsAreWhole'
  <2>1. /\ storesPc'[p] = "idle" /\ handle'[p] = "none"
        /\ \A q \in Process \ {p} : storesPc'[q] = storesPc[q] /\ handle'[q] = handle[q]
    BY <1>01, <1>03, <1>05
  <2>2. Alone' => \A q \in Process : Mine(storesPc'[q], handle'[q], temp', read'[q])
    BY <1>0, <1>05, <2>1
  <2>3. Sound' => stored'.whole /\ \A q \in Process : Puts(storesPc'[q]) => read'[q].whole
    BY <1>0, <1>05, <2>1
  <2> HIDE DEF Sound, Alone, Mine, Puts
  <2> QED  BY <1>00, <2>2, <2>3
<1>5. ASSUME NEW p \in Process, Stores!PutFails(p) \/ Stores!Kill(p)
      PROVE  TempIsMine' /\ PutsAreWhole'
  <2>1. /\ Stores!Goto(p, "idle") /\ UNCHANGED <<backend, stored, temp, read, storesOverlap>>
        /\ handle' = [handle EXCEPT ![p] = "none"]
    BY <1>5 DEF Stores!PutFails, Stores!Kill, Stores!Finish
  <2> QED  BY <1>05, <2>1
\* Steps of a table.
<1>6. ASSUME NEW p \in Process, Stores!Upsert(p)
      PROVE  TempIsMine' /\ PutsAreWhole'
  <2>1. /\ storesPc[p] = "upsert" /\ Stores!Goto(p, "idle") /\ stored' = read[p]
        /\ UNCHANGED <<backend, read, storesOverlap>>
    BY <1>6 DEF Stores!Upsert, Stores!Finish
  <2>2. storesPc'[p] = "idle" /\ \A q \in Process \ {p} : storesPc'[q] = storesPc[q]
    BY <1>03, <2>1
  <2>3. backend # "file"
    BY <1>0, <2>1
  <2>4. ~Alone' /\ Sound
    BY <2>1, <2>3
  <2>5. Puts(storesPc[p])
    BY <2>1
  <2>6. Sound' => stored'.whole /\ \A q \in Process : Puts(storesPc'[q]) => read'[q].whole
    <3>1. \A q \in Process : Puts(storesPc'[q]) => Puts(storesPc[q])
      BY <2>2
    <3> HIDE DEF Sound, Alone, Puts
    <3> QED  BY <1>0, <2>1, <2>4, <2>5, <3>1
  <2> HIDE DEF Sound, Alone, Mine, Puts
  <2> QED  BY <1>00, <2>4, <2>6
<1>7. ASSUME NEW p \in Process, Stores!StartAppend(p) \/ Stores!Insert(p) \/ Stores!Commit(p) \/ Stores!Rollback(p)
      PROVE  TempIsMine' /\ PutsAreWhole'
  <2>1. /\ \E l \in {"insert", "commit", "idle"} : Stores!Goto(p, l)
        /\ \A q \in Process \ {p} : read'[q] = read[q]
        /\ backend # "file" /\ UNCHANGED <<backend, stored>>
    <3>1. read' = read \/ \E b : read' = [read EXCEPT ![p] = b]
      BY <1>7 DEF Stores!StartAppend, Stores!Insert, Stores!Commit, Stores!Rollback
    <3>2. backend # "file"
      BY <1>0, <1>7 DEF Stores!StartAppend, Stores!Insert, Stores!Commit, Stores!Rollback
    <3> QED  BY <1>01, <1>7, <3>1, <3>2
             DEF Stores!StartAppend, Stores!Insert, Stores!Commit, Stores!Rollback, Stores!Start, Stores!Finish
  <2>2. storesPc'[p] \in {"insert", "commit", "idle"} /\ \A q \in Process \ {p} : storesPc'[q] = storesPc[q]
    BY <1>03, <2>1
  <2>3. ~Alone' /\ Sound
    BY <2>1
  <2>4. \A q \in Process : Puts(storesPc'[q]) => q # p /\ Puts(storesPc[q])
    BY <2>2
  <2>5. Sound' => stored'.whole /\ \A q \in Process : Puts(storesPc'[q]) => read'[q].whole
    <3> HIDE DEF Sound, Alone, Puts
    <3> QED  BY <1>0, <2>1, <2>3, <2>4
  <2> HIDE DEF Sound, Alone, Mine, Puts
  <2> QED  BY <1>00, <2>3, <2>5
<1>8. ASSUME NEW p \in Process, Stores!Delete(p)
      PROVE  TempIsMine' /\ PutsAreWhole'
  <2>1. /\ stored' = Stores!Missing /\ UNCHANGED <<backend, temp, storesPc, read, storesOverlap>>
        /\ handle' = [q \in Process |-> IF handle[q] = "blob" THEN "none" ELSE handle[q]]
    BY <1>8 DEF Stores!Delete
  <2>2. stored'.whole
    BY <2>1 DEF Stores!Missing
  <2>3. Alone' => \A q \in Process : Mine(storesPc'[q], handle'[q], temp', read'[q])
    BY <1>0, <2>1
  <2>4. Sound' => stored'.whole /\ \A q \in Process : Puts(storesPc'[q]) => read'[q].whole
    BY <1>0, <2>1, <2>2
  <2> HIDE DEF Sound, Alone, Mine, Puts
  <2> QED  BY <1>00, <2>3, <2>4
<1>9. CASE UNCHANGED Stores!vars
  <2>1. UNCHANGED <<backend, stored, temp, handle, storesPc, read, storesOverlap>>
    BY <1>9 DEF Stores!vars
  <2> QED  BY <1>0, <1>00, <2>1
<1> QED  BY <1>1, <1>2, <1>3, <1>4, <1>5, <1>6, <1>7, <1>8, <1>9 DEF Stores!Next

LEMMA StoresNextKept == StoresInv /\ [Stores!Next]_(Stores!vars) => LedgerGrows'
<1> SUFFICES ASSUME StoresInv, [Stores!Next]_(Stores!vars), key' = "ledger", ~storesOverlap', ~failed'
             PROVE  /\ \A e \in done' : e \in stored'.lines \cup {r.record : r \in table'}
                    /\ \A p \in Process : Putting(p)' => stored'.lines \cup {hand'[p]} \subseteq read'[p].lines
  BY DEF LedgerGrows
<1> DEFINE Puts(l) == l \in {"open", "write", "replace", "upsert"}
           Records(t) == {r.record : r \in t}
           Goal == /\ \A e \in done' : e \in stored'.lines \cup Records(table')
                   /\ \A p \in Process : Puts(storesPc'[p]) => stored'.lines \cup {hand'[p]} \subseteq read'[p].lines
<1> SUFFICES Goal
  BY DEF Putting
<1> USE DEF Stores!kind, Stores!files, Stores!rows, Stores!past
<1>01. /\ DOMAIN storesPc = Process /\ DOMAIN hand = Process /\ DOMAIN read = Process
       /\ DOMAIN handle = Process /\ storesOverlap \in BOOLEAN /\ failed \in BOOLEAN /\ Stores!TypeOK
  BY DEF StoresInv, Stores!TypeOK
<1>02. ~storesOverlap /\ ~failed /\ key = "ledger"
  <2>1. CASE UNCHANGED Stores!vars
    BY <2>1 DEF Stores!vars
  <2>2. ASSUME NEW p \in Process, Stores!StartPut(p) \/ Stores!ReadFails(p) \/ Stores!StartAppend(p)
        PROVE  ~storesOverlap /\ ~failed /\ key = "ledger"
    <3>1. ~storesOverlap
      BY <1>01, <2>2 DEF Stores!StartPut, Stores!ReadFails, Stores!StartAppend, Stores!Start
    <3>2. ~failed /\ key = "ledger"
      BY <2>2 DEF Stores!StartPut, Stores!ReadFails, Stores!StartAppend
    <3> QED  BY <3>1, <3>2
  <2>3. ASSUME NEW p \in Process, \/ Stores!Open(p) \/ Stores!Write(p) \/ Stores!Replace(p) \/ Stores!Upsert(p)
                                  \/ Stores!Delete(p) \/ Stores!Insert(p) \/ Stores!Commit(p) \/ Stores!Rollback(p)
        PROVE  ~storesOverlap /\ ~failed /\ key = "ledger"
    BY <2>3 DEF Stores!Open, Stores!Write, Stores!Replace, Stores!Upsert, Stores!Delete, Stores!Insert,
                Stores!Commit, Stores!Rollback
  <2>4. ASSUME NEW p \in Process, Stores!PutFails(p) \/ Stores!Kill(p)
        PROVE  ~storesOverlap /\ ~failed /\ key = "ledger"
    <3>1. ~storesOverlap /\ key = "ledger"
      BY <2>4 DEF Stores!PutFails, Stores!Kill
    <3>2. ~failed
      BY <1>01, <2>4 DEF Stores!PutFails, Stores!Kill
    <3> QED  BY <3>1, <3>2
  <2> QED  BY <2>1, <2>2, <2>3, <2>4 DEF Stores!Next
<1>0. /\ \A e \in done : e \in stored.lines \cup Records(table)
      /\ \A p \in Process : Puts(storesPc[p]) => stored.lines \cup {hand[p]} \subseteq read[p].lines
      /\ \A p, q \in Process : storesPc[p] # "idle" /\ storesPc[q] # "idle" => p = q
      /\ \A p \in Process : storesPc[p] \in {"open", "write", "replace"} => backend = "file"
      /\ backend = "file" => \A p \in Process : /\ storesPc[p] = "write" => handle[p] = "temp"
                                                /\ storesPc[p] = "replace" => temp = read[p]
  BY <1>02 DEF StoresInv, LedgerGrows, Putting, OneWriter, TempIsMine, StepsOfBackend
<1>03. ASSUME NEW p \in Process, NEW l, Stores!Goto(p, l)
       PROVE  storesPc'[p] = l /\ \A q \in Process \ {p} : storesPc'[q] = storesPc[q]
  BY <1>01, <1>03 DEF Stores!Goto
<1> HIDE DEF Records
\* A call begins: nobody else is at work.
<1>04. ASSUME NEW p \in Process, NEW l, Stores!Start(p, l)
       PROVE  /\ storesPc'[p] = l /\ hand'[p] = storesEntries + 1
              /\ \A q \in Process \ {p} : storesPc'[q] = "idle"
  <2>1. /\ Stores!Goto(p, l) /\ hand' = [hand EXCEPT ![p] = storesEntries + 1]
        /\ storesOverlap' = (storesOverlap \/ \E q \in Process : storesPc[q] # "idle")
    BY <1>04 DEF Stores!Start
  <2>2. \A q \in Process : storesPc[q] = "idle"
    BY <2>1
  <2> QED  BY <1>01, <1>03, <2>1, <2>2
<1>1. ASSUME NEW p \in Process, Stores!StartPut(p)
      PROVE  Goal
  <2>1. /\ Stores!Start(p, IF backend = "file" THEN "open" ELSE "upsert")
        /\ read' = [read EXCEPT ![p] = [lines |-> Stores!Adds(p, stored), whole |-> key = "head" \/ stored.whole]]
        /\ UNCHANGED <<stored, table, done>>
    BY <1>1 DEF Stores!StartPut
  <2>2. hand'[p] = storesEntries + 1 /\ \A q \in Process \ {p} : storesPc'[q] = "idle"
    BY <1>04, <2>1
  <2>3. read'[p].lines = stored.lines \cup {storesEntries + 1}
    <3>1. read'[p].lines = Stores!Adds(p, stored)
      BY <1>01, <2>1
    <3> QED  BY <1>02, <3>1 DEF Stores!Adds
  <2> QED  BY <1>0, <2>1, <2>2, <2>3
<1>2. ASSUME NEW p \in Process, Stores!StartAppend(p)
      PROVE  Goal
  <2>1. Stores!Start(p, "insert") /\ UNCHANGED <<stored, table, done>>
    BY <1>2 DEF Stores!StartAppend
  <2>2. storesPc'[p] = "insert" /\ \A q \in Process \ {p} : storesPc'[q] = "idle"
    BY <1>04, <2>1
  <2>3. \A q \in Process : ~Puts(storesPc'[q])
    BY <2>2
  <2> HIDE DEF Puts
  <2> QED  BY <1>0, <2>1, <2>3
<1>3. ASSUME NEW p \in Process, Stores!Open(p) \/ Stores!Write(p)
      PROVE  Goal
  <2>1. /\ UNCHANGED <<table, done, hand, read>> /\ storesPc[p] \in {"open", "write"}
        /\ \E l \in {"write", "replace"} : Stores!Goto(p, l)
    BY <1>3 DEF Stores!Open, Stores!Write
  <2>2. UNCHANGED stored
    <3>1. CASE Stores!Open(p)
      BY <3>1 DEF Stores!Open
    <3>2. CASE Stores!Write(p)
      <4>1. handle[p] = "temp"
        BY <1>0, <3>2 DEF Stores!Write
      <4> QED  BY <3>2, <4>1 DEF Stores!Write
    <3> QED  BY <1>3, <3>1, <3>2
  <2>3. \A q \in Process : Puts(storesPc'[q]) => Puts(storesPc[q])
    BY <1>03, <2>1
  <2> HIDE DEF Puts
  <2> QED  BY <1>0, <2>1, <2>2, <2>3
<1>4. ASSUME NEW p \in Process, Stores!Replace(p) \/ Stores!Upsert(p)
      PROVE  Goal
  <2>1. /\ Stores!Goto(p, "idle") /\ done' = done \cup {hand[p]} /\ UNCHANGED <<table, hand, read>>
        /\ Puts(storesPc[p])
    BY <1>4 DEF Stores!Replace, Stores!Upsert, Stores!Finish
  <2>2. stored.lines \cup {hand[p]} \subseteq read[p].lines
    BY <1>0, <2>1
  <2>3. stored' = read[p]
    <3>1. CASE Stores!Upsert(p)
      BY <3>1 DEF Stores!Upsert
    <3>2. CASE Stores!Replace(p)
      <4>1. temp = read[p]
        BY <1>0, <3>2 DEF Stores!Replace
      <4>2. temp # Stores!Missing
        <5>1. Stores!Missing.lines = {}
          BY DEF Stores!Missing
        <5> QED  BY <2>2, <4>1, <5>1
      <4> QED  BY <3>2, <4>1, <4>2 DEF Stores!Replace, Stores!Renamed
    <3> QED  BY <1>4, <3>1, <3>2
  <2>4. \A q \in Process : ~Puts(storesPc'[q])
    <3>1. \A q \in Process \ {p} : storesPc[q] = "idle"
      BY <1>0, <2>1
    <3> QED  BY <1>03, <2>1, <3>1
  <2> HIDE DEF Puts
  <2> QED  BY <1>0, <2>1, <2>2, <2>3, <2>4
<1>5. ASSUME NEW p \in Process, Stores!Insert(p) \/ Stores!Rollback(p)
      PROVE  Goal
  <2>1. /\ UNCHANGED <<stored, table, done, hand>>
        /\ \E l \in {"commit", "idle"} : Stores!Goto(p, l)
        /\ read' = read \/ \E b : read' = [read EXCEPT ![p] = b]
    BY <1>5 DEF Stores!Insert, Stores!Rollback
  <2>2. \A q \in Process : Puts(storesPc'[q]) => q # p /\ Puts(storesPc[q])
    BY <1>03, <2>1
  <2>3. \A q \in Process \ {p} : read'[q] = read[q]
    BY <1>01, <2>1
  <2> HIDE DEF Puts
  <2> QED  BY <1>0, <2>1, <2>2, <2>3
<1>6. ASSUME NEW p \in Process, Stores!Commit(p)
      PROVE  Goal
  <2>1. /\ Stores!Goto(p, "idle") /\ done' = done \cup {hand[p]} /\ UNCHANGED <<stored, hand, read>>
        /\ table' = table \cup {[id |-> i, record |-> hand[p]] : i \in read[p].lines}
        /\ storesPc[p] = "commit"
    BY <1>6 DEF Stores!Commit, Stores!Finish
  <2>2. PICK i : read[p].lines = {i}
    BY <2>1 DEF StoresInv, IdsAscend
  <2>3. [id |-> i, record |-> hand[p]] \in table' /\ table \subseteq table'
    BY <2>1, <2>2
  <2>4. hand[p] \in Records(table') /\ Records(table) \subseteq Records(table')
    BY <2>3 DEF Records
  <2>5. \A q \in Process : Puts(storesPc'[q]) => Puts(storesPc[q])
    BY <1>03, <2>1
  <2> HIDE DEF Puts
  <2> QED  BY <1>0, <2>1, <2>4, <2>5
<1>7. ASSUME NEW p \in Process, Stores!Kill(p)
      PROVE  Goal
  <2>1. /\ UNCHANGED <<stored, table, done, hand, read>> /\ Stores!Goto(p, "idle")
    BY <1>7 DEF Stores!Kill
  <2>2. \A q \in Process : Puts(storesPc'[q]) => Puts(storesPc[q])
    BY <1>03, <2>1
  <2> HIDE DEF Puts
  <2> QED  BY <1>0, <2>1, <2>2
<1>8. ASSUME NEW p \in Process, Stores!ReadFails(p) \/ Stores!PutFails(p) \/ Stores!Delete(p)
      PROVE  Goal
  BY <1>02, <1>8 DEF Stores!ReadFails, Stores!PutFails, Stores!Delete
<1>9. CASE UNCHANGED Stores!vars
  <2>1. UNCHANGED <<stored, table, done, hand, read, storesPc>>
    BY <1>9 DEF Stores!vars
  <2> QED  BY <1>0, <2>1
<1> HIDE DEF Goal
<1> QED  BY <1>1, <1>2, <1>3, <1>4, <1>5, <1>6, <1>7, <1>8, <1>9 DEF Stores!Next

\* A process killed or failing at any step of a put leaves the blob whole, no
\* lifecycle event is lost unless a write failed or two overlapped, and in
\* SQLite the log only grows at its end (storage.py 1084-1095, core.py
\* 2638-2670).
THEOREM StoresAreWhole ==
    Stores!Spec => /\ [](Stores!TypeOK /\ Stores!BlobIsWhole /\ Stores!LedgerKeepsEvents)
                   /\ [][Stores!GrowsAtItsEnd]_(Stores!vars)
<1>1. StoresInv /\ [Stores!Next]_(Stores!vars) => StoresInv'
  BY StoresNextTyped, StoresNextCounted, StoresNextWhole, StoresNextKept DEF StoresInv
<1>2. StoresInv => Stores!TypeOK /\ Stores!BlobIsWhole /\ Stores!LedgerKeepsEvents
  BY DEF StoresInv, PutsAreWhole, LedgerGrows, Stores!BlobIsWhole, Stores!LedgerKeepsEvents
<1>3. StoresInv /\ [Stores!Next]_(Stores!vars) => [Stores!GrowsAtItsEnd]_(Stores!vars)
  <2>1. SUFFICES ASSUME StoresInv, Stores!Next, backend = "sqlite"
                 PROVE  table \subseteq table' /\ \A r \in table, s \in table' \ table : Stores!Before(r, s)
    BY DEF Stores!GrowsAtItsEnd
  <2>2. CASE \E p \in Process : Stores!Commit(p)
    <3>1. PICK p \in Process : Stores!Commit(p)
      BY <2>2
    <3>2. /\ table' = table \cup {[id |-> i, record |-> hand[p]] : i \in read[p].lines}
          /\ storesPc[p] = "commit"
      BY <3>1 DEF Stores!Commit
    <3>3. \A r \in table, i \in read[p].lines : r.id < i
      BY <2>1, <3>2 DEF StoresInv, IdsAscend
    <3> QED  BY <3>2, <3>3 DEF Stores!Before
  <2>3. CASE ~(\E p \in Process : Stores!Commit(p))
    <3>1. table' = table
      BY <2>1, <2>3 DEF Stores!Next, Stores!kind, Stores!files, Stores!rows, Stores!past, Stores!StartPut,
           Stores!ReadFails, Stores!Open, Stores!Write, Stores!Replace, Stores!Upsert, Stores!PutFails,
           Stores!Delete, Stores!StartAppend, Stores!Insert, Stores!Rollback, Stores!Kill
    <3> QED  BY <3>1
  <2> QED  BY <2>2, <2>3
<1> QED  BY <1>1, <1>2, <1>3, StoresInitInv, PTL DEF Stores!Spec

-----------------------------------------------------------------------------
(***************************************************************************)
(* The lock of segments and rotation (FileLock): nothing is left locked,   *)
(* and the lock excludes.                                                  *)
(***************************************************************************)
USE DEF Lock!thread, Lock!place, Lock!caches

-----------------------------------------------------------------------------
(***************************************************************************)
(* Typing.  A thread has a descriptor once it has come to a lock, and the  *)
(* cache entry with it unless the descriptor is its own.                   *)
(***************************************************************************)
Stations ==
    \A t \in StorageThread :
        /\ lockPc[t] \in {"idle", "check", "lookup", "fresh"} => fd[t] = 0 /\ entry[t] = 0
        /\ lockPc[t] \in {"thread", "flock", "held"} => fd[t] # 0
        /\ lockPc[t] = "thread" => entry[t] # 0

\* Descriptors are of directories there have been, and another directory can
\* only follow one that was removed.
Places ==
    /\ dir <= dirs /\ (dir = 0 => dirs < MaxDirs)
    /\ \A p \in Storage, n \in 1..Fds : lockFile[p][n] <= dirs

\* A storage makes one cache entry, and a second only behind its close().
Entries ==
    \A p \in Storage :
        IF closed[p] = "yes" THEN (cached[p] = 0 => lockEntries[p] <= 1) /\ (cached[p] # 0 => lockEntries[p] # 0)
                             ELSE lockEntries[p] = IF cached[p] = 0 THEN 0 ELSE 1

LockTyped == Lock!TypeOK /\ Stations /\ Places /\ Entries

LEMMA LockInitTyped == Lock!LockAssumption /\ Lock!Init => LockTyped
<1> SUFFICES ASSUME Lock!LockAssumption, Lock!Init PROVE LockTyped  OBVIOUS
<1>1. 0 \in 0..MaxDirs /\ 0 \in 0..Fds /\ 0 < MaxDirs
  BY DEF Lock!LockAssumption
<1>2. Lock!TypeOK
  <2>1. /\ lockFile \in [Storage -> [1..Fds -> 0..MaxDirs]]
        /\ owner \in [Storage -> [1..2 -> StorageThread \cup {Nobody}]]
    BY <1>1 DEF Lock!Init
  <2>2. /\ cached \in [Storage -> 0..Fds] /\ lockEntries \in [Storage -> 0..2]
        /\ fingerprint \in [Storage -> 0..MaxDirs]
        /\ closed \in [Storage -> {"no", "descriptors", "yes"}]
    BY <1>1 DEF Lock!Init
  <2>3. /\ lockPc \in [StorageThread -> {"idle", "check", "lookup", "thread", "fresh", "flock", "held"}]
        /\ shared \in [StorageThread -> BOOLEAN] /\ fd \in [StorageThread -> 0..Fds] /\ entry \in [StorageThread -> 0..2]
    BY <1>1 DEF Lock!Init
  <2> QED  BY <1>1, <2>1, <2>2, <2>3 DEF Lock!Init, Lock!TypeOK
<1>3. Stations /\ Entries
  BY DEF Lock!Init, Stations, Entries
<1>4. Places
  BY <1>1 DEF Lock!Init, Places
<1> QED  BY <1>2, <1>3, <1>4 DEF LockTyped

\* Opening .lock takes a free number, and makes the directory when it is gone.
LEMMA Opening ==
    ASSUME Lock!LockAssumption, LockTyped, NEW p \in Storage, NEW n, Lock!Opened(p, n)
    PROVE  /\ n \in 1..Fds /\ lockFile[p][n] = 0 /\ lockFile'[p][n] # 0
           /\ lockFile' = [lockFile EXCEPT ![p][n] = dir']
           /\ \A q \in Storage, m \in 1..Fds :
                (q # p \/ m # n) => lockFile'[q][m] = lockFile[q][m]
           /\ lockFile' \in [Storage -> [1..Fds -> 0..MaxDirs]]
           /\ dir' \in 0..MaxDirs /\ dirs' \in 0..MaxDirs /\ dirs <= dirs'
           /\ Places'
<1>1. n \in 1..Fds /\ lockFile[p][n] = 0 /\ lockFile' = [lockFile EXCEPT ![p][n] = dir']
  BY DEF Lock!Opened
<1>2. /\ dir' \in 1..MaxDirs /\ dirs' \in 0..MaxDirs /\ dirs <= dirs' /\ dir' <= dirs'
      /\ dir' # 0
  BY DEF Lock!Opened, LockTyped, Lock!TypeOK, Places, Lock!LockAssumption
<1>3. /\ lockFile'[p][n] = dir'
      /\ \A q \in Storage, m \in 1..Fds : (q # p \/ m # n) => lockFile'[q][m] = lockFile[q][m]
  BY <1>1 DEF LockTyped, Lock!TypeOK
<1>4. lockFile' \in [Storage -> [1..Fds -> 0..MaxDirs]]
  <2>1. [lockFile[p] EXCEPT ![n] = dir'] \in [1..Fds -> 0..MaxDirs]
    <3>1. lockFile[p] \in [1..Fds -> 0..MaxDirs]
      BY DEF LockTyped, Lock!TypeOK
    <3>2. dir' \in 0..MaxDirs
      BY <1>2 DEF Lock!LockAssumption
    <3> QED  BY <3>1, <3>2
  <2>2. lockFile' = [lockFile EXCEPT ![p] = [lockFile[p] EXCEPT ![n] = dir']]
    BY <1>1
  <2> QED  BY <2>1, <2>2 DEF LockTyped, Lock!TypeOK
<1>5. Places'
  <2>1. \A q \in Storage, m \in 1..Fds : lockFile'[q][m] <= dirs'
    <3>1. ASSUME NEW q \in Storage, NEW m \in 1..Fds PROVE lockFile'[q][m] <= dirs'
      <4>1. lockFile[q][m] \in Nat /\ lockFile[q][m] <= dirs /\ dirs \in Nat /\ dirs' \in Nat
        BY <1>2 DEF LockTyped, Lock!TypeOK, Places, Lock!LockAssumption
      <4>2. CASE q = p /\ m = n
        BY <1>2, <1>3, <4>2
      <4>3. CASE q # p \/ m # n
        <5>1. lockFile'[q][m] = lockFile[q][m]
          BY <1>3, <4>3
        <5> QED  BY <1>2, <4>1, <5>1
      <4> QED  BY <4>2, <4>3
    <3> QED  BY <3>1
  <2> QED  BY <1>2, <2>1 DEF Places
<1> QED  BY <1>1, <1>2, <1>3, <1>4, <1>5

\* Whoever leaves, leaves the thread lock of the entry it had.
LEMMA Leaving ==
    ASSUME Lock!LockAssumption, Lock!TypeOK, NEW t \in StorageThread, Lock!Released(t)
    PROVE  /\ owner' \in [Storage -> [1..2 -> StorageThread \cup {Nobody}]]
           /\ \A p \in Storage, e \in 1..2 :
                owner'[p][e] = IF p = Of[t] /\ e = entry[t] THEN Nobody ELSE owner[p][e]
<1>1. Of[t] \in Storage /\ entry[t] \in 0..2
  BY DEF Lock!LockAssumption, Lock!TypeOK
<1>2. CASE entry[t] = 0
  BY <1>2 DEF Lock!Released, Lock!TypeOK
<1>3. CASE entry[t] # 0
  <2>1. owner' = [owner EXCEPT ![Of[t]] = [owner[Of[t]] EXCEPT ![entry[t]] = Nobody]]
    BY <1>3 DEF Lock!Released
  <2>2. [owner[Of[t]] EXCEPT ![entry[t]] = Nobody] \in [1..2 -> StorageThread \cup {Nobody}]
    BY <1>1, <1>3 DEF Lock!TypeOK
  <2> QED  BY <1>1, <1>3, <2>1, <2>2 DEF Lock!TypeOK
<1> QED  BY <1>2, <1>3

LEMMA LockNextTyped == Lock!LockAssumption /\ LockTyped /\ [Lock!Next]_(Lock!vars) => LockTyped'
<1> SUFFICES ASSUME Lock!LockAssumption, LockTyped, [Lock!Next]_(Lock!vars) PROVE LockTyped'  OBVIOUS
<1>c. Fds \in Nat /\ MaxDirs \in Nat /\ 0 \in 0..Fds /\ 0 \in 0..MaxDirs
  BY DEF Lock!LockAssumption
<1>1. CASE Lock!Remove
  <2>1. Lock!TypeOK' /\ Stations' /\ Entries'
    BY <1>1, <1>c DEF Lock!Remove, LockTyped, Lock!TypeOK, Stations, Entries
  <2>2. Places'
    BY <1>1, <1>c DEF Lock!Remove, LockTyped, Lock!TypeOK, Places
  <2> QED  BY <2>1, <2>2 DEF LockTyped
<1>2. ASSUME NEW p \in Storage, Lock!StartClose(p) PROVE LockTyped'
  <2>1. Lock!TypeOK'
    BY <1>2 DEF Lock!StartClose, LockTyped, Lock!TypeOK
  <2>2. Stations' /\ Places' /\ Entries'
    BY <1>2 DEF Lock!StartClose, LockTyped, Lock!TypeOK, Stations, Places, Entries
  <2> QED  BY <2>1, <2>2 DEF LockTyped
<1>3. ASSUME NEW p \in Storage, Lock!EndClose(p) PROVE LockTyped'
  <2> DEFINE row == [n \in 1..Fds |-> IF n = cached[p] THEN 0 ELSE lockFile[p][n]]
  <2>1. lockFile' = [lockFile EXCEPT ![p] = row]
    BY <1>3 DEF Lock!EndClose
  <2>2. row \in [1..Fds -> 0..MaxDirs]
    BY <1>c DEF LockTyped, Lock!TypeOK
  <2>3. \A n \in 1..Fds : row[n] = 0 \/ row[n] = lockFile[p][n]
    OBVIOUS
  <2> HIDE DEF row
  <2>4. lockFile' \in [Storage -> [1..Fds -> 0..MaxDirs]]
    BY <2>1, <2>2 DEF LockTyped, Lock!TypeOK
  <2>5. Lock!TypeOK'
    BY <1>3, <1>c, <2>4 DEF Lock!EndClose, LockTyped, Lock!TypeOK
  <2>6. \A q \in Storage, n \in 1..Fds : lockFile'[q][n] = 0 \/ lockFile'[q][n] = lockFile[q][n]
    BY <2>1, <2>3 DEF LockTyped, Lock!TypeOK
  <2>7. Places'
    <3>1. dirs \in Nat /\ dir' = dir /\ dirs' = dirs
      BY <1>3 DEF Lock!EndClose, LockTyped, Lock!TypeOK
    <3> QED  BY <2>6, <3>1 DEF LockTyped, Places
  <2>8. Stations'
    BY <1>3 DEF Lock!EndClose, LockTyped, Stations
  <2>9. Entries'
    BY <1>3 DEF Lock!EndClose, LockTyped, Lock!TypeOK, Entries
  <2> QED  BY <2>5, <2>7, <2>8, <2>9 DEF LockTyped
<1>4. ASSUME NEW t \in StorageThread PROVE
        Lock!Begin(t) \/ Lock!Check(t) \/ Lock!Lookup(t) \/ Lock!EnterThread(t) \/ Lock!OpenFresh(t)
          \/ Lock!Flock(t) \/ Lock!FlockFails(t) \/ Lock!Unlock(t) => LockTyped'
  <2> DEFINE p == Of[t]
  <2>p. p \in Storage
    BY DEF Lock!LockAssumption
  <2> HIDE DEF p
  <2>1. CASE Lock!Begin(t)
    <3>1. Lock!TypeOK'
      BY <1>c, <2>1 DEF Lock!Begin, Lock!Goto, LockTyped, Lock!TypeOK
    <3>2. Stations'
      BY <2>1 DEF Lock!Begin, Lock!Goto, LockTyped, Lock!TypeOK, Stations
    <3>3. Places' /\ Entries'
      BY <2>1 DEF Lock!Begin, LockTyped, Places, Entries
    <3> QED  BY <3>1, <3>2, <3>3 DEF LockTyped
  <2>2. CASE Lock!Check(t)
    <3>1. Lock!TypeOK'
      BY <2>2 DEF Lock!Check, Lock!Goto, LockTyped, Lock!TypeOK
    <3>2. Stations'
      BY <2>2 DEF Lock!Check, Lock!Goto, LockTyped, Lock!TypeOK, Stations
    <3>3. Places' /\ Entries'
      BY <2>2 DEF Lock!Check, LockTyped, Places, Entries
    <3> QED  BY <3>1, <3>2, <3>3 DEF LockTyped
  <2>3. CASE Lock!Lookup(t)
    <3>1. CASE cached[p] # 0
      <4>1. /\ fd' = [fd EXCEPT ![t] = cached[p]] /\ entry' = [entry EXCEPT ![t] = lockEntries[p]]
            /\ UNCHANGED <<Lock!place, lockFile, cached, lockEntries, fingerprint, locks, closed, owner, shared, lockCut>>
            /\ lockPc' = [lockPc EXCEPT ![t] = "thread"]
        BY <2>3, <3>1 DEF Lock!Lookup, Lock!Goto, p
      <4>2. cached[p] \in 0..Fds /\ lockEntries[p] \in 0..2 /\ lockEntries[p] # 0
        BY <2>p, <3>1 DEF LockTyped, Lock!TypeOK, Entries
      <4>3. Lock!TypeOK'
        BY <4>1, <4>2 DEF LockTyped, Lock!TypeOK
      <4>4. Stations'
        BY <3>1, <4>1, <4>2 DEF LockTyped, Lock!TypeOK, Stations
      <4>5. Places' /\ Entries'
        BY <4>1 DEF LockTyped, Places, Entries
      <4> QED  BY <4>3, <4>4, <4>5 DEF LockTyped
    <3>2. CASE cached[p] = 0
      <4>1. PICK n \in 1..Fds :
              /\ Lock!Opened(p, n)
              /\ cached' = [cached EXCEPT ![p] = n]
              /\ lockEntries' = [lockEntries EXCEPT ![p] = lockEntries[p] + 1]
              /\ fd' = [fd EXCEPT ![t] = n] /\ entry' = [entry EXCEPT ![t] = lockEntries[p] + 1]
        BY <2>3, <3>2 DEF Lock!Lookup, p
      <4>2. /\ UNCHANGED <<fingerprint, locks, closed, owner, shared, lockCut>>
            /\ lockPc' = [lockPc EXCEPT ![t] = "thread"]
        BY <2>3 DEF Lock!Lookup, Lock!Goto
      <4>3. lockEntries[p] \in 0..1
        BY <2>p, <3>2 DEF LockTyped, Lock!TypeOK, Entries
      <4>4. Places' /\ lockFile' \in [Storage -> [1..Fds -> 0..MaxDirs]]
            /\ dir' \in 0..MaxDirs /\ dirs' \in 0..MaxDirs
        BY <2>p, <4>1, Opening
      <4>5. Lock!TypeOK'
        <5>1. lockEntries[p] + 1 \in 0..2 /\ n \in 0..Fds
          BY <1>c, <4>3
        <5> QED  BY <2>p, <4>1, <4>2, <4>4, <5>1 DEF LockTyped, Lock!TypeOK
      <4>6. Stations'
        BY <4>1, <4>2, <4>3 DEF LockTyped, Lock!TypeOK, Stations
      <4>7. Entries'
        BY <2>p, <3>2, <4>1, <4>2, <4>3 DEF LockTyped, Lock!TypeOK, Entries
      <4> QED  BY <4>4, <4>5, <4>6, <4>7 DEF LockTyped
    <3> QED  BY <3>1, <3>2
  <2>4. CASE Lock!EnterThread(t)
    <3>1. entry[t] \in 1..2
      BY <2>4 DEF Lock!EnterThread, LockTyped, Lock!TypeOK, Stations
    <3>2. owner' = [owner EXCEPT ![p] = [owner[p] EXCEPT ![entry[t]] = t]]
      BY <2>4 DEF Lock!EnterThread, p
    <3>3. [owner[p] EXCEPT ![entry[t]] = t] \in [1..2 -> StorageThread \cup {Nobody}]
      BY <2>p, <3>1 DEF LockTyped, Lock!TypeOK
    <3>4. Lock!TypeOK'
      <4>1. owner' \in [Storage -> [1..2 -> StorageThread \cup {Nobody}]]
        BY <2>p, <3>2, <3>3 DEF LockTyped, Lock!TypeOK
      <4> QED  BY <2>4, <4>1 DEF Lock!EnterThread, Lock!Goto, LockTyped, Lock!TypeOK
    <3>5. Stations'
      BY <2>4 DEF Lock!EnterThread, Lock!Goto, LockTyped, Lock!TypeOK, Stations
    <3>6. Places' /\ Entries'
      BY <2>4 DEF Lock!EnterThread, LockTyped, Places, Entries
    <3> QED  BY <3>4, <3>5, <3>6 DEF LockTyped
  <2>5. CASE Lock!OpenFresh(t)
    <3>1. PICK n \in 1..Fds : Lock!Opened(p, n) /\ fd' = [fd EXCEPT ![t] = n]
      BY <2>5 DEF Lock!OpenFresh, p
    <3>2. Places' /\ lockFile' \in [Storage -> [1..Fds -> 0..MaxDirs]]
          /\ dir' \in 0..MaxDirs /\ dirs' \in 0..MaxDirs
      BY <2>p, <3>1, Opening
    <3>3. UNCHANGED <<fingerprint, locks, Lock!caches, owner, shared, entry, lockCut>>
          /\ lockPc' = [lockPc EXCEPT ![t] = "flock"] /\ lockPc[t] = "fresh"
      BY <2>5 DEF Lock!OpenFresh, Lock!Goto
    <3>4. Lock!TypeOK'
      <4>1. fd' \in [StorageThread -> 0..Fds]
        BY <1>c, <3>1 DEF LockTyped, Lock!TypeOK
      <4>2. lockPc' \in [StorageThread -> {"idle", "check", "lookup", "fresh", "thread", "flock", "held"}]
        BY <3>3 DEF LockTyped, Lock!TypeOK
      <4> QED  BY <3>2, <3>3, <4>1, <4>2 DEF LockTyped, Lock!TypeOK
    <3>5. Stations'
      BY <3>1, <3>3 DEF LockTyped, Lock!TypeOK, Stations
    <3>6. Entries'
      BY <3>3 DEF LockTyped, Entries
    <3> QED  BY <3>2, <3>4, <3>5, <3>6 DEF LockTyped
  <2>6. CASE Lock!Flock(t)
    <3>1. fd[t] \in 1..Fds /\ shared[t] \in BOOLEAN
      BY <2>6 DEF Lock!Flock, LockTyped, Lock!TypeOK, Stations
    <3>2. locks' = {l \in locks : l.p # p \/ l.fd # fd[t]}
                     \cup {[p |-> p, fd |-> fd[t], shared |-> shared[t]]}
      BY <2>6 DEF Lock!Flock, p
    <3>3. locks' \subseteq [p : Storage, fd : 1..Fds, shared : BOOLEAN]
      BY <2>p, <3>1, <3>2 DEF LockTyped, Lock!TypeOK
    <3>4. Lock!TypeOK'
      BY <2>6, <3>3 DEF Lock!Flock, Lock!Goto, LockTyped, Lock!TypeOK
    <3>5. Stations'
      BY <2>6 DEF Lock!Flock, Lock!Goto, LockTyped, Lock!TypeOK, Stations
    <3>6. Places' /\ Entries'
      BY <2>6 DEF Lock!Flock, LockTyped, Places, Entries
    <3> QED  BY <3>4, <3>5, <3>6 DEF LockTyped
  <2>7. CASE Lock!FlockFails(t)
    <3>1. owner' \in [Storage -> [1..2 -> StorageThread \cup {Nobody}]]
      BY <2>7, Leaving DEF Lock!FlockFails, LockTyped
    <3>2. Lock!TypeOK'
      <4>1. UNCHANGED <<lockFile, locks, fingerprint, dir, dirs, closed, cached, lockEntries, lockCut>>
        BY <2>7 DEF Lock!FlockFails, Lock!Done
      <4>2. /\ lockPc' = [lockPc EXCEPT ![t] = "idle"] /\ fd' = [fd EXCEPT ![t] = 0]
            /\ entry' = [entry EXCEPT ![t] = 0] /\ shared' = [shared EXCEPT ![t] = FALSE]
        BY <2>7 DEF Lock!FlockFails, Lock!Done, Lock!Goto
      <4> QED  BY <1>c, <3>1, <4>1, <4>2 DEF LockTyped, Lock!TypeOK
    <3>3. Stations'
      BY <2>7 DEF Lock!FlockFails, Lock!Done, Lock!Goto, LockTyped, Lock!TypeOK, Stations
    <3>4. Places' /\ Entries'
      BY <2>7 DEF Lock!FlockFails, Lock!Done, LockTyped, Places, Entries
    <3> QED  BY <3>2, <3>3, <3>4 DEF LockTyped
  <2>8. CASE Lock!Unlock(t)
    <3>1. owner' \in [Storage -> [1..2 -> StorageThread \cup {Nobody}]]
      BY <2>8, Leaving DEF Lock!Unlock, LockTyped
    <3>2. fd[t] \in 1..Fds
      BY <2>8 DEF Lock!Unlock, LockTyped, Lock!TypeOK, Stations
    <3>3. /\ lockFile' = (IF entry[t] = 0 THEN [lockFile EXCEPT ![p][fd[t]] = 0] ELSE lockFile)
          /\ locks' = {l \in locks : l.p # p \/ l.fd # fd[t]}
      BY <2>8 DEF Lock!Unlock, p
    <3>4. /\ lockFile' \in [Storage -> [1..Fds -> 0..MaxDirs]]
          /\ \A q \in Storage, m \in 1..Fds : lockFile'[q][m] = 0 \/ lockFile'[q][m] = lockFile[q][m]
      <4>1. CASE entry[t] # 0
        BY <3>3, <4>1 DEF LockTyped, Lock!TypeOK
      <4>2. CASE entry[t] = 0
        <5> DEFINE row == [lockFile[p] EXCEPT ![fd[t]] = 0]
        <5>1. lockFile' = [lockFile EXCEPT ![p] = row]
          BY <3>3, <4>2
        <5>2. row \in [1..Fds -> 0..MaxDirs] /\ \A m \in 1..Fds : row[m] = 0 \/ row[m] = lockFile[p][m]
          BY <1>c, <2>p, <3>2 DEF LockTyped, Lock!TypeOK
        <5> HIDE DEF row
        <5> QED  BY <2>p, <5>1, <5>2 DEF LockTyped, Lock!TypeOK
      <4> QED  BY <4>1, <4>2
    <3>5. Lock!TypeOK'
      BY <1>c, <2>8, <3>1, <3>3, <3>4 DEF Lock!Unlock, Lock!Done, Lock!Goto, LockTyped, Lock!TypeOK
    <3>6. Stations'
      BY <2>8 DEF Lock!Unlock, Lock!Done, Lock!Goto, LockTyped, Lock!TypeOK, Stations
    <3>7. Entries'
      BY <2>8 DEF Lock!Unlock, Lock!Done, LockTyped, Entries
    <3>8. Places'
      <4>1. dir' = dir /\ dirs' = dirs /\ dirs \in Nat
        BY <2>8 DEF Lock!Unlock, Lock!Done, LockTyped, Lock!TypeOK
      <4> QED  BY <3>4, <4>1 DEF LockTyped, Places
    <3> QED  BY <3>5, <3>6, <3>7, <3>8 DEF LockTyped
  <2> QED  BY <2>1, <2>2, <2>3, <2>4, <2>5, <2>6, <2>7, <2>8
<1>5. CASE UNCHANGED Lock!vars
  BY <1>5 DEF Lock!vars, LockTyped, Lock!TypeOK, Stations, Places, Entries
<1>6. Closing \subseteq Storage
  BY DEF Lock!LockAssumption
<1> QED  BY <1>1, <1>2, <1>3, <1>4, <1>5, <1>6 DEF Lock!Next

\* Whatever is closed, removed and opened again: every descriptor, entry and
\* lock stays in its range, and no storage makes a third cache entry.
THEOREM LockTypeCorrect == ASSUME Lock!LockAssumption PROVE Lock!Spec => []Lock!TypeOK
<1>1. LockTyped => Lock!TypeOK
  BY DEF LockTyped
<1> QED  BY <1>1, LockInitTyped, LockNextTyped, PTL DEF Lock!Spec

-----------------------------------------------------------------------------
(***************************************************************************)
(* Nothing is left locked.                                                 *)
(***************************************************************************)
\* A thread lock has its holder in the process it belongs to, and whoever has
\* passed a thread lock holds it.
Owned ==
    \A p \in Storage, e \in 1..2 :
        owner[p][e] # Nobody =>
            /\ Of[owner[p][e]] = p /\ entry[owner[p][e]] = e
            /\ lockPc[owner[p][e]] \in {"flock", "held"}
Entered ==
    \A t \in StorageThread : lockPc[t] \in {"flock", "held"} /\ entry[t] # 0 => owner[Of[t]][entry[t]] = t
Locked == \A l \in locks : \E t \in StorageThread : Of[t] = l.p /\ fd[t] = l.fd /\ Lock!Holds(t)

LockHeld == Owned /\ Entered /\ Locked

\* Steps of a thread that neither takes nor gives a lock.
LEMMA Aside ==
    ASSUME Lock!LockAssumption, LockTyped, LockHeld, NEW t \in StorageThread,
           lockPc[t] \notin {"flock", "held"}, lockPc'[t] \notin {"flock", "held"} \/ entry'[t] = 0,
           \A u \in StorageThread \ {t} : lockPc'[u] = lockPc[u] /\ fd'[u] = fd[u] /\ entry'[u] = entry[u],
           UNCHANGED <<locks, owner>>
    PROVE  LockHeld'
<1>1. Owned'
  <2>1. \A p \in Storage, e \in 1..2 : owner[p][e] \in StorageThread \cup {Nobody}
    BY DEF LockTyped, Lock!TypeOK
  <2> QED  BY <2>1 DEF LockHeld, Owned
<1>2. Entered'
  BY DEF LockHeld, Entered
<1>3. Locked'
  <2>1. ASSUME NEW l \in locks PROVE \E u \in StorageThread : Of[u] = l.p /\ fd'[u] = l.fd /\ lockPc'[u] = "held"
    <3>1. PICK u \in StorageThread : Of[u] = l.p /\ fd[u] = l.fd /\ lockPc[u] = "held"
      BY DEF LockHeld, Locked, Lock!Holds
    <3>2. u # t
      BY <3>1
    <3> QED  BY <3>1, <3>2
  <2> QED  BY <2>1 DEF Locked, Lock!Holds
<1> QED  BY <1>1, <1>2, <1>3 DEF LockHeld

\* A thread that leaves takes its thread lock and its flock with it.
LEMMA Left ==
    ASSUME Lock!LockAssumption, LockTyped, LockHeld, NEW t \in StorageThread, Lock!Released(t), Lock!Done(t),
           lockPc[t] \in {"flock", "held"},
           \A l \in locks' : l \in locks /\ (lockPc[t] = "held" => l.p # Of[t] \/ l.fd # fd[t])
    PROVE  LockHeld'
<1>1. /\ lockPc' = [lockPc EXCEPT ![t] = "idle"] /\ fd' = [fd EXCEPT ![t] = 0]
      /\ entry' = [entry EXCEPT ![t] = 0]
  BY DEF Lock!Done, Lock!Goto
<1>2. \A p \in Storage, e \in 1..2 :
        owner'[p][e] = IF p = Of[t] /\ e = entry[t] THEN Nobody ELSE owner[p][e]
  BY Leaving DEF LockTyped
<1>3. /\ lockPc'[t] = "idle"
      /\ \A u \in StorageThread \ {t} : lockPc'[u] = lockPc[u] /\ fd'[u] = fd[u] /\ entry'[u] = entry[u]
  BY <1>1 DEF LockTyped, Lock!TypeOK
<1>4. \A p \in Storage, e \in 1..2 : owner[p][e] \in StorageThread \cup {Nobody}
  BY DEF LockTyped, Lock!TypeOK
<1>5. Owned'
  <2>1. ASSUME NEW p \in Storage, NEW e \in 1..2, owner'[p][e] # Nobody
        PROVE  /\ Of[owner'[p][e]] = p /\ entry'[owner'[p][e]] = e
               /\ lockPc'[owner'[p][e]] \in {"flock", "held"}
    <3>1. ~(p = Of[t] /\ e = entry[t]) /\ owner'[p][e] = owner[p][e]
      BY <1>2, <2>1
    <3>2. /\ owner[p][e] \in StorageThread /\ Of[owner[p][e]] = p /\ entry[owner[p][e]] = e
          /\ lockPc[owner[p][e]] \in {"flock", "held"}
      BY <1>4, <2>1, <3>1 DEF LockHeld, Owned
    <3>3. owner[p][e] # t
      BY <3>1, <3>2
    <3> QED  BY <1>3, <3>1, <3>2, <3>3
  <2> QED  BY <2>1 DEF Owned
<1>6. Entered'
  <2>1. ASSUME NEW u \in StorageThread, lockPc'[u] \in {"flock", "held"}, entry'[u] # 0
        PROVE  owner'[Of[u]][entry'[u]] = u
    <3>1. u # t /\ lockPc[u] \in {"flock", "held"} /\ entry'[u] = entry[u] /\ entry[u] # 0
      BY <1>3, <2>1
    <3>2. owner[Of[u]][entry[u]] = u /\ Of[u] \in Storage /\ entry[u] \in 1..2
      BY <3>1 DEF LockHeld, Entered, Lock!LockAssumption, LockTyped, Lock!TypeOK
    <3>3. ~(Of[u] = Of[t] /\ entry[u] = entry[t])
      BY <3>1, <3>2 DEF LockHeld, Entered
    <3> QED  BY <1>2, <3>1, <3>2, <3>3
  <2> QED  BY <2>1 DEF Entered
<1>7. Locked'
  <2>1. ASSUME NEW l \in locks' PROVE \E u \in StorageThread : Of[u] = l.p /\ fd'[u] = l.fd /\ lockPc'[u] = "held"
    <3>1. PICK u \in StorageThread : Of[u] = l.p /\ fd[u] = l.fd /\ lockPc[u] = "held"
      BY DEF LockHeld, Locked, Lock!Holds
    <3>2. u # t
      BY <3>1
    <3> QED  BY <1>3, <3>1, <3>2
  <2> QED  BY <2>1 DEF Locked, Lock!Holds
<1> QED  BY <1>5, <1>6, <1>7 DEF LockHeld

LEMMA LockNextHeld == Lock!LockAssumption /\ LockTyped /\ LockHeld /\ [Lock!Next]_(Lock!vars) => LockHeld'
<1> SUFFICES ASSUME Lock!LockAssumption, LockTyped, LockHeld, [Lock!Next]_(Lock!vars) PROVE LockHeld'  OBVIOUS
<1>1. CASE Lock!Remove
  BY <1>1 DEF Lock!Remove, LockHeld, Owned, Entered, Locked, Lock!Holds
<1>2. ASSUME NEW p \in Storage, Lock!StartClose(p) PROVE LockHeld'
  BY <1>2 DEF Lock!StartClose, LockHeld, Owned, Entered, Locked, Lock!Holds
<1>3. ASSUME NEW p \in Storage, Lock!EndClose(p) PROVE LockHeld'
  <2>1. UNCHANGED <<owner, lockPc, fd, entry>> /\ locks' \subseteq locks
    BY <1>3 DEF Lock!EndClose
  <2> QED  BY <2>1 DEF LockHeld, Owned, Entered, Locked, Lock!Holds
<1>4. ASSUME NEW t \in StorageThread PROVE
        Lock!Begin(t) \/ Lock!Check(t) \/ Lock!Lookup(t) \/ Lock!EnterThread(t) \/ Lock!OpenFresh(t)
          \/ Lock!Flock(t) \/ Lock!FlockFails(t) \/ Lock!Unlock(t) => LockHeld'
  <2> USE DEF Lock!Goto
  <2>1. CASE Lock!Begin(t)
    <3>1. lockPc[t] = "idle" /\ lockPc'[t] \notin {"flock", "held"}
      BY <2>1 DEF Lock!Begin, LockTyped, Lock!TypeOK
    <3>2. \A u \in StorageThread \ {t} : lockPc'[u] = lockPc[u] /\ fd'[u] = fd[u] /\ entry'[u] = entry[u]
      BY <2>1 DEF Lock!Begin, LockTyped, Lock!TypeOK
    <3> QED  BY <2>1, <3>1, <3>2, Aside DEF Lock!Begin
  <2>2. CASE Lock!Check(t)
    <3>1. lockPc[t] = "check" /\ lockPc'[t] \notin {"flock", "held"}
      BY <2>2 DEF Lock!Check, LockTyped, Lock!TypeOK
    <3>2. \A u \in StorageThread \ {t} : lockPc'[u] = lockPc[u] /\ fd'[u] = fd[u] /\ entry'[u] = entry[u]
      BY <2>2 DEF Lock!Check, LockTyped, Lock!TypeOK
    <3> QED  BY <2>2, <3>1, <3>2, Aside DEF Lock!Check
  <2>3. CASE Lock!Lookup(t)
    <3>1. lockPc[t] = "lookup" /\ lockPc'[t] = "thread"
      BY <2>3 DEF Lock!Lookup, LockTyped, Lock!TypeOK
    <3>2. \A u \in StorageThread \ {t} : lockPc'[u] = lockPc[u] /\ fd'[u] = fd[u] /\ entry'[u] = entry[u]
      <4>1. \E n, e : fd' = [fd EXCEPT ![t] = n] /\ entry' = [entry EXCEPT ![t] = e]
        BY <2>3 DEF Lock!Lookup
      <4>2. lockPc' = [lockPc EXCEPT ![t] = "thread"]
        BY <2>3 DEF Lock!Lookup
      <4> QED  BY <4>1, <4>2 DEF LockTyped, Lock!TypeOK
    <3>3. UNCHANGED <<locks, owner>>
      BY <2>3 DEF Lock!Lookup
    <3> QED  BY <3>1, <3>2, <3>3, Aside
  <2>4. CASE Lock!EnterThread(t)
    <3>1. entry[t] \in 1..2 /\ Of[t] \in Storage
      BY <2>4 DEF Lock!EnterThread, LockTyped, Lock!TypeOK, Stations, Lock!LockAssumption
    <3>2. /\ owner[Of[t]][entry[t]] = Nobody
          /\ \A p \in Storage, e \in 1..2 :
               owner'[p][e] = IF p = Of[t] /\ e = entry[t] THEN t ELSE owner[p][e]
      BY <2>4, <3>1 DEF Lock!EnterThread, LockTyped, Lock!TypeOK
    <3>3. /\ lockPc[t] = "thread" /\ lockPc'[t] = "flock" /\ \A u \in StorageThread \ {t} : lockPc'[u] = lockPc[u]
          /\ UNCHANGED <<locks, fd, entry>>
      BY <2>4 DEF Lock!EnterThread, LockTyped, Lock!TypeOK
    <3>4. \A p \in Storage, e \in 1..2 : owner[p][e] \in StorageThread \cup {Nobody}
      BY DEF LockTyped, Lock!TypeOK
    <3>5. Owned'
      BY <3>1, <3>2, <3>3, <3>4 DEF LockHeld, Owned
    <3>6. Entered'
      <4>1. ASSUME NEW u \in StorageThread, lockPc'[u] \in {"flock", "held"}, entry[u] # 0
            PROVE  owner'[Of[u]][entry[u]] = u
        <5>1. CASE u = t
          BY <3>1, <3>2, <5>1
        <5>2. CASE u # t
          <6>1. owner[Of[u]][entry[u]] = u /\ Of[u] \in Storage /\ entry[u] \in 1..2
            BY <3>3, <4>1, <5>2 DEF LockHeld, Entered, Lock!LockAssumption, LockTyped, Lock!TypeOK
          <6>2. u # Nobody
            BY DEF Lock!LockAssumption
          <6> QED  BY <3>2, <6>1, <6>2
        <5> QED  BY <5>1, <5>2
      <4> QED  BY <3>3, <4>1 DEF Entered
    <3>7. Locked'
      BY <3>3 DEF LockHeld, Locked, Lock!Holds
    <3> QED  BY <3>5, <3>6, <3>7 DEF LockHeld
  <2>5. CASE Lock!OpenFresh(t)
    <3>1. lockPc[t] = "fresh" /\ entry' = entry /\ entry[t] = 0
      BY <2>5 DEF Lock!OpenFresh, LockTyped, Stations
    <3>2. \A u \in StorageThread \ {t} : lockPc'[u] = lockPc[u] /\ fd'[u] = fd[u] /\ entry'[u] = entry[u]
      <4>1. \E n : fd' = [fd EXCEPT ![t] = n]
        BY <2>5 DEF Lock!OpenFresh
      <4>2. lockPc' = [lockPc EXCEPT ![t] = "flock"]
        BY <2>5 DEF Lock!OpenFresh
      <4> QED  BY <3>1, <4>1, <4>2 DEF LockTyped, Lock!TypeOK
    <3>3. UNCHANGED <<locks, owner>>
      BY <2>5 DEF Lock!OpenFresh
    <3> QED  BY <3>1, <3>2, <3>3, Aside
  <2>6. CASE Lock!Flock(t)
    <3>1. /\ lockPc[t] = "flock" /\ lockPc'[t] = "held" /\ \A u \in StorageThread \ {t} : lockPc'[u] = lockPc[u]
          /\ UNCHANGED <<owner, fd, entry>>
          /\ \A l \in locks' : l \in locks \/ (l.p = Of[t] /\ l.fd = fd[t])
      BY <2>6 DEF Lock!Flock, LockTyped, Lock!TypeOK
    <3>2. \A p \in Storage, e \in 1..2 : owner[p][e] \in StorageThread \cup {Nobody}
      BY DEF LockTyped, Lock!TypeOK
    <3>3. Owned'
      BY <3>1, <3>2 DEF LockHeld, Owned
    <3>4. Entered'
      BY <3>1 DEF LockHeld, Entered
    <3>5. Locked'
      BY <3>1 DEF LockHeld, Locked, Lock!Holds
    <3> QED  BY <3>3, <3>4, <3>5 DEF LockHeld
  <2>7. CASE Lock!FlockFails(t)
    <3>1. Lock!Released(t) /\ Lock!Done(t) /\ locks' = locks /\ lockPc[t] = "flock"
      BY <2>7 DEF Lock!FlockFails
    <3> QED  BY <3>1, Left
  <2>8. CASE Lock!Unlock(t)
    <3>1. Lock!Released(t) /\ Lock!Done(t) /\ locks' = {l \in locks : l.p # Of[t] \/ l.fd # fd[t]}
          /\ lockPc[t] = "held"
      BY <2>8 DEF Lock!Unlock
    <3> QED  BY <3>1, Left
  <2> QED  BY <2>1, <2>2, <2>3, <2>4, <2>5, <2>6, <2>7, <2>8
<1>5. CASE UNCHANGED Lock!vars
  BY <1>5 DEF Lock!vars, LockHeld, Owned, Entered, Locked, Lock!Holds
<1>6. Closing \subseteq Storage
  BY DEF Lock!LockAssumption
<1> QED  BY <1>1, <1>2, <1>3, <1>4, <1>5, <1>6 DEF Lock!Next

\* Whatever was closed, removed or refused meanwhile: a flock or a thread lock
\* that is held is held by a thread on its way to give it back.
THEOREM LockNothingLeft == ASSUME Lock!LockAssumption PROVE Lock!Spec => []Lock!NothingLeftLocked
<1>1. Lock!Init => LockHeld
  BY DEF Lock!Init, LockHeld, Owned, Entered, Locked
<1>2. LockHeld => Lock!NothingLeftLocked
  BY DEF LockHeld, Owned, Locked, Lock!NothingLeftLocked
<1> QED  BY <1>1, <1>2, LockInitTyped, LockNextTyped, LockNextHeld, PTL DEF Lock!Spec

-----------------------------------------------------------------------------
(***************************************************************************)
(* The lock excludes.                                                      *)
(***************************************************************************)
\* The flocks held are on open descriptors, one each, and those on one .lock
\* file are shared.
FlocksApart ==
    /\ \A l \in locks : lockFile[l.p][l.fd] # 0
    /\ \A l, k \in locks :
         IF l.p = k.p /\ l.fd = k.fd THEN l = k
         ELSE lockFile[l.p][l.fd] = lockFile[k.p][k.fd] => l.shared /\ k.shared

LEMMA ApartKept ==
    ASSUME FlocksApart, \A l \in locks' : l \in locks /\ lockFile'[l.p][l.fd] = lockFile[l.p][l.fd]
    PROVE  FlocksApart'
BY DEF FlocksApart

LEMMA ApartOpened ==
    ASSUME Lock!LockAssumption, LockTyped, FlocksApart, NEW p \in Storage, NEW n, Lock!Opened(p, n), locks' = locks
    PROVE  FlocksApart'
<1>1. ASSUME NEW l \in locks PROVE lockFile'[l.p][l.fd] = lockFile[l.p][l.fd]
  <2>1. l.p \in Storage /\ l.fd \in 1..Fds /\ lockFile[l.p][l.fd] # 0
    BY DEF LockTyped, Lock!TypeOK, FlocksApart
  <2> QED  BY <2>1, Opening
<1> QED  BY <1>1, ApartKept

LEMMA NextApart == Lock!LockAssumption /\ LockTyped /\ FlocksApart /\ [Lock!Next]_(Lock!vars) => FlocksApart'
<1> SUFFICES ASSUME Lock!LockAssumption, LockTyped, FlocksApart, [Lock!Next]_(Lock!vars) PROVE FlocksApart'  OBVIOUS
<1>l. \A l \in locks : l.p \in Storage /\ l.fd \in 1..Fds
  BY DEF LockTyped, Lock!TypeOK
<1>1. CASE Lock!Remove
  BY <1>1, ApartKept DEF Lock!Remove
<1>2. ASSUME NEW p \in Storage, Lock!StartClose(p) PROVE FlocksApart'
  BY <1>2, ApartKept DEF Lock!StartClose
<1>3. ASSUME NEW p \in Storage, Lock!EndClose(p) PROVE FlocksApart'
  <2>1. /\ locks' = {l \in locks : l.p # p \/ l.fd # cached[p]}
        /\ lockFile' = [lockFile EXCEPT ![p] = [n \in 1..Fds |-> IF n = cached[p] THEN 0 ELSE lockFile[p][n]]]
    BY <1>3 DEF Lock!EndClose
  <2>2. \A q \in Storage, n \in 1..Fds :
          q # p \/ n # cached[p] => lockFile'[q][n] = lockFile[q][n]
    BY <2>1 DEF LockTyped, Lock!TypeOK
  <2> QED  BY <1>l, <2>1, <2>2, ApartKept
<1>4. ASSUME NEW t \in StorageThread PROVE
        Lock!Begin(t) \/ Lock!Check(t) \/ Lock!Lookup(t) \/ Lock!EnterThread(t) \/ Lock!OpenFresh(t)
          \/ Lock!Flock(t) \/ Lock!FlockFails(t) \/ Lock!Unlock(t) => FlocksApart'
  <2>p. Of[t] \in Storage
    BY DEF Lock!LockAssumption
  <2>1. CASE Lock!Begin(t) \/ Lock!Check(t) \/ Lock!EnterThread(t) \/ Lock!FlockFails(t)
    <3>1. locks' = locks /\ lockFile' = lockFile
      BY <2>1 DEF Lock!Begin, Lock!Check, Lock!EnterThread, Lock!FlockFails
    <3> QED  BY <3>1, ApartKept
  <2>2. CASE Lock!Lookup(t) \/ Lock!OpenFresh(t)
    <3>1. locks' = locks /\ (lockFile' = lockFile \/ \E n : Lock!Opened(Of[t], n))
      BY <2>2 DEF Lock!Lookup, Lock!OpenFresh
    <3> QED  BY <2>p, <3>1, ApartKept, ApartOpened
  <2>3. CASE Lock!Flock(t)
    <3> DEFINE myLocks == [p |-> Of[t], fd |-> fd[t], shared |-> shared[t]]
               rest == {l \in locks : l.p # Of[t] \/ l.fd # fd[t]}
    <3>1. /\ locks' = rest \cup {myLocks} /\ lockFile' = lockFile
          /\ lockFile[Of[t]][fd[t]] # 0 /\ Lock!Granted(Of[t], fd[t], shared[t])
      BY <2>3 DEF Lock!Flock
    <3>2. myLocks.p = Of[t] /\ myLocks.fd = fd[t] /\ myLocks.shared = shared[t]
      OBVIOUS
    <3>3. \A l \in rest :
            /\ l \in locks /\ (l.p # myLocks.p \/ l.fd # myLocks.fd)
            /\ lockFile[l.p][l.fd] = lockFile[myLocks.p][myLocks.fd] => myLocks.shared /\ l.shared
      BY <3>1, <3>2 DEF Lock!Granted
    <3> HIDE DEF myLocks, rest
    <3>4. \A l \in locks' : lockFile[l.p][l.fd] # 0
      BY <3>1, <3>2, <3>3 DEF FlocksApart
    <3>5. ASSUME NEW l \in locks', NEW k \in locks'
          PROVE  IF l.p = k.p /\ l.fd = k.fd THEN l = k
                 ELSE lockFile[l.p][l.fd] = lockFile[k.p][k.fd] => l.shared /\ k.shared
      <4>1. CASE l \in rest /\ k \in rest
        BY <3>3, <4>1 DEF FlocksApart
      <4>2. CASE l = myLocks \/ k = myLocks
        BY <3>1, <3>3, <4>2
      <4> QED  BY <3>1, <4>1, <4>2
    <3> QED  BY <3>1, <3>4, <3>5 DEF FlocksApart
  <2>4. CASE Lock!Unlock(t)
    <3>1. fd[t] \in 1..Fds
      BY <2>4 DEF Lock!Unlock, LockTyped, Lock!TypeOK, Stations
    <3>2. /\ lockFile' = (IF entry[t] = 0 THEN [lockFile EXCEPT ![Of[t]][fd[t]] = 0] ELSE lockFile)
          /\ locks' = {l \in locks : l.p # Of[t] \/ l.fd # fd[t]}
      BY <2>4 DEF Lock!Unlock
    <3>3. \A q \in Storage, n \in 1..Fds :
            q # Of[t] \/ n # fd[t] => lockFile'[q][n] = lockFile[q][n]
      BY <3>1, <3>2 DEF LockTyped, Lock!TypeOK
    <3> QED  BY <1>l, <3>2, <3>3, ApartKept
  <2> QED  BY <2>1, <2>2, <2>3, <2>4
<1>5. CASE UNCHANGED Lock!vars
  BY <1>5, ApartKept DEF Lock!vars
<1>6. Closing \subseteq Storage
  BY DEF Lock!LockAssumption
<1> QED  BY <1>1, <1>2, <1>3, <1>4, <1>5, <1>6 DEF Lock!Next

\* As long as no storage is closed under a thread that uses it: a thread's
\* descriptor is open; it is the cached one if the thread has the cache entry,
\* and then the storage is not closed, else its own alone; and a thread that
\* holds the lock has its flock.
Grip(t) ==
    /\ lockPc[t] = "lookup" \/ entry[t] # 0 => closed[Of[t]] = "no"
    /\ fd[t] # 0 => lockFile[Of[t]][fd[t]] # 0
    /\ entry[t] # 0 => entry[t] = lockEntries[Of[t]] /\ fd[t] = cached[Of[t]]
    /\ entry[t] = 0 /\ fd[t] # 0 => fd[t] # cached[Of[t]]
    /\ Lock!Holds(t) => [p |-> Of[t], fd |-> fd[t], shared |-> shared[t]] \in locks
CachedOpen == \A p \in Storage : cached[p] # 0 => lockFile[p][cached[p]] # 0
Alone ==
    \A t, u \in StorageThread :
        t # u /\ Of[t] = Of[u] /\ fd[t] = fd[u] /\ fd[t] # 0 => entry[t] # 0
Uncut == CachedOpen /\ Alone /\ \A t \in StorageThread : Grip(t)

\* Of the threads that hold a thread lock or are past it there is one.
LEMMA OneEntered ==
    ASSUME LockHeld, Uncut, NEW t \in StorageThread, NEW u \in StorageThread, t # u,
           lockPc[t] \in {"flock", "held"}, lockPc[u] \in {"flock", "held"},
           Of[t] = Of[u], fd[t] # 0
    PROVE  fd[t] # fd[u]
<1> SUFFICES ASSUME fd[t] = fd[u] PROVE FALSE
  OBVIOUS
<1>1. entry[t] # 0 /\ entry[u] # 0
  BY DEF Uncut, Alone
<1>2. entry[t] = entry[u]
  BY <1>1 DEF Uncut, Grip
<1> QED  BY <1>1, <1>2 DEF LockHeld, Entered

\* The opening of .lock disturbs nobody.
LEMMA OpenedUncut ==
    ASSUME Lock!LockAssumption, LockTyped, Uncut, NEW p \in Storage, NEW n, Lock!Opened(p, n)
    PROVE  /\ \A u \in StorageThread : fd[u] # 0 => lockFile'[Of[u]][fd[u]] # 0
           /\ \A u \in StorageThread : Of[u] = p => fd[u] # n
           /\ \A q \in Storage : cached[q] # 0 => lockFile'[q][cached[q]] # 0
           /\ cached[p] # n /\ n # 0 /\ lockFile'[p][n] # 0
<1>1. /\ n \in 1..Fds /\ lockFile[p][n] = 0 /\ lockFile'[p][n] # 0
      /\ \A q \in Storage, m \in 1..Fds : (q # p \/ m # n) => lockFile'[q][m] = lockFile[q][m]
  BY Opening
<1>2. \A u \in StorageThread : Of[u] \in Storage /\ (fd[u] # 0 => fd[u] \in 1..Fds /\ lockFile[Of[u]][fd[u]] # 0)
  <2>1. \A u \in StorageThread : Of[u] \in Storage /\ (fd[u] # 0 => lockFile[Of[u]][fd[u]] # 0)
    BY DEF Lock!LockAssumption, Uncut, Grip
  <2>2. Fds \in Nat /\ \A u \in StorageThread : fd[u] \in 0..Fds
    BY DEF LockTyped, Lock!TypeOK, Lock!LockAssumption
  <2>3. \A u \in StorageThread : fd[u] # 0 => fd[u] \in 1..Fds
    BY <2>2
  <2> QED  BY <2>1, <2>3
<1>3. \A q \in Storage : cached[q] # 0 => cached[q] \in 1..Fds /\ lockFile[q][cached[q]] # 0
  BY DEF LockTyped, Lock!TypeOK, Lock!LockAssumption, Uncut, CachedOpen
<1>4. n # 0
  BY <1>1
<1>5. \A u \in StorageThread : fd[u] # 0 => lockFile'[Of[u]][fd[u]] # 0
  BY <1>1, <1>2
<1>6. \A u \in StorageThread : Of[u] = p => fd[u] # n
  BY <1>1, <1>2, <1>4
<1>7. \A q \in Storage : cached[q] # 0 => lockFile'[q][cached[q]] # 0
  BY <1>1, <1>3
<1> QED  BY <1>1, <1>3, <1>4, <1>5, <1>6, <1>7

LEMMA NextUncut ==
    Lock!LockAssumption /\ LockTyped /\ LockHeld /\ (~lockCut => Uncut) /\ [Lock!Next]_(Lock!vars) => (~lockCut' => Uncut')
<1> SUFFICES ASSUME Lock!LockAssumption, LockTyped, LockHeld, ~lockCut => Uncut, [Lock!Next]_(Lock!vars), ~lockCut'
             PROVE  Uncut'
  OBVIOUS
<1>u. ~lockCut /\ Uncut
  <2>1. CASE lockCut
    BY <2>1 DEF Lock!Next, Lock!Remove, Lock!StartClose, Lock!EndClose, Lock!Begin, Lock!Check, Lock!Lookup, Lock!EnterThread, Lock!OpenFresh,
                Lock!Flock, Lock!FlockFails, Lock!Unlock, Lock!Done, Lock!vars
  <2> QED  BY <2>1
<1>o. \A t \in StorageThread : Of[t] \in Storage
  BY DEF Lock!LockAssumption
<1>1. CASE Lock!Remove
  BY <1>1, <1>u DEF Lock!Remove, Uncut, CachedOpen, Alone, Grip, Lock!Holds
<1>2. ASSUME NEW p \in Storage, Lock!StartClose(p) PROVE Uncut'
  <2>1. UNCHANGED <<lockPc, lockFile, locks, fd, shared, entry, cached, lockEntries>>
        /\ closed' = [closed EXCEPT ![p] = "descriptors"] /\ ~Lock!Busy(p)
    BY <1>2 DEF Lock!StartClose
  <2>2. ASSUME NEW t \in StorageThread PROVE Grip(t)'
    <3>1. CASE Of[t] = p
      <4>1. lockPc[t] = "idle" /\ entry[t] = 0
        BY <2>1, <3>1 DEF Lock!Busy, LockTyped, Stations
      <4> QED  BY <1>u, <2>1, <4>1 DEF Uncut, Grip, Lock!Holds
    <3>2. CASE Of[t] # p
      <4>1. closed'[Of[t]] = closed[Of[t]]
        BY <1>o, <2>1, <3>2 DEF LockTyped, Lock!TypeOK
      <4> QED  BY <1>u, <2>1, <4>1 DEF Uncut, Grip, Lock!Holds
    <3> QED  BY <3>1, <3>2
  <2>3. CachedOpen' /\ Alone'
    BY <1>u, <2>1 DEF Uncut, CachedOpen, Alone
  <2> QED  BY <2>2, <2>3 DEF Uncut
<1>3. ASSUME NEW p \in Storage, Lock!EndClose(p) PROVE Uncut'
  <2>1. /\ UNCHANGED <<lockPc, fd, shared, entry, lockEntries>> /\ closed[p] = "descriptors"
        /\ closed' = [closed EXCEPT ![p] = "yes"] /\ cached' = [cached EXCEPT ![p] = 0]
        /\ locks' = {l \in locks : l.p # p \/ l.fd # cached[p]}
        /\ lockFile' = [lockFile EXCEPT ![p] = [n \in 1..Fds |-> IF n = cached[p] THEN 0 ELSE lockFile[p][n]]]
    BY <1>3 DEF Lock!EndClose
  <2>2. \A q \in Storage, n \in 1..Fds :
          q # p \/ n # cached[p] => lockFile'[q][n] = lockFile[q][n]
    BY <2>1 DEF LockTyped, Lock!TypeOK
  <2>3. ASSUME NEW t \in StorageThread PROVE Grip(t)'
    <3>0. fd[t] # 0 => fd[t] \in 1..Fds
      BY DEF LockTyped, Lock!TypeOK, Lock!LockAssumption
    <3>1. CASE Of[t] = p
      <4>1. lockPc[t] # "lookup" /\ entry[t] = 0 /\ (fd[t] # 0 => fd[t] # cached[p])
        BY <1>u, <2>1, <3>1 DEF Uncut, Grip
      <4>2. cached'[Of[t]] = 0 /\ (fd[t] # 0 => lockFile'[Of[t]][fd[t]] # 0)
        BY <1>u, <1>o, <2>1, <2>2, <3>0, <3>1, <4>1 DEF Uncut, Grip, LockTyped, Lock!TypeOK
      <4>3. Lock!Holds(t) => [p |-> Of[t], fd |-> fd[t], shared |-> shared[t]] \in locks'
        BY <1>u, <2>1, <4>1 DEF Uncut, Grip, Lock!Holds, LockTyped, Stations
      <4> QED  BY <2>1, <4>1, <4>2, <4>3 DEF Grip, Lock!Holds
    <3>2. CASE Of[t] # p
      <4>1. /\ closed'[Of[t]] = closed[Of[t]] /\ cached'[Of[t]] = cached[Of[t]]
            /\ fd[t] # 0 => lockFile'[Of[t]][fd[t]] = lockFile[Of[t]][fd[t]]
        BY <1>o, <2>1, <2>2, <3>0, <3>2 DEF LockTyped, Lock!TypeOK
      <4>2. Lock!Holds(t) => [p |-> Of[t], fd |-> fd[t], shared |-> shared[t]] \in locks'
        BY <1>u, <2>1, <3>2 DEF Uncut, Grip
      <4> QED  BY <1>u, <2>1, <4>1, <4>2 DEF Uncut, Grip, Lock!Holds
    <3> QED  BY <3>1, <3>2
  <2>4. CachedOpen'
    <3>1. ASSUME NEW q \in Storage, cached'[q] # 0 PROVE lockFile'[q][cached'[q]] # 0
      <4>1. q # p /\ cached'[q] = cached[q]
        BY <2>1, <3>1 DEF LockTyped, Lock!TypeOK
      <4>2. cached[q] \in 1..Fds
        BY <3>1, <4>1 DEF LockTyped, Lock!TypeOK, Lock!LockAssumption
      <4> QED  BY <1>u, <2>2, <3>1, <4>1, <4>2 DEF Uncut, CachedOpen
    <3> QED  BY <3>1 DEF CachedOpen
  <2>5. Alone'
    BY <1>u, <2>1 DEF Uncut, Alone
  <2> QED  BY <2>3, <2>4, <2>5 DEF Uncut
<1>4. ASSUME NEW t \in StorageThread PROVE
        Lock!Begin(t) \/ Lock!Check(t) \/ Lock!Lookup(t) \/ Lock!EnterThread(t) \/ Lock!OpenFresh(t)
          \/ Lock!Flock(t) \/ Lock!FlockFails(t) \/ Lock!Unlock(t) => Uncut'
  <2> DEFINE p == Of[t]
  <2>p. p \in Storage
    BY DEF Lock!LockAssumption
  <2> HIDE DEF p
  <2> USE DEF Lock!Goto
  <2>1. CASE Lock!Begin(t) \/ Lock!Check(t) \/ Lock!EnterThread(t)
    <3>1. /\ UNCHANGED <<lockFile, locks, closed, cached, lockEntries, fd, entry>>
          /\ \A u \in StorageThread : lockPc'[u] = "held" => lockPc[u] = "held" /\ u # t
          /\ \A u \in StorageThread : u # t => shared'[u] = shared[u] /\ lockPc'[u] = lockPc[u]
          /\ lockPc'[t] = "lookup" => closed[p] = "no"
      <4>1. CASE Lock!Begin(t)
        BY <4>1 DEF Lock!Begin, LockTyped, Lock!TypeOK
      <4>2. CASE Lock!Check(t)
        BY <4>2 DEF Lock!Check, LockTyped, Lock!TypeOK, p
      <4>3. CASE Lock!EnterThread(t)
        BY <4>3 DEF Lock!EnterThread, LockTyped, Lock!TypeOK
      <4> QED  BY <2>1, <4>1, <4>2, <4>3
    <3>2. ASSUME NEW u \in StorageThread PROVE Grip(u)'
      BY <1>u, <3>1 DEF Uncut, Grip, Lock!Holds, p
    <3>3. CachedOpen' /\ Alone'
      BY <1>u, <3>1 DEF Uncut, CachedOpen, Alone
    <3> QED  BY <3>2, <3>3 DEF Uncut
  <2>3. CASE Lock!Lookup(t)
    <3>0. /\ UNCHANGED <<locks, closed, shared>> /\ lockPc[t] = "lookup" /\ closed[p] = "no"
          /\ lockPc' = [lockPc EXCEPT ![t] = "thread"]
      BY <1>u, <2>3 DEF Lock!Lookup, Uncut, Grip, p
    <3>x. lockPc'[t] = "thread" /\ \A u \in StorageThread \ {t} : lockPc'[u] = lockPc[u]
      BY <3>0 DEF LockTyped, Lock!TypeOK
    <3>1. CASE cached[p] # 0
      <4>1. /\ fd' = [fd EXCEPT ![t] = cached[p]] /\ entry' = [entry EXCEPT ![t] = lockEntries[p]]
            /\ UNCHANGED <<lockFile, cached, lockEntries>>
        BY <2>3, <3>1 DEF Lock!Lookup, p
      <4>2. /\ fd'[t] = cached[p] /\ entry'[t] = lockEntries[p] /\ lockEntries[p] # 0
            /\ \A u \in StorageThread \ {t} : fd'[u] = fd[u] /\ entry'[u] = entry[u]
        BY <2>p, <3>1, <4>1 DEF LockTyped, Lock!TypeOK, Entries
      <4>3. Grip(t)'
        BY <1>u, <2>p, <3>0, <3>1, <3>x, <4>1, <4>2 DEF Uncut, CachedOpen, Grip, Lock!Holds, p
      <4>4. \A u \in StorageThread \ {t} : Grip(u)'
        BY <1>u, <3>0, <3>x, <4>1, <4>2 DEF Uncut, Grip, Lock!Holds
      <4>5. CachedOpen'
        BY <1>u, <4>1 DEF Uncut, CachedOpen
      <4>6. Alone'
        <5>1. \A u \in StorageThread \ {t} : Of[u] = p /\ fd[u] = cached[p] => entry[u] # 0
          BY <1>u, <3>1 DEF Uncut, Grip
        <5> QED  BY <1>u, <4>2, <5>1 DEF Uncut, Alone, p
      <4> QED  BY <4>3, <4>4, <4>5, <4>6 DEF Uncut
    <3>2. CASE cached[p] = 0
      <4>1. PICK n \in 1..Fds :
              /\ Lock!Opened(p, n)
              /\ cached' = [cached EXCEPT ![p] = n]
              /\ lockEntries' = [lockEntries EXCEPT ![p] = lockEntries[p] + 1]
              /\ fd' = [fd EXCEPT ![t] = n] /\ entry' = [entry EXCEPT ![t] = lockEntries[p] + 1]
        BY <2>3, <3>2 DEF Lock!Lookup, p
      <4>2. /\ \A u \in StorageThread : fd[u] # 0 => lockFile'[Of[u]][fd[u]] # 0
            /\ \A u \in StorageThread : Of[u] = p => fd[u] # n
            /\ \A q \in Storage : cached[q] # 0 => lockFile'[q][cached[q]] # 0
            /\ n # 0 /\ lockFile'[p][n] # 0
        BY <1>u, <2>p, <4>1, OpenedUncut
      <4>3. /\ fd'[t] = n /\ entry'[t] = lockEntries[p] + 1 /\ lockEntries[p] + 1 # 0
            /\ cached'[p] = n /\ lockEntries'[p] = lockEntries[p] + 1
            /\ \A u \in StorageThread \ {t} : fd'[u] = fd[u] /\ entry'[u] = entry[u]
            /\ \A q \in Storage \ {p} : cached'[q] = cached[q] /\ lockEntries'[q] = lockEntries[q]
        <5>1. lockEntries[p] \in 0..2 /\ lockEntries[p] + 1 # 0
          BY <2>p DEF LockTyped, Lock!TypeOK
        <5>2. /\ cached'[p] = n /\ lockEntries'[p] = lockEntries[p] + 1
              /\ \A q \in Storage \ {p} : cached'[q] = cached[q] /\ lockEntries'[q] = lockEntries[q]
          BY <2>p, <4>1 DEF LockTyped, Lock!TypeOK
        <5>3. /\ fd'[t] = n /\ entry'[t] = lockEntries[p] + 1
              /\ \A u \in StorageThread \ {t} : fd'[u] = fd[u] /\ entry'[u] = entry[u]
          BY <4>1 DEF LockTyped, Lock!TypeOK
        <5> QED  BY <5>1, <5>2, <5>3
      <4>4. \A u \in StorageThread : Of[u] = p => entry[u] = 0
        <5>1. \A u \in StorageThread : entry[u] # 0 => fd[u] # 0
          BY DEF LockTyped, Lock!TypeOK, Stations
        <5> QED  BY <1>u, <3>2, <5>1 DEF Uncut, Grip
      <4>5. Grip(t)'
        BY <3>0, <3>x, <4>2, <4>3 DEF Grip, Lock!Holds, p
      <4>6. ASSUME NEW u \in StorageThread \ {t} PROVE Grip(u)'
        <5>1. CASE Of[u] = p
          BY <1>u, <3>0, <3>x, <4>2, <4>3, <4>4, <5>1 DEF Uncut, Grip, Lock!Holds
        <5>2. CASE Of[u] # p
          BY <1>u, <1>o, <3>0, <3>x, <4>2, <4>3, <5>2 DEF Uncut, Grip, Lock!Holds
        <5> QED  BY <5>1, <5>2
      <4>7. CachedOpen'
        BY <4>2, <4>3 DEF CachedOpen
      <4>8. Alone'
        BY <1>u, <4>2, <4>3 DEF Uncut, Alone, p
      <4> QED  BY <4>5, <4>6, <4>7, <4>8 DEF Uncut
    <3> QED  BY <3>1, <3>2
  <2>5. CASE Lock!OpenFresh(t)
    <3>1. PICK n \in 1..Fds : Lock!Opened(p, n) /\ fd' = [fd EXCEPT ![t] = n]
      BY <2>5 DEF Lock!OpenFresh, p
    <3>2. /\ UNCHANGED <<locks, closed, cached, lockEntries, shared, entry>> /\ lockPc[t] = "fresh"
          /\ lockPc' = [lockPc EXCEPT ![t] = "flock"] /\ entry[t] = 0
      BY <2>5 DEF Lock!OpenFresh, LockTyped, Stations
    <3>3. /\ \A u \in StorageThread : fd[u] # 0 => lockFile'[Of[u]][fd[u]] # 0
          /\ \A u \in StorageThread : Of[u] = p => fd[u] # n
          /\ \A q \in Storage : cached[q] # 0 => lockFile'[q][cached[q]] # 0
          /\ cached[p] # n /\ n # 0 /\ lockFile'[p][n] # 0
      BY <1>u, <2>p, <3>1, OpenedUncut
    <3>4. /\ lockPc'[t] = "flock" /\ fd'[t] = n
          /\ \A u \in StorageThread \ {t} : lockPc'[u] = lockPc[u] /\ fd'[u] = fd[u]
      BY <3>1, <3>2 DEF LockTyped, Lock!TypeOK
    <3>5. Grip(t)'
      BY <3>2, <3>3, <3>4 DEF Grip, Lock!Holds, p
    <3>6. \A u \in StorageThread \ {t} : Grip(u)'
      BY <1>u, <3>2, <3>3, <3>4 DEF Uncut, Grip, Lock!Holds
    <3>7. CachedOpen'
      BY <3>2, <3>3 DEF CachedOpen
    <3>8. Alone'
      BY <1>u, <3>2, <3>3, <3>4 DEF Uncut, Alone, p
    <3> QED  BY <3>5, <3>6, <3>7, <3>8 DEF Uncut
  <2>6. CASE Lock!Flock(t)
    <3>1. /\ lockPc[t] = "flock" /\ lockPc'[t] = "held" /\ \A u \in StorageThread \ {t} : lockPc'[u] = lockPc[u]
          /\ UNCHANGED <<lockFile, closed, cached, lockEntries, shared, fd, entry>>
          /\ locks' = {l \in locks : l.p # p \/ l.fd # fd[t]}
                        \cup {[p |-> p, fd |-> fd[t], shared |-> shared[t]]}
      BY <2>6 DEF Lock!Flock, LockTyped, Lock!TypeOK, p
    <3>2. fd[t] # 0
      BY <3>1 DEF LockTyped, Stations
    <3>3. Grip(t)'
      BY <1>u, <3>1 DEF Uncut, Grip, Lock!Holds, p
    <3>4. ASSUME NEW u \in StorageThread \ {t} PROVE Grip(u)'
      <4>1. Lock!Holds(u) => [p |-> Of[u], fd |-> fd[u], shared |-> shared[u]] \in locks'
        <5>1. Lock!Holds(u) => Of[u] # p \/ fd[u] # fd[t]
          BY <1>u, <3>1, <3>2, OneEntered DEF Lock!Holds, p
        <5> QED  BY <1>u, <3>1, <5>1 DEF Uncut, Grip
      <4> QED  BY <1>u, <3>1, <4>1 DEF Uncut, Grip, Lock!Holds
    <3>5. CachedOpen' /\ Alone'
      BY <1>u, <3>1 DEF Uncut, CachedOpen, Alone
    <3> QED  BY <3>3, <3>4, <3>5 DEF Uncut
  <2>7. CASE Lock!FlockFails(t)
    <3>1. lockPc[t] = "flock" /\ lockFile[p][fd[t]] = 0
      BY <2>7 DEF Lock!FlockFails, p
    <3> QED  BY <1>u, <3>1 DEF Uncut, Grip, LockTyped, Stations, p
  <2>8. CASE Lock!Unlock(t)
    <3>1. /\ lockPc[t] = "held" /\ locks' = {l \in locks : l.p # p \/ l.fd # fd[t]}
          /\ lockFile' = (IF entry[t] = 0 THEN [lockFile EXCEPT ![p][fd[t]] = 0] ELSE lockFile)
          /\ UNCHANGED <<closed, cached, lockEntries>>
          /\ lockPc' = [lockPc EXCEPT ![t] = "idle"] /\ fd' = [fd EXCEPT ![t] = 0]
          /\ entry' = [entry EXCEPT ![t] = 0] /\ shared' = [shared EXCEPT ![t] = FALSE]
      BY <2>8 DEF Lock!Unlock, Lock!Done, p
    <3>2. /\ lockPc'[t] = "idle" /\ fd'[t] = 0 /\ entry'[t] = 0
          /\ \A u \in StorageThread \ {t} : /\ lockPc'[u] = lockPc[u] /\ fd'[u] = fd[u]
                                     /\ entry'[u] = entry[u] /\ shared'[u] = shared[u]
      BY <3>1 DEF LockTyped, Lock!TypeOK
    <3>3. /\ fd[t] # 0 /\ fd[t] \in 1..Fds
          /\ \A u \in StorageThread \ {t} : fd[u] # 0 => fd[u] \in 1..Fds
          /\ \A q \in Storage : cached[q] # 0 => cached[q] \in 1..Fds
      <4>1. fd[t] # 0
        BY <3>1 DEF LockTyped, Stations
      <4>2. /\ Fds \in Nat /\ \A u \in StorageThread : fd[u] \in 0..Fds
            /\ \A q \in Storage : cached[q] \in 0..Fds
        BY DEF LockTyped, Lock!TypeOK, Lock!LockAssumption
      <4> QED  BY <4>1, <4>2
    <3>4. \A q \in Storage, n \in 1..Fds :
            (entry[t] # 0 \/ q # p \/ n # fd[t]) => lockFile'[q][n] = lockFile[q][n]
      BY <3>1, <3>3 DEF LockTyped, Lock!TypeOK
    <3>5. Grip(t)'
      BY <3>2 DEF Grip, Lock!Holds
    <3>6. ASSUME NEW u \in StorageThread \ {t} PROVE Grip(u)'
      <4>1. fd[u] # 0 => lockFile'[Of[u]][fd[u]] # 0
        <5>1. CASE entry[t] # 0 \/ Of[u] # p \/ fd[u] # fd[t]
          BY <1>u, <1>o, <3>3, <3>4, <5>1 DEF Uncut, Grip
        <5>2. CASE entry[t] = 0 /\ Of[u] = p /\ fd[u] = fd[t]
          BY <1>u, <3>3, <5>2 DEF Uncut, Alone, p
        <5> QED  BY <5>1, <5>2
      <4>2. Lock!Holds(u) => [p |-> Of[u], fd |-> fd[u], shared |-> shared[u]] \in locks'
        <5>1. Lock!Holds(u) => Of[u] # p \/ fd[u] # fd[t]
          BY <1>u, <3>1, <3>3, OneEntered DEF Lock!Holds, p
        <5> QED  BY <1>u, <3>1, <5>1 DEF Uncut, Grip
      <4> QED  BY <1>u, <3>1, <3>2, <4>1, <4>2 DEF Uncut, Grip, Lock!Holds
    <3>7. CachedOpen'
      <4>1. ASSUME NEW q \in Storage, cached[q] # 0 PROVE lockFile'[q][cached[q]] # 0
        <5>1. entry[t] # 0 \/ q # p \/ cached[q] # fd[t]
          BY <1>u, <3>3 DEF Uncut, Grip, p
        <5> QED  BY <1>u, <3>3, <3>4, <4>1, <5>1 DEF Uncut, CachedOpen
      <4> QED  BY <3>1, <4>1 DEF CachedOpen
    <3>8. Alone'
      BY <1>u, <3>2 DEF Uncut, Alone
    <3> QED  BY <3>5, <3>6, <3>7, <3>8 DEF Uncut
  <2> QED  BY <2>1, <2>3, <2>5, <2>6, <2>7, <2>8
<1>5. CASE UNCHANGED Lock!vars
  BY <1>5, <1>u DEF Lock!vars, Uncut, CachedOpen, Alone, Grip, Lock!Holds
<1>6. Closing \subseteq Storage
  BY DEF Lock!LockAssumption
<1> QED  BY <1>1, <1>2, <1>3, <1>4, <1>5, <1>6 DEF Lock!Next

\* For any storages, processes and threads: two threads that hold the lock are
\* both readers, as long as the directory was not replaced and no storage was
\* closed under a thread that used it.
THEOREM LockExclusion == ASSUME Lock!LockAssumption PROVE Lock!Spec => []Lock!Excludes
<1>1. Lock!Init => LockHeld /\ FlocksApart /\ Uncut
  BY DEF Lock!Init, LockHeld, Owned, Entered, Locked, FlocksApart, Uncut, CachedOpen, Alone, Grip, Lock!Holds
<1>2. LockTyped /\ LockHeld /\ FlocksApart /\ (~lockCut => Uncut) => Lock!Excludes
  <2> SUFFICES ASSUME LockTyped, LockHeld, FlocksApart, Uncut, dirs <= 1,
                      NEW t \in StorageThread, NEW u \in StorageThread, t # u, Lock!Holds(t), Lock!Holds(u)
               PROVE  shared[t] /\ shared[u]
    BY DEF Lock!Excludes
  <2> DEFINE lt == [p |-> Of[t], fd |-> fd[t], shared |-> shared[t]]
             lu == [p |-> Of[u], fd |-> fd[u], shared |-> shared[u]]
  <2>1. lt \in locks /\ lu \in locks
    BY DEF Uncut, Grip
  <2>2. ~(Of[t] = Of[u] /\ fd[t] = fd[u])
    BY OneEntered DEF Lock!Holds, LockTyped, Stations
  <2>3. lockFile[Of[t]][fd[t]] = 1 /\ lockFile[Of[u]][fd[u]] = 1
    <3>1. /\ Of[t] \in Storage /\ fd[t] \in 1..Fds /\ lockFile[Of[t]][fd[t]] # 0
          /\ Of[u] \in Storage /\ fd[u] \in 1..Fds /\ lockFile[Of[u]][fd[u]] # 0
      BY <2>1 DEF LockTyped, Lock!TypeOK, FlocksApart
    <3>2. \A q \in Storage, n \in 1..Fds : lockFile[q][n] \in Nat /\ lockFile[q][n] <= 1
      <4>1. /\ lockFile \in [Storage -> [1..Fds -> 0..MaxDirs]]
            /\ \A q \in Storage, n \in 1..Fds : lockFile[q][n] <= dirs
        BY DEF LockTyped, Lock!TypeOK, Places
      <4>2. MaxDirs \in Nat /\ dirs \in 0..MaxDirs
        BY DEF LockTyped, Lock!TypeOK, Lock!LockAssumption
      <4>3. \A q \in Storage, n \in 1..Fds : lockFile[q][n] \in 0..MaxDirs
        <5>1. ASSUME NEW q \in Storage PROVE lockFile[q] \in [1..Fds -> 0..MaxDirs]
          BY <4>1
        <5> QED  BY <5>1
      <4> QED  BY <4>1, <4>2, <4>3
    <3> QED  BY <3>1, <3>2
  <2> QED  BY <2>1, <2>2, <2>3 DEF FlocksApart
<1> QED  BY <1>1, <1>2, LockInitTyped, LockNextTyped, LockNextHeld, NextApart, NextUncut, PTL DEF Lock!Spec

-----------------------------------------------------------------------------
(***************************************************************************)
(* The composition.                                                        *)
(***************************************************************************)
\* A part chosen at the start behaves as its own specification says, and no
\* other part is ever chosen.
LEMMA PartSteps ==
    ASSUME [PartsNext]_parts
    PROVE  /\ part' = part
           /\ part = "trials" => [Next]_vars
           /\ part = "lock" => [Lock!Next]_(Lock!vars)
           /\ part = "stores" => [Stores!Next]_(Stores!vars)
           /\ part = "calls" => [Calls!Next]_(Calls!vars)
           /\ part = "head" => [Heads!Next]_(Heads!vars)
           /\ part = "insights" => [Cloud!Next]_(Cloud!vars)
           /\ part = "verifier" => [Setup!Next]_(Setup!vars)
           /\ part = "generated" => [Refresh!Next]_(Refresh!vars)
           /\ part = "escalation" => [Hybrid!Next]_(Hybrid!vars)
           /\ part = "tiers" => [Tiers!Next]_(Tiers!vars)
<1>1. CASE UNCHANGED parts
  <2> USE <1>1 DEF parts
  <2>1. part' = part /\ UNCHANGED vars
    OBVIOUS
  <2>2. UNCHANGED Lock!vars /\ UNCHANGED Stores!vars /\ UNCHANGED Calls!vars
    BY DEF lockVars, Lock!vars, storesVars, Stores!vars, callsVars, Calls!vars
  <2>3. UNCHANGED Heads!vars
    BY DEF headsVars, Heads!vars, Heads!log, Heads!head, Heads!keepers, Heads!predictors
  <2>4. UNCHANGED Cloud!vars /\ UNCHANGED Setup!vars /\ UNCHANGED Refresh!vars
    BY DEF cloudVars, Cloud!vars, setupVars, Setup!vars, refreshVars, Refresh!vars
  <2>5. UNCHANGED Hybrid!vars /\ UNCHANGED Tiers!vars
    BY DEF hybridVars, Hybrid!vars, tiersVars, Tiers!vars
  <2> QED  BY <2>1, <2>2, <2>3, <2>4, <2>5
<1>2. CASE PartsNext
  BY <1>2 DEF PartsNext
<1> QED  BY <1>1, <1>2

LEMMA PartStarts ==
    ASSUME PartsInit
    PROVE  /\ Init
           /\ part = "lock" => Lock!Init
           /\ part = "stores" => Stores!Init
           /\ part = "calls" => Calls!Init
           /\ part = "head" => Heads!Init
           /\ part = "insights" => Cloud!Init
           /\ part = "verifier" => Setup!Init
           /\ part = "generated" => Refresh!Init
           /\ part = "escalation" => Hybrid!Init
           /\ part = "tiers" => Tiers!Init
  BY DEF PartsInit

\* The lock that appends and rotations take excludes.
THEOREM LockKept == PartsSpec => []LockExcludes
<1> DEFINE P == part = "lock"
<1>1. PartsInit => (P => Lock!Init)
  BY PartStarts
<1>2. [PartsNext]_parts => (P => P' /\ [Lock!Next]_(Lock!vars)) /\ (~P => ~P')
  BY PartSteps
<1>3. Lock!Spec => [](Lock!TypeOK /\ Lock!Excludes /\ Lock!NothingLeftLocked)
  BY PartsAssumption, LockTypeCorrect, LockExclusion, LockNothingLeft, PTL DEF PartsAssumption
<1>4. (P => Lock!TypeOK /\ Lock!Excludes /\ Lock!NothingLeftLocked) => LockExcludes
  BY DEF LockExcludes
<1> HIDE DEF P
<1> QED  BY <1>1, <1>2, <1>3, <1>4, PTL DEF PartsSpec, Lock!Spec

\* Promotions are announced once, are earned, and the tournament's winner was
\* right more often than the others.
THEOREM PromotionsEarned == PartsSpec => []PromotionsAreEarned
<1> DEFINE P == part = "trials"
<1>1. PartsInit => Init
  BY PartStarts
<1>2. [PartsNext]_parts => (P => P' /\ [Next]_vars) /\ (~P => ~P')
  BY PartSteps
<1>3. Spec => [](TypeOK /\ AnnouncedOnce /\ NeverPromotesWorse /\ WinnerIsBest)
  BY TrialsTypeCorrect, AnnouncedAtMostOnce, NeverWorse, TournamentWinner, PTL
<1>4. (P => TypeOK /\ AnnouncedOnce /\ NeverPromotesWorse /\ WinnerIsBest) => PromotionsAreEarned
  BY DEF PromotionsAreEarned
<1> HIDE DEF P
<1> QED  BY <1>1, <1>2, <1>3, <1>4, PTL DEF PartsSpec, Spec

\* The stores keep what they took: blobs are whole, the ledger keeps its events,
\* and SQLite's log only grows at its end (storage.py 1084-1095, core.py
\* 2638-2670).
THEOREM StoresKept == PartsSpec => StoresKeepWhatTheyTook
<1> DEFINE P == part = "stores"
           S == Stores!TypeOK /\ Stores!BlobIsWhole /\ Stores!LedgerKeepsEvents
           G == Stores!GrowsAtItsEnd
<1>1. PartsInit => (P => Stores!Init)
  BY PartStarts
<1>2. [PartsNext]_parts => (P => P' /\ [Stores!Next]_(Stores!vars)) /\ (~P => ~P')
  BY PartSteps
<1>3. Stores!Spec => []S /\ [][G]_(Stores!vars)
  BY StoresAreWhole
<1>4. [G]_(Stores!vars) => G
  BY DEF Stores!vars, Stores!GrowsAtItsEnd
<1>5. StoresKeepWhatTheyTook <=> [](P => S) /\ [][P => G]_parts
  BY DEF StoresKeepWhatTheyTook
<1> HIDE DEF P, S, G
<1> QED  BY <1>1, <1>2, <1>3, <1>4, <1>5, PTL DEF PartsSpec, Stores!Spec

\* Rows carry their own call's observations, actions that ran are on record, and
\* verdicts supersede UNKNOWN rows (core.py 1225-1425).
THEOREM CallsKept == PartsSpec => []CallsAreOnRecord
<1> DEFINE P == part = "calls"
           S == /\ Calls!TypeOK /\ Calls!ShadowsAreOwn
                /\ Calls!ActionIsOnRecord /\ Calls!VerdictSupersedes
<1>1. PartsInit => (P => Calls!Init)
  BY PartStarts
<1>2. [PartsNext]_parts => (P => P' /\ [Calls!Next]_(Calls!vars)) /\ (~P => ~P')
  BY PartSteps
<1>3. Calls!Spec => []S
  BY ServedCallsRecorded
<1>4. (P => S) => CallsAreOnRecord
  BY DEF CallsAreOnRecord
<1> HIDE DEF P, S
<1> QED  BY <1>1, <1>2, <1>3, <1>4, PTL DEF PartsSpec, Calls!Spec

\* A head answers as the model it was asked as, and is checkpointed whole
\* (ml.py 145-207, 414-466).
THEOREM HeadKept == PartsSpec => []HeadIsOneModel
<1> DEFINE P == part = "head"
           S == /\ Heads!TypeOK /\ Heads!QuietAnswerIsOwn /\ Heads!NeverAnswersAMistake
                /\ Heads!CheckpointIsWhole
<1>1. PartsInit => (P => Heads!Init)
  BY PartStarts
<1>2. [PartsNext]_parts => (P => P' /\ [Heads!Next]_(Heads!vars)) /\ (~P => ~P')
  BY PartSteps
<1>3. Heads!Spec => []S
  BY HeadAnswersAsOne
<1>4. (P => S) => HeadIsOneModel
  BY DEF HeadIsOneModel
<1> HIDE DEF P, S
<1> QED  BY <1>1, <1>2, <1>3, <1>4, PTL DEF PartsSpec, Heads!Spec

\* Events reach the collector once and in order, and the defaults in force are
\* one published document (insights/events.py 146-276).
THEOREM EventsKept == PartsSpec => []EventsReachTheCollector
<1> DEFINE P == part = "insights"
           S == /\ Cloud!TypeOK /\ Cloud!LossNeedsOverlap /\ Cloud!DuplicateNeedsCut
                /\ Cloud!LoadedIsPublished
<1>1. PartsInit => (P => Cloud!Init)
  BY PartStarts
<1>2. [PartsNext]_parts => (P => P' /\ [Cloud!Next]_(Cloud!vars)) /\ (~P => ~P')
  BY PartSteps
<1>3. Cloud!Spec => []S
  BY EventsNeitherLostNorTwice
<1>4. (P => S) => EventsReachTheCollector
  BY DEF EventsReachTheCollector
<1> HIDE DEF P, S
<1> QED  BY <1>1, <1>2, <1>3, <1>4, PTL DEF PartsSpec, Cloud!Spec

\* The verifier is loaded whole and is one that was asked for
\* (bundled.py 145-206, verdicts.py 609-690).
THEOREM VerifierKept == PartsSpec => []VerifierIsAsAsked
<1> DEFINE P == part = "verifier"
           S == Setup!TypeOK /\ Setup!LoadedModelIsWhole /\ Setup!NoSurpriseCloud
<1>1. PartsInit => (P => Setup!Init)
  BY PartStarts
<1>2. [PartsNext]_parts => (P => P' /\ [Setup!Next]_(Setup!vars)) /\ (~P => ~P')
  BY PartSteps
<1>3. Setup!Spec => []S
  BY VerifierSetUp
<1>4. (P => S) => VerifierIsAsAsked
  BY DEF VerifierIsAsAsked
<1> HIDE DEF P, S
<1> QED  BY <1>1, <1>2, <1>3, <1>4, PTL DEF PartsSpec, Setup!Spec

\* Advised regeneration destroys no edit it could have read, and "up to date" is
\* said of current bodies alone (refresh.py 110-133, 236-267).
THEOREM GeneratedFilesKept == PartsSpec => []GeneratedFilesAreSafe
<1> DEFINE P == part = "generated"
           S == Refresh!TypeOK /\ Refresh!EditsSurvive /\ Refresh!UpToDateIsCurrent
<1>1. PartsInit => (P => Refresh!Init)
  BY PartStarts
<1>2. [PartsNext]_parts => (P => P' /\ [Refresh!Next]_(Refresh!vars)) /\ (~P => ~P')
  BY PartSteps
<1>3. Refresh!Spec => []S
  BY RegeneratingIsSafe
<1>4. (P => S) => GeneratedFilesAreSafe
  BY DEF GeneratedFilesAreSafe
<1> HIDE DEF P, S
<1> QED  BY <1>1, <1>2, <1>3, <1>4, PTL DEF PartsSpec, Refresh!Spec

\* The calibrated gate meets its floor, at the least escalation
\* (escalation.py 56-140).
THEOREM GateKept == PartsSpec => []GateIsCalibrated
<1> DEFINE P == part = "escalation"
           S == /\ Hybrid!TypeOK /\ Hybrid!GateMeetsFloor
                /\ Hybrid!GateIsCheapest /\ Hybrid!RefusedOnlyWhenCertain
<1>1. PartsInit => (P => Hybrid!Init)
  BY PartStarts
<1>2. [PartsNext]_parts => (P => P' /\ [Hybrid!Next]_(Hybrid!vars)) /\ (~P => ~P')
  BY PartSteps
<1>3. Hybrid!Spec => []S
  BY GateCalibrated
<1>4. (P => S) => GateIsCalibrated
  BY DEF GateIsCalibrated
<1> HIDE DEF P, S
<1> QED  BY <1>1, <1>2, <1>3, <1>4, PTL DEF PartsSpec, Hybrid!Spec

\* A dearer tier has earned its cost, and the terminal choice agrees with the
\* crossover (aga.py 110-173).
THEOREM TiersKept == PartsSpec => []TierEarnsItsCost
<1> DEFINE P == part = "tiers"
           S == Tiers!TypeOK /\ Tiers!CostIsEarned /\ Tiers!NoCrossoverNoML
<1>1. PartsInit => (P => Tiers!Init)
  BY PartStarts
<1>2. [PartsNext]_parts => (P => P' /\ [Tiers!Next]_(Tiers!vars)) /\ (~P => ~P')
  BY PartSteps
<1>3. Tiers!Spec => []S
  BY TierIsWorthIt
<1>4. (P => S) => TierEarnsItsCost
  BY DEF TierEarnsItsCost
<1> HIDE DEF P, S
<1> QED  BY <1>1, <1>2, <1>3, <1>4, PTL DEF PartsSpec, Tiers!Spec
=============================================================================
