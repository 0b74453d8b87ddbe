--------------------------- MODULE ModuleConfig_proofs ---------------------------
(***************************************************************************)
(* Theorems about ModuleConfig, for every set of objects, urls and paths,  *)
(* and for urls and names of any length.                                   *)
(*                                                                         *)
(* The module begins with the algorithms of UrlMatch.  Reading a url       *)
(* against a place, isMatchByName, is a recursion over two positions; a    *)
(* reading is described by the set of pairs of positions from which it     *)
(* succeeds outside of a wildcard and by the set for inside of one (Reads),*)
(* and what is proved about it is proved by induction over the sum of the  *)
(* two positions.  One part of a url is read as if it were alone           *)
(* (PartRead), so a url matches a place exactly if its last parts match    *)
(* those of the place (MatchFits, FitMatches); splitUrl returns these      *)
(* parts (SplitIs), findObjects compares them in two pieces (FoundFits),   *)
(* and without wildcards isEqualByName compares the same (EqualIsMatch).   *)
(*                                                                         *)
(* Then the state machine: that the flags follow the configuration rests   *)
(* on SearchFinds, that is on the agreement of the two ways of asking.     *)
(***************************************************************************)
EXTENDS ModuleConfig, ListFacts, TLAPS

-----------------------------------------------------------------------------
(* Reading a url against a place: what isMatchByName computes.              *)

\* How isMatchByName goes on at one place of a url and a path, and everywhere.
Outcome(f, url, path, u, p, wild) ==
  CASE u = 0 \/ p = 0 -> wild \/ u > 0 \/ p = 0 \/ path[p] = "/" \/ url[1] = "/"
    [] u > 0 /\ p > 0 /\ url[u] = path[p] -> f[<<u - 1, p - 1, FALSE>>]
    [] u > 0 /\ p > 0 /\ url[u] # path[p] /\ url[u] = "*" -> f[<<u - 1, p, TRUE>>]
    [] OTHER -> wild /\ path[p] # "/" /\ f[<<u, p - 1, wild>>]

Grid(url, path) == (0..Len(url)) \X (0..Len(path)) \X BOOLEAN

ReadingStep(f, url, path) ==
  [at \in Grid(url, path) |-> Outcome(f, url, path, at[1], at[2], at[3])]

Reading(url, path) == CHOOSE f : f = ReadingStep(f, url, path)

\* What one step makes of a place, outside and inside of a wildcard.
StepsTo(g, f, url, path) ==
  \A u \in 0..Len(url), p \in 0..Len(path) :
    /\ u = 0 \/ p = 0 =>
         /\ g[<<u, p, TRUE>>] = TRUE
         /\ g[<<u, p, FALSE>>] = TRUE <=> u > 0 \/ p = 0 \/ path[p] = "/" \/ url[1] = "/"
    /\ u > 0 /\ p > 0 /\ url[u] = path[p] =>
         \A x \in BOOLEAN : g[<<u, p, x>>] = TRUE <=> f[<<u - 1, p - 1, FALSE>>] = TRUE
    /\ u > 0 /\ p > 0 /\ url[u] # path[p] /\ url[u] = "*" =>
         \A x \in BOOLEAN : g[<<u, p, x>>] = TRUE <=> f[<<u - 1, p, TRUE>>] = TRUE
    /\ u > 0 /\ p > 0 /\ url[u] # path[p] /\ url[u] # "*" =>
         /\ g[<<u, p, FALSE>>] # TRUE
         /\ g[<<u, p, TRUE>>] = TRUE <=> path[p] # "/" /\ f[<<u, p - 1, TRUE>>] = TRUE

\* isMatchByName is what its reading says of the two ends.
LEMMA MatchIsReading ==
  ASSUME NEW url, NEW name
  PROVE  IsMatchByName(url, name) <=>
           Reading(url, Slash \o name)[<<Len(url), Len(Slash \o name), FALSE>>] = TRUE
  BY DEF IsMatchByName, Reading, ReadingStep, Grid, Outcome

\* What a step makes of a reading, case by case.
LEMMA StepFacts ==
  ASSUME NEW url \in Seq(Chars), NEW path \in Seq(Chars), NEW f
  PROVE  /\ StepsTo(ReadingStep(f, url, path), f, url, path)
         /\ ReadingStep(f, url, path) = [at \in Grid(url, path) |-> ReadingStep(f, url, path)[at]]
  <1> DEFINE g == ReadingStep(f, url, path)
             O(u, p, x) == Outcome(f, url, path, u, p, x)
  <1>1. /\ Len(url) \in Nat /\ Len(path) \in Nat
    OBVIOUS
  <1>2. g = [at \in Grid(url, path) |-> g[at]]
    BY DEF ReadingStep
  <1>3. \A u \in 0..Len(url), p \in 0..Len(path), x \in BOOLEAN : g[<<u, p, x>>] = O(u, p, x)
    BY DEF ReadingStep, Grid
  <1>4. ASSUME NEW u \in 0..Len(url), NEW p \in 0..Len(path), u = 0 \/ p = 0
        PROVE  /\ O(u, p, TRUE) = TRUE
               /\ O(u, p, FALSE) = TRUE <=> u > 0 \/ p = 0 \/ path[p] = "/" \/ url[1] = "/"
    BY <1>4 DEF Outcome
  <1>5. ASSUME NEW u \in 0..Len(url), NEW p \in 0..Len(path), NEW x \in BOOLEAN,
               u > 0, p > 0, url[u] = path[p]
        PROVE  O(u, p, x) = f[<<u - 1, p - 1, FALSE>>]
    BY <1>5 DEF Outcome
  <1>6. ASSUME NEW u \in 0..Len(url), NEW p \in 0..Len(path), NEW x \in BOOLEAN,
               u > 0, p > 0, url[u] # path[p], url[u] = "*"
        PROVE  O(u, p, x) = f[<<u - 1, p, TRUE>>]
    BY <1>6 DEF Outcome
  <1>7. ASSUME NEW u \in 0..Len(url), NEW p \in 0..Len(path),
               u > 0, p > 0, url[u] # path[p], url[u] # "*"
        PROVE  /\ O(u, p, FALSE) # TRUE
               /\ O(u, p, TRUE) = TRUE <=> path[p] # "/" /\ f[<<u, p - 1, TRUE>>] = TRUE
    <2>0. ~(u = 0 \/ p = 0)
      BY <1>1, <1>7
    <2>1. O(u, p, FALSE) = (FALSE /\ path[p] # "/" /\ f[<<u, p - 1, FALSE>>])
      BY <1>7, <2>0 DEF Outcome
    <2>2. O(u, p, TRUE) = (TRUE /\ path[p] # "/" /\ f[<<u, p - 1, TRUE>>])
      BY <1>7, <2>0 DEF Outcome
    <2>3. O(u, p, FALSE) = FALSE
      BY <2>1
    <2>4. (TRUE /\ path[p] # "/" /\ f[<<u, p - 1, TRUE>>]) = TRUE
            <=> path[p] # "/" /\ f[<<u, p - 1, TRUE>>] = TRUE
      OBVIOUS
    <2> HIDE DEF O
    <2> QED BY <2>2, <2>3, <2>4
  <1> HIDE DEF g, O
  <1>8. StepsTo(g, f, url, path)
    <2> SUFFICES ASSUME NEW u \in 0..Len(url), NEW p \in 0..Len(path)
                 PROVE
    /\ u = 0 \/ p = 0 =>
         /\ g[<<u, p, TRUE>>] = TRUE
         /\ g[<<u, p, FALSE>>] = TRUE <=> u > 0 \/ p = 0 \/ path[p] = "/" \/ url[1] = "/"
    /\ u > 0 /\ p > 0 /\ url[u] = path[p] =>
         \A x \in BOOLEAN : g[<<u, p, x>>] = TRUE <=> f[<<u - 1, p - 1, FALSE>>] = TRUE
    /\ u > 0 /\ p > 0 /\ url[u] # path[p] /\ url[u] = "*" =>
         \A x \in BOOLEAN : g[<<u, p, x>>] = TRUE <=> f[<<u - 1, p, TRUE>>] = TRUE
    /\ u > 0 /\ p > 0 /\ url[u] # path[p] /\ url[u] # "*" =>
         /\ g[<<u, p, FALSE>>] # TRUE
         /\ g[<<u, p, TRUE>>] = TRUE <=> path[p] # "/" /\ f[<<u, p - 1, TRUE>>] = TRUE
      BY DEF StepsTo
    <2>1. TRUE \in BOOLEAN /\ FALSE \in BOOLEAN
      OBVIOUS
    <2>2. g[<<u, p, TRUE>>] = O(u, p, TRUE) /\ g[<<u, p, FALSE>>] = O(u, p, FALSE)
      BY <1>3, <2>1
    <2> QED BY <1>3, <1>4, <1>5, <1>6, <1>7, <2>2
  <1> QED BY <1>2, <1>8 DEF g

\* Reading a url against a path: the places from which it succeeds, outside of a wildcard
\* and inside of one.
Reads(P, W, url, path) ==
  \A u \in 0..Len(url), p \in 0..Len(path) :
    /\ u = 0 \/ p = 0 =>
         /\ <<u, p>> \in W
         /\ <<u, p>> \in P <=> u > 0 \/ p = 0 \/ path[p] = "/" \/ url[1] = "/"
    /\ u > 0 /\ p > 0 /\ url[u] = path[p] =>
         /\ <<u, p>> \in P <=> <<u - 1, p - 1>> \in P
         /\ <<u, p>> \in W <=> <<u - 1, p - 1>> \in P
    /\ u > 0 /\ p > 0 /\ url[u] # path[p] /\ url[u] = "*" =>
         /\ <<u, p>> \in P <=> <<u - 1, p>> \in W
         /\ <<u, p>> \in W <=> <<u - 1, p>> \in W
    /\ u > 0 /\ p > 0 /\ url[u] # path[p] /\ url[u] # "*" =>
         /\ <<u, p>> \notin P
         /\ <<u, p>> \in W <=> path[p] # "/" /\ <<u, p - 1>> \in W

\* A step makes a reading of a reading.
LEMMA StepType ==
  ASSUME NEW url \in Seq(Chars), NEW path \in Seq(Chars), NEW f \in [Grid(url, path) -> BOOLEAN]
  PROVE  ReadingStep(f, url, path) \in [Grid(url, path) -> BOOLEAN]
  <1>1. Len(url) \in Nat /\ Len(path) \in Nat
    OBVIOUS
  <1>2. ASSUME NEW u \in 0..Len(url), NEW p \in 0..Len(path), NEW x \in BOOLEAN
        PROVE  Outcome(f, url, path, u, p, x) \in BOOLEAN
    <2>1. CASE u = 0 \/ p = 0
      <3>1. Outcome(f, url, path, u, p, x) = (x \/ u > 0 \/ p = 0 \/ path[p] = "/" \/ url[1] = "/")
        BY <2>1 DEF Outcome
      <3> QED BY <3>1
    <2>2. ASSUME u > 0, p > 0 PROVE Outcome(f, url, path, u, p, x) \in BOOLEAN
      <3>1. u - 1 \in 0..Len(url) /\ p - 1 \in 0..Len(path) /\ TRUE \in BOOLEAN /\ FALSE \in BOOLEAN
        BY <1>1, <2>2
      <3>2. <<u - 1, p - 1, FALSE>> \in Grid(url, path) /\ <<u - 1, p, TRUE>> \in Grid(url, path)
            /\ <<u, p - 1, x>> \in Grid(url, path)
        BY <3>1 DEF Grid
      <3>3. f[<<u - 1, p - 1, FALSE>>] \in BOOLEAN /\ f[<<u - 1, p, TRUE>>] \in BOOLEAN
        BY <3>2
      <3>4. ~(u = 0 \/ p = 0)
        BY <1>1, <2>2
      <3> QED BY <2>2, <3>3, <3>4 DEF Outcome
    <2> QED BY <1>1, <2>1, <2>2
  <1>3. \A at \in Grid(url, path) : at[1] \in 0..Len(url) /\ at[2] \in 0..Len(path) /\ at[3] \in BOOLEAN
    BY DEF Grid
  <1>4. \A at \in Grid(url, path) : Outcome(f, url, path, at[1], at[2], at[3]) \in BOOLEAN
    BY <1>2, <1>3
  <1> QED BY <1>4 DEF ReadingStep

\* Two readings agree up to a distance from the fronts.
AgreeUpto(f, g, d, url, path) ==
  \A u \in 0..Len(url), p \in 0..Len(path), x \in BOOLEAN :
    u + p < d => (f[<<u, p, x>>] = TRUE <=> g[<<u, p, x>>] = TRUE)

\* Two readings that agree up to a distance from the ends agree one further after a step.
LEMMA StepAgrees ==
  ASSUME NEW url \in Seq(Chars), NEW path \in Seq(Chars), NEW d \in Nat,
         NEW f, NEW g, NEW f2, NEW g2, StepsTo(g, f, url, path), StepsTo(g2, f2, url, path),
         AgreeUpto(f, f2, d, url, path)
  PROVE  AgreeUpto(g, g2, d + 1, url, path)
  <1> SUFFICES ASSUME NEW u \in 0..Len(url), NEW p \in 0..Len(path), NEW x \in BOOLEAN, u + p < d + 1
               PROVE  g[<<u, p, x>>] = TRUE <=> g2[<<u, p, x>>] = TRUE
    BY DEF AgreeUpto
  <1>1. /\ Len(url) \in Nat /\ Len(path) \in Nat /\ (x = TRUE \/ x = FALSE)
        /\ u = 0 \/ p = 0 \/ (u > 0 /\ p > 0)
    OBVIOUS
  <1>2. CASE u = 0 \/ p = 0
    <2>1. /\ g[<<u, p, TRUE>>] = TRUE <=> g2[<<u, p, TRUE>>] = TRUE
          /\ g[<<u, p, FALSE>>] = TRUE <=> g2[<<u, p, FALSE>>] = TRUE
      BY <1>2 DEF StepsTo
    <2> QED BY <1>1, <2>1
  <1>3. ASSUME u > 0, p > 0 PROVE g[<<u, p, x>>] = TRUE <=> g2[<<u, p, x>>] = TRUE
    <2>1. /\ u - 1 \in 0..Len(url) /\ p - 1 \in 0..Len(path) /\ FALSE \in BOOLEAN /\ TRUE \in BOOLEAN
          /\ (u - 1) + (p - 1) < d /\ (u - 1) + p < d /\ u + (p - 1) < d
      BY <1>1, <1>3
    <2>2. /\ f[<<u - 1, p - 1, FALSE>>] = TRUE <=> f2[<<u - 1, p - 1, FALSE>>] = TRUE
          /\ f[<<u - 1, p, TRUE>>] = TRUE <=> f2[<<u - 1, p, TRUE>>] = TRUE
          /\ f[<<u, p - 1, TRUE>>] = TRUE <=> f2[<<u, p - 1, TRUE>>] = TRUE
      BY <2>1 DEF AgreeUpto
    <2>3. CASE url[u] = path[p]
      BY <1>3, <2>2, <2>3 DEF StepsTo
    <2>4. CASE url[u] # path[p] /\ url[u] = "*"
      BY <1>3, <2>2, <2>4 DEF StepsTo
    <2>5. CASE url[u] # path[p] /\ url[u] # "*"
      <3>1. /\ g[<<u, p, TRUE>>] = TRUE <=> g2[<<u, p, TRUE>>] = TRUE
            /\ g[<<u, p, FALSE>>] = TRUE <=> g2[<<u, p, FALSE>>] = TRUE
        BY <1>3, <2>2, <2>5 DEF StepsTo
      <3> QED BY <1>1, <3>1
    <2> QED BY <2>3, <2>4, <2>5
  <1>4. CASE u > 0 /\ p > 0
    BY <1>3, <1>4
  <1> QED BY <1>1, <1>2, <1>4

\* There is a reading that each step leaves as it is.
LEMMA ReadingExists ==
  ASSUME NEW url \in Seq(Chars), NEW path \in Seq(Chars)
  PROVE  \E f : f = ReadingStep(f, url, path)
  <1>1. PICK N \in Nat : N = Len(url) + Len(path) + 1
    OBVIOUS
  <1>2. PICK D : D = Grid(url, path)
    OBVIOUS
  <1> DEFINE X == [D -> BOOLEAN]
             G == [d \in 1..(N + 1) |-> [f \in X |-> ReadingStep(f, url, path)]]
             A == [at \in D |-> FALSE]
  <1>3. /\ \A d \in 1..(N + 1) : \A f \in X : G[d][f] = ReadingStep(f, url, path)
        /\ \A f \in X : ReadingStep(f, url, path) \in X
    BY <1>2, StepType
  <1>4. G \in [1..(N + 1) -> [X -> X]] /\ A \in X
    BY <1>3
  <1> HIDE DEF X, G, A
  <1>5. PICK F \in [0..(N + 1) -> X] : Follows(F, N + 1, A, G)
    <2>1. N + 1 \in Nat
      OBVIOUS
    <2> QED BY <1>4, <2>1, RecursionExists
  <1>6. \A d \in 1..(N + 1) : d - 1 \in 0..(N + 1) /\ F[d] = ReadingStep(F[d - 1], url, path)
    <2>1. \A d \in 1..(N + 1) : d - 1 \in 0..(N + 1) /\ F[d - 1] \in X
      OBVIOUS
    <2> QED BY <1>3, <1>5, <2>1 DEF Follows
  <1>7. \A d \in 1..(N + 1) : StepsTo(F[d], F[d - 1], url, path)
    BY <1>6, StepFacts
  <1> DEFINE Same(d) == d <= N => AgreeUpto(F[d], F[d + 1], d, url, path)
             T == {d \in Nat : Same(d)}
  <1>8. 0 \in T
    <2>1. \A u \in 0..Len(url), p \in 0..Len(path) : ~(u + p < 0)
      OBVIOUS
    <2> QED BY <2>1 DEF AgreeUpto
  <1>9. ASSUME NEW d \in T PROVE d + 1 \in T
    <2>1. d \in Nat /\ d + 1 \in Nat
      OBVIOUS
    <2>2. ASSUME d + 1 <= N PROVE Same(d + 1)
      <3>1. d <= N /\ d + 1 \in 1..(N + 1) /\ d + 2 \in 1..(N + 1) /\ (d + 1) - 1 = d /\ (d + 2) - 1 = d + 1
            /\ (d + 1) + 1 = d + 2
        BY <2>1, <2>2
      <3>2. StepsTo(F[d + 1], F[d], url, path) /\ StepsTo(F[d + 2], F[d + 1], url, path)
        BY <1>7, <3>1
      <3>3. AgreeUpto(F[d], F[d + 1], d, url, path)
        BY <3>1
      <3>4. AgreeUpto(F[d + 1], F[d + 2], d + 1, url, path)
        BY <2>1, <3>2, <3>3, StepAgrees
      <3> QED BY <3>1, <3>4
    <2> HIDE DEF Same
    <2> QED BY <2>1, <2>2 DEF Same
  <1>10. Same(N)
    <2>1. T \subseteq Nat
      OBVIOUS
    <2> HIDE DEF T
    <2>2. \A d \in Nat : d \in T
      BY <1>8, <1>9, <2>1, NatSetInduction
    <2> QED BY <2>2 DEF T
  <1>11. \A u \in 0..Len(url), p \in 0..Len(path), x \in BOOLEAN :
           F[N][<<u, p, x>>] = TRUE <=> F[N + 1][<<u, p, x>>] = TRUE
    <2>1. \A u \in 0..Len(url), p \in 0..Len(path) : u + p < N
      BY <1>1
    <2>2. AgreeUpto(F[N], F[N + 1], N, url, path)
      BY <1>10
    <2> QED BY <2>1, <2>2 DEF AgreeUpto
  <1>12. F[N] \in [D -> BOOLEAN] /\ F[N + 1] \in [D -> BOOLEAN]
    BY <1>5 DEF X
  <1>13. F[N] = F[N + 1]
    <2>1. \A at \in D : at[1] \in 0..Len(url) /\ at[2] \in 0..Len(path) /\ at[3] \in BOOLEAN
                         /\ at = <<at[1], at[2], at[3]>>
      BY <1>2 DEF Grid
    <2>2. \A at \in D : F[N][at] = TRUE <=> F[N + 1][at] = TRUE
      BY <1>11, <2>1
    <2>3. \A at \in D : F[N][at] \in BOOLEAN /\ F[N + 1][at] \in BOOLEAN
      BY <1>12
    <2>4. \A at \in D : F[N][at] = F[N + 1][at]
      BY <2>2, <2>3
    <2> QED BY <1>12, <2>4
  <1>14. F[N] = ReadingStep(F[N], url, path)
    <2>1. N + 1 \in 1..(N + 1) /\ (N + 1) - 1 = N
      OBVIOUS
    <2> QED BY <1>6, <1>13, <2>1
  <1> QED BY <1>14

\* A path is a name with a "/" in front of it.
LEMMA SlashFacts ==
  ASSUME NEW s \in Seq(Chars)
  PROVE  /\ Slash \o s \in Seq(Chars) /\ Len(Slash \o s) = Len(s) + 1 /\ (Slash \o s)[1] = "/"
         /\ \A i \in 1..Len(s) : (Slash \o s)[i + 1] = s[i]
  <1>1. "/" \in Chars
    BY CharAssumption
  <1>2. PICK t : t = Slash
    OBVIOUS
  <1>3. /\ t \in Seq(Chars) /\ Len(t) = 1 /\ t[1] = "/"
    BY <1>1, <1>2 DEF Slash
  <1>4. t \o s \in Seq(Chars) /\ Len(t \o s) = Len(t) + Len(s)
    BY <1>3, Concats
  <1>5. (t \o s)[1] = t[1]
    BY <1>3, Concats
  <1>6. \A i \in 1..Len(t \o s) : i > Len(t) => i - Len(t) \in 1..Len(s) /\ (t \o s)[i] = s[i - Len(t)]
    BY <1>3, Concats
  <1>7. Len(s) \in Nat
    OBVIOUS
  <1> QED BY <1>2, <1>3, <1>4, <1>5, <1>6, <1>7

\* isMatchByName reads the url against the place with a "/" in front of it.
LEMMA Readings ==
  ASSUME NEW url \in Seq(Chars), NEW name \in Seq(Chars)
  PROVE  \E P, W : /\ Reads(P, W, url, Slash \o name)
                   /\ IsMatchByName(url, name) <=> <<Len(url), Len(name) + 1>> \in P
  <1>1. PICK path \in Seq(Chars) : path = Slash \o name /\ Len(path) = Len(name) + 1
    BY SlashFacts
  <1>2. PICK q : q = Reading(url, path)
    OBVIOUS
  <1>3. q = ReadingStep(q, url, path)
    BY <1>2, ReadingExists DEF Reading
  <1>4. StepsTo(q, q, url, path)
    BY <1>3, StepFacts
  <1> DEFINE P == {k \in (0..Len(url)) \X (0..Len(path)) : q[<<k[1], k[2], FALSE>>] = TRUE}
             W == {k \in (0..Len(url)) \X (0..Len(path)) : q[<<k[1], k[2], TRUE>>] = TRUE}
  <1>5. /\ \A u \in 0..Len(url), p \in 0..Len(path) : <<u, p>> \in P <=> q[<<u, p, FALSE>>] = TRUE
        /\ \A u \in 0..Len(url), p \in 0..Len(path) : <<u, p>> \in W <=> q[<<u, p, TRUE>>] = TRUE
    OBVIOUS
  <1>6. Len(url) \in 0..Len(url) /\ Len(path) \in 0..Len(path) /\ Len(url) \in Nat /\ Len(path) \in Nat
    OBVIOUS
  <1> HIDE DEF P, W
  <1>7. Reads(P, W, url, path)
    <2> SUFFICES ASSUME NEW u \in 0..Len(url), NEW p \in 0..Len(path)
                 PROVE
    /\ u = 0 \/ p = 0 =>
         /\ <<u, p>> \in W
         /\ <<u, p>> \in P <=> u > 0 \/ p = 0 \/ path[p] = "/" \/ url[1] = "/"
    /\ u > 0 /\ p > 0 /\ url[u] = path[p] =>
         /\ <<u, p>> \in P <=> <<u - 1, p - 1>> \in P
         /\ <<u, p>> \in W <=> <<u - 1, p - 1>> \in P
    /\ u > 0 /\ p > 0 /\ url[u] # path[p] /\ url[u] = "*" =>
         /\ <<u, p>> \in P <=> <<u - 1, p>> \in W
         /\ <<u, p>> \in W <=> <<u - 1, p>> \in W
    /\ u > 0 /\ p > 0 /\ url[u] # path[p] /\ url[u] # "*" =>
         /\ <<u, p>> \notin P
         /\ <<u, p>> \in W <=> path[p] # "/" /\ <<u, p - 1>> \in W
      BY DEF Reads
    <2>1. <<u, p>> \in P <=> q[<<u, p, FALSE>>] = TRUE
      BY <1>5
    <2>2. <<u, p>> \in W <=> q[<<u, p, TRUE>>] = TRUE
      BY <1>5
    <2>3. CASE u = 0 \/ p = 0
      <3>1. ~(u > 0 /\ p > 0)
        BY <1>6, <2>3
      <3>2. /\ q[<<u, p, TRUE>>] = TRUE
            /\ q[<<u, p, FALSE>>] = TRUE <=> u > 0 \/ p = 0 \/ path[p] = "/" \/ url[1] = "/"
        BY <1>4, <2>3 DEF StepsTo
      <3> QED BY <2>1, <2>2, <3>1, <3>2
    <2>4. CASE u > 0 /\ p > 0
      <3>1. u - 1 \in 0..Len(url) /\ p - 1 \in 0..Len(path)
        BY <1>6, <2>4
      <3>2. /\ <<u - 1, p - 1>> \in P <=> q[<<u - 1, p - 1, FALSE>>] = TRUE
            /\ <<u - 1, p>> \in W <=> q[<<u - 1, p, TRUE>>] = TRUE
            /\ <<u, p - 1>> \in W <=> q[<<u, p - 1, TRUE>>] = TRUE
        BY <1>5, <3>1
      <3>3. CASE url[u] = path[p]
        BY <1>4, <2>1, <2>2, <2>4, <3>2, <3>3 DEF StepsTo
      <3>4. CASE url[u] # path[p] /\ url[u] = "*"
        BY <1>4, <2>1, <2>2, <2>4, <3>2, <3>4 DEF StepsTo
      <3>5. CASE url[u] # path[p] /\ url[u] # "*"
        BY <1>4, <2>1, <2>2, <2>4, <3>2, <3>5 DEF StepsTo
      <3> QED BY <2>4, <3>3, <3>4, <3>5
    <2> QED BY <1>6, <2>3, <2>4
  <1>8. IsMatchByName(url, name) <=> q[<<Len(url), Len(path), FALSE>>] = TRUE
    BY <1>1, <1>2, MatchIsReading
  <1>9. IsMatchByName(url, name) <=> <<Len(url), Len(path)>> \in P
    BY <1>5, <1>6, <1>8
  <1> QED BY <1>1, <1>7, <1>9

\* What is between the "/" of a url.
Words == {w \in Seq(Chars) : w # <<>> /\ \A i \in 1..Len(w) : w[i] # "/"}

\* A part of a url matches a part of a place.
PartMatches(w, v) == IsMatchByName(Slash \o w, v)

\* A part of a text, behind the first a characters.
PartAt(url, a, w) == a + Len(w) <= Len(url) /\ \A i \in 1..Len(w) : url[a + i] = w[i]

\* One step of a reading, away from the fronts: c is read against d.
Inside(P, W, u, p, c, d) ==
  /\ c = d =>
       /\ <<u, p>> \in P <=> <<u - 1, p - 1>> \in P
       /\ <<u, p>> \in W <=> <<u - 1, p - 1>> \in P
  /\ c # d /\ c = "*" =>
       /\ <<u, p>> \in P <=> <<u - 1, p>> \in W
       /\ <<u, p>> \in W <=> <<u - 1, p>> \in W
  /\ c # d /\ c # "*" =>
       /\ <<u, p>> \notin P
       /\ <<u, p>> \in W <=> d # "/" /\ <<u, p - 1>> \in W

\* Away from the fronts a reading goes on by one step.
LEMMA ReadsInside ==
  ASSUME NEW url \in Seq(Chars), NEW path \in Seq(Chars), NEW P, NEW W, Reads(P, W, url, path),
         NEW u \in 1..Len(url), NEW p \in 1..Len(path)
  PROVE  Inside(P, W, u, p, url[u], path[p])
  <1>1. u \in 0..Len(url) /\ p \in 0..Len(path) /\ u > 0 /\ p > 0
    OBVIOUS
  <1> QED BY <1>1 DEF Reads, Inside

\* At the front of one of them.
LEMMA ReadsFront ==
  ASSUME NEW url, NEW path, NEW P, NEW W, Reads(P, W, url, path),
         NEW u \in 0..Len(url), NEW p \in 0..Len(path), u = 0 \/ p = 0
  PROVE  /\ <<u, p>> \in W
         /\ <<u, p>> \in P <=> u > 0 \/ p = 0 \/ path[p] = "/" \/ url[1] = "/"
  BY DEF Reads

\* A part is read as if it were alone, and then what is before it.
LEMMA PartRead ==
  ASSUME NEW url \in Seq(Chars), NEW path \in Seq(Chars), NEW P, NEW W, Reads(P, W, url, path),
         NEW w \in Words, NEW v \in Words, NEW Q, NEW V, Reads(Q, V, Slash \o w, Slash \o v),
         NEW a \in Nat, NEW b \in Nat, b > 0, PartAt(url, a, w), PartAt(path, b, v),
         path[b] = "/", a = 0 \/ url[a] = "/"
  PROVE  <<a + Len(w), b + Len(v)>> \in P <=>
           <<Len(w) + 1, Len(v) + 1>> \in Q /\ (a = 0 \/ <<a - 1, b - 1>> \in P)
  <1> DEFINE Rest == a = 0 \/ <<a - 1, b - 1>> \in P
             Same(i, j) == /\ <<a + i, b + j>> \in P <=> <<i + 1, j + 1>> \in Q /\ Rest
                           /\ <<a + i, b + j>> \in W <=> <<i + 1, j + 1>> \in V /\ Rest
  <1>1. /\ Len(w) \in Nat \ {0} /\ Len(v) \in Nat /\ Len(url) \in Nat /\ Len(path) \in Nat
        /\ a + Len(w) <= Len(url) /\ b + Len(v) <= Len(path)
        /\ \A i \in 1..Len(w) : url[a + i] = w[i] /\ w[i] # "/"
        /\ \A i \in 1..Len(v) : path[b + i] = v[i] /\ v[i] # "/"
    BY DEF Words, PartAt
  <1>2. PICK w2 \in Seq(Chars) : w2 = Slash \o w /\ Len(w2) = Len(w) + 1 /\ w2[1] = "/"
                                 /\ \A i \in 1..Len(w) : w2[i + 1] = w[i]
    BY SlashFacts DEF Words
  <1>3. PICK v2 \in Seq(Chars) : v2 = Slash \o v /\ Len(v2) = Len(v) + 1 /\ v2[1] = "/"
                                 /\ \A i \in 1..Len(v) : v2[i + 1] = v[i]
    BY SlashFacts DEF Words
  <1>4. Reads(Q, V, w2, v2)
    BY <1>2, <1>3
  <1>5. "/" # "*"
    OBVIOUS
  <1>6. Same(0, 0)
    <2>1. <<1, 1>> \in Q /\ <<1, 1>> \in V
      <3>1. 0 \in 0..Len(w2) /\ 0 \in 0..Len(v2) /\ 1 \in 1..Len(w2) /\ 1 \in 1..Len(v2) /\ 1 - 1 = 0
        BY <1>1, <1>2, <1>3
      <3>2. <<0, 0>> \in Q
        BY <1>4, <3>1, ReadsFront
      <3>3. Inside(Q, V, 1, 1, w2[1], v2[1])
        BY <1>4, <3>1, ReadsInside
      <3> QED BY <1>2, <1>3, <3>1, <3>2, <3>3 DEF Inside
    <2>2. a \in 0..Len(url) /\ b \in 0..Len(path) /\ b \in 1..Len(path)
      BY <1>1
    <2>3. CASE a = 0
      <3>1. <<a, b>> \in P /\ <<a, b>> \in W
        BY <2>2, <2>3 DEF Reads
      <3> QED BY <2>1, <2>3, <3>1
    <2>4. CASE a # 0
      <3>1. a \in 1..Len(url) /\ url[a] = path[b]
        BY <2>2, <2>4
      <3>2. Inside(P, W, a, b, url[a], path[b])
        BY <2>2, <3>1, ReadsInside
      <3>3. /\ <<a, b>> \in P <=> <<a - 1, b - 1>> \in P
            /\ <<a, b>> \in W <=> <<a - 1, b - 1>> \in P
        BY <3>1, <3>2 DEF Inside
      <3> QED BY <2>1, <2>4, <3>3
    <2> QED BY <2>3, <2>4
  <1>7. ASSUME NEW j \in 1..Len(v), Same(0, j - 1) PROVE Same(0, j)
    <2>1. PICK p \in 1..Len(path) : p = b + j /\ path[p] = v[j] /\ v[j] # "/" /\ p - 1 = b + (j - 1)
      BY <1>1
    <2>2. j + 1 \in 1..Len(v2) /\ v2[j + 1] = v[j] /\ (j + 1) - 1 = (j - 1) + 1
      <3>1. v2[j + 1] = v[j]
        BY <1>3
      <3>2. j + 1 \in 1..Len(v2) /\ (j + 1) - 1 = (j - 1) + 1
        BY <1>1, <1>3
      <3> QED BY <3>1, <3>2
    <2>3. PICK p2 \in 1..Len(v2) : p2 = j + 1 /\ v2[p2] = v[j] /\ p2 - 1 = (j - 1) + 1
      BY <2>2
    <2>4. 1 \in 1..Len(w2) /\ a \in 0..Len(url) /\ p \in 0..Len(path) /\ p - 1 \in 0..Len(path) /\ p # 0
      <3>1. PICK m \in Nat, c \in Nat : m = Len(url) /\ c = Len(path) /\ p \in 1..c
        BY <1>1
      <3>2. a + Len(w) <= m /\ Len(w) \in Nat
        BY <1>1, <3>1
      <3>3. a \in 0..m
        BY <3>1, <3>2
      <3>4. p \in 0..c /\ p - 1 \in 0..c /\ p # 0
        BY <3>1
      <3>5. 1 \in 1..Len(w2)
        BY <1>1, <1>2
      <3> QED BY <3>1, <3>3, <3>4, <3>5
    <2>5. Inside(Q, V, 1, p2, w2[1], v2[p2])
      BY <1>4, <2>4, ReadsInside
    <2>6. <<1, p2>> \notin Q /\ (<<1, p2>> \in V <=> <<1, p2 - 1>> \in V)
      BY <1>2, <1>5, <2>1, <2>3, <2>5 DEF Inside
    <2>7. CASE a = 0
      <3>1. url[1] # "/"
        BY <1>1, <2>7
      <3>2. <<a, p>> \notin P
        BY <2>1, <2>4, <2>7, <3>1, ReadsFront
      <3>3. <<a, p>> \in W /\ <<a, p - 1>> \in W
        BY <2>1, <2>4, <2>7 DEF Reads
      <3> QED BY <1>7, <2>1, <2>3, <2>6, <2>7, <3>2, <3>3
    <2>8. CASE a # 0
      <3>1. a \in 1..Len(url) /\ url[a] # path[p] /\ url[a] # "*"
        BY <1>5, <2>1, <2>4, <2>8
      <3>2. Inside(P, W, a, p, url[a], path[p])
        BY <3>1, ReadsInside
      <3>3. <<a, p>> \notin P /\ (<<a, p>> \in W <=> <<a, p - 1>> \in W)
        BY <2>1, <3>1, <3>2 DEF Inside
      <3> QED BY <1>7, <2>1, <2>3, <2>6, <2>8, <3>3
    <2> QED BY <2>7, <2>8
  <1>8. ASSUME NEW i \in 1..Len(w)
        PROVE  /\ a + i \in 1..Len(url) /\ url[a + i] = w[i] /\ w[i] # "/" /\ (a + i) - 1 = a + (i - 1)
               /\ i + 1 \in 1..Len(w2) /\ w2[i + 1] = w[i] /\ (i + 1) - 1 = (i - 1) + 1
    <2>1. w2[i + 1] = w[i]
      BY <1>2
    <2>2. /\ a + i \in 1..Len(url) /\ (a + i) - 1 = a + (i - 1)
          /\ i + 1 \in 1..Len(w2) /\ (i + 1) - 1 = (i - 1) + 1
      BY <1>1, <1>2
    <2>3. url[a + i] = w[i] /\ w[i] # "/"
      BY <1>1
    <2> QED BY <2>1, <2>2, <2>3
  <1>9. ASSUME NEW j \in 1..Len(v)
        PROVE  /\ b + j \in 1..Len(path) /\ path[b + j] = v[j] /\ v[j] # "/" /\ (b + j) - 1 = b + (j - 1)
               /\ j + 1 \in 1..Len(v2) /\ v2[j + 1] = v[j] /\ (j + 1) - 1 = (j - 1) + 1
    BY <1>1, <1>3, SMTT(20)
  <1>10. ASSUME NEW i \in 1..Len(w), Same(i - 1, 0) PROVE Same(i, 0)
    <2>1. PICK u \in 1..Len(url) : u = a + i /\ url[u] = w[i] /\ w[i] # "/" /\ u - 1 = a + (i - 1)
      BY <1>8
    <2>2. PICK u2 \in 1..Len(w2) : u2 = i + 1 /\ w2[u2] = w[i] /\ u2 - 1 = (i - 1) + 1
      BY <1>8
    <2>3. b \in 1..Len(path) /\ 1 \in 1..Len(v2)
      BY <1>1, <1>3, SMTT(20)
    <2>4. Inside(P, W, u, b, w[i], "/")
      BY <2>1, <2>3, ReadsInside
    <2>5. Inside(Q, V, u2, 1, w[i], "/")
      BY <1>3, <1>4, <2>2, <2>3, ReadsInside
    <2>6. CASE w[i] = "*"
      <3>1. /\ <<u, b>> \in P <=> <<u - 1, b>> \in W
            /\ <<u, b>> \in W <=> <<u - 1, b>> \in W
        BY <1>5, <2>4, <2>6 DEF Inside
      <3>2. /\ <<u2, 1>> \in Q <=> <<u2 - 1, 1>> \in V
            /\ <<u2, 1>> \in V <=> <<u2 - 1, 1>> \in V
        BY <1>5, <2>5, <2>6 DEF Inside
      <3> QED BY <1>10, <2>1, <2>2, <3>1, <3>2
    <2>7. CASE w[i] # "*"
      <3>1. <<u, b>> \notin P /\ <<u, b>> \notin W
        BY <2>1, <2>4, <2>7 DEF Inside
      <3>2. <<u2, 1>> \notin Q /\ <<u2, 1>> \notin V
        BY <2>1, <2>5, <2>7 DEF Inside
      <3> QED BY <2>1, <2>2, <3>1, <3>2
    <2> QED BY <2>6, <2>7
  <1>11. ASSUME NEW i \in 1..Len(w), NEW j \in 1..Len(v), Same(i - 1, j - 1), Same(i - 1, j), Same(i, j - 1)
        PROVE  Same(i, j)
    <2>1. PICK u \in 1..Len(url) : u = a + i /\ url[u] = w[i] /\ u - 1 = a + (i - 1)
      BY <1>8
    <2>2. PICK u2 \in 1..Len(w2) : u2 = i + 1 /\ w2[u2] = w[i] /\ u2 - 1 = (i - 1) + 1
      BY <1>8
    <2>3. PICK p \in 1..Len(path) : p = b + j /\ path[p] = v[j] /\ v[j] # "/" /\ p - 1 = b + (j - 1)
      BY <1>9
    <2>4. PICK p2 \in 1..Len(v2) : p2 = j + 1 /\ v2[p2] = v[j] /\ p2 - 1 = (j - 1) + 1
      BY <1>9
    <2>5. Inside(P, W, u, p, w[i], v[j])
      BY <2>1, <2>3, ReadsInside
    <2>6. Inside(Q, V, u2, p2, w[i], v[j])
      BY <1>4, <2>2, <2>4, ReadsInside
    <2>7. /\ <<u - 1, p - 1>> \in P <=> <<u2 - 1, p2 - 1>> \in Q /\ Rest
          /\ <<u - 1, p>> \in W <=> <<u2 - 1, p2>> \in V /\ Rest
          /\ <<u, p - 1>> \in W <=> <<u2, p2 - 1>> \in V /\ Rest
      BY <1>11, <2>1, <2>2, <2>3, <2>4
    <2> HIDE DEF Rest
    <2>8. /\ <<u, p>> \in P <=> <<u2, p2>> \in Q /\ Rest
          /\ <<u, p>> \in W <=> <<u2, p2>> \in V /\ Rest
      BY <2>3, <2>5, <2>6, <2>7 DEF Inside
    <2> QED BY <2>1, <2>2, <2>3, <2>4, <2>8
  <1> HIDE DEF Same, Rest
  <1> DEFINE Upto(n) == \A i \in 0..Len(w), j \in 0..Len(v) : i + j <= n => Same(i, j)
             U == {n \in Nat : Upto(n)}
  <1>12. Upto(0)
    <2>1. \A i \in 0..Len(w), j \in 0..Len(v) : i + j <= 0 => i = 0 /\ j = 0
      BY <1>1
    <2> QED BY <1>6, <2>1
  <1>13. ASSUME NEW n \in U PROVE n + 1 \in U
    <2> SUFFICES ASSUME NEW i \in 0..Len(w), NEW j \in 0..Len(v), i + j <= n + 1 PROVE Same(i, j)
      OBVIOUS
    <2>1. n \in Nat /\ Upto(n)
      OBVIOUS
    <2>2. CASE i = 0 /\ j = 0
      BY <1>6, <2>2
    <2>3. CASE i = 0 /\ j # 0
      <3>1. j \in 1..Len(v) /\ j - 1 \in 0..Len(v) /\ 0 \in 0..Len(w) /\ 0 + (j - 1) <= n
        BY <1>1, <2>1, <2>3
      <3> QED BY <1>7, <2>1, <2>3, <3>1
    <2>4. CASE i # 0 /\ j = 0
      <3>1. i \in 1..Len(w) /\ i - 1 \in 0..Len(w) /\ 0 \in 0..Len(v) /\ (i - 1) + 0 <= n
        BY <1>1, <2>1, <2>4
      <3> QED BY <1>10, <2>1, <2>4, <3>1
    <2>5. CASE i # 0 /\ j # 0
      <3>1. /\ i \in 1..Len(w) /\ i - 1 \in 0..Len(w) /\ j \in 1..Len(v) /\ j - 1 \in 0..Len(v)
            /\ (i - 1) + (j - 1) <= n /\ (i - 1) + j <= n /\ i + (j - 1) <= n
        BY <1>1, <2>1, <2>5
      <3>2. Same(i - 1, j - 1) /\ Same(i - 1, j) /\ Same(i, j - 1)
        BY <2>1, <3>1
      <3> QED BY <1>11, <3>1, <3>2
    <2> QED BY <2>2, <2>3, <2>4, <2>5
  <1>14. \A n \in Nat : Upto(n)
    <2>1. U \subseteq Nat /\ 0 \in U
      BY <1>12
    <2> HIDE DEF U
    <2>2. \A n \in Nat : n \in U
      BY <1>13, <2>1, NatSetInduction
    <2> QED BY <2>2 DEF U
  <1>15. Same(Len(w), Len(v))
    <2>1. /\ Len(w) + Len(v) \in Nat /\ Len(w) + Len(v) <= Len(w) + Len(v)
          /\ Len(w) \in 0..Len(w) /\ Len(v) \in 0..Len(v)
      BY <1>1
    <2> QED BY <1>14, <2>1
  <1> QED BY <1>15 DEF Same, Rest
-----------------------------------------------------------------------------
(* The parts of a url: what splitUrl returns.                               *)

\* The parts of the first t characters of a text, and how many characters are before each.
Split(url, t, parts, at) ==
  /\ parts \in Seq(Words) /\ at \in [1..Len(parts) -> Nat]
  /\ \A k \in 1..Len(parts) :
       /\ PartAt(url, at[k], parts[k]) /\ at[k] + Len(parts[k]) <= t
       /\ at[k] = 0 \/ url[at[k]] = "/"
       /\ at[k] + Len(parts[k]) = t \/ url[at[k] + Len(parts[k]) + 1] = "/"
  /\ \A k \in 1..(Len(parts) - 1) : at[k] + Len(parts[k]) < at[k + 1]
  /\ \A i \in 1..t : url[i] # "/" => \E k \in 1..Len(parts) : at[k] < i /\ i <= at[k] + Len(parts[k])

\* The length of a part, and its characters.
LEMMA WordFacts ==
  ASSUME NEW w \in Words
  PROVE  w \in Seq(Chars) /\ Len(w) \in Nat \ {0} /\ \A i \in 1..Len(w) : w[i] # "/"
  BY DEF Words

\* What is before a part comes before it.
LEMMA SplitOrder ==
  ASSUME NEW parts \in Seq(Words), NEW at \in [1..Len(parts) -> Nat],
         \A k \in 1..(Len(parts) - 1) : at[k] + Len(parts[k]) < at[k + 1]
  PROVE  \A k, l \in 1..Len(parts) : k < l => at[k] + Len(parts[k]) < at[l]
  <1>0. \A k \in 1..Len(parts) : Len(parts[k]) \in Nat
    BY WordFacts
  <1> DEFINE T == {d \in 0..Len(parts) : \A k, l \in 1..d : k < l => at[k] + Len(parts[k]) < at[l]}
  <1>1. Len(parts) \in Nat
    OBVIOUS
  <1>2. 0 \in T
    BY <1>1
  <1>3. ASSUME NEW d \in 1..Len(parts), d - 1 \in T PROVE d \in T
    <2> SUFFICES ASSUME NEW k \in 1..d, NEW l \in 1..d, k < l PROVE at[k] + Len(parts[k]) < at[l]
      BY <1>1
    <2>1. CASE l # d
      <3>1. k \in 1..(d - 1) /\ l \in 1..(d - 1)
        BY <1>1, <2>1
      <3> QED BY <1>3, <3>1
    <2>2. CASE l = d
      <3>1. k \in 1..Len(parts) /\ d - 1 \in 1..(Len(parts) - 1) /\ d - 1 \in 1..Len(parts) /\ (d - 1) + 1 = d
        BY <1>1, <2>2
      <3>2. at[d - 1] + Len(parts[d - 1]) < at[d]
        BY <3>1
      <3>3. CASE k = d - 1
        BY <2>2, <3>2, <3>3
      <3>4. CASE k # d - 1
        <4>1. k \in 1..(d - 1) /\ d - 1 \in 1..(d - 1) /\ k < d - 1
          BY <1>1, <2>2, <3>1, <3>4
        <4>2. at[k] + Len(parts[k]) < at[d - 1]
          BY <1>3, <4>1
        <4>3. /\ at[k] \in Nat /\ at[d - 1] \in Nat /\ at[d] \in Nat
              /\ Len(parts[k]) \in Nat /\ Len(parts[d - 1]) \in Nat
          BY <1>0, <3>1
        <4>4. PICK x \in Nat, y \in Nat, z \in Nat, m \in Nat, u \in Nat :
                 x = at[k] /\ u = Len(parts[k]) /\ y = at[d - 1] /\ m = Len(parts[d - 1]) /\ z = at[d]
          BY <4>3
        <4>5. x + u < y /\ y + m < z
          BY <3>2, <4>2, <4>4
        <4>6. x + u < z
          BY <4>5
        <4> QED BY <2>2, <4>4, <4>6
      <3> QED BY <3>3, <3>4
    <2> QED BY <2>1, <2>2
  <1> HIDE DEF T
  <1>4. Len(parts) \in T
    <2>1. \A d \in 0..Len(parts) : d \in T
      BY <1>1, <1>2, <1>3, StepInduction
    <2> QED BY <1>1, <2>1
  <1> QED BY <1>4 DEF T

\* Every text has parts.
LEMMA SplitExists ==
  ASSUME NEW url \in Seq(Chars)
  PROVE  \E parts, at : Split(url, Len(url), parts, at)
  <1> DEFINE T == {t \in 0..Len(url) : \E parts, at : Split(url, t, parts, at)}
  <1>1. Len(url) \in Nat
    OBVIOUS
  <1>2. 0 \in T
    <2>1. PICK parts : parts = <<>> /\ parts \in Seq(Words) /\ Len(parts) = 0
      BY EmptySeq
    <2>2. PICK at : at \in [1..0 -> Nat]
      <3>1. [k \in 1..0 |-> 0] \in [1..0 -> Nat]
        OBVIOUS
      <3> QED BY <3>1
    <2>3. Split(url, 0, parts, at)
      BY <2>1, <2>2 DEF Split
    <2> QED BY <1>1, <2>3
  <1>3. ASSUME NEW d \in 1..Len(url), d - 1 \in T PROVE d \in T
    <2>1. PICK t \in Nat : t = d - 1 /\ t + 1 = d /\ t + 1 \in 1..Len(url)
      BY <1>1
    <2>2. PICK parts, at : Split(url, t, parts, at)
      BY <1>3, <2>1
    <2>3. /\ parts \in Seq(Words) /\ at \in [1..Len(parts) -> Nat]
          /\ \A k \in 1..Len(parts) :
               /\ PartAt(url, at[k], parts[k]) /\ at[k] + Len(parts[k]) <= t
               /\ at[k] = 0 \/ url[at[k]] = "/"
               /\ at[k] + Len(parts[k]) = t \/ url[at[k] + Len(parts[k]) + 1] = "/"
          /\ \A k \in 1..(Len(parts) - 1) : at[k] + Len(parts[k]) < at[k + 1]
          /\ \A i \in 1..t : url[i] # "/" => \E k \in 1..Len(parts) : at[k] < i /\ i <= at[k] + Len(parts[k])
      BY <2>2 DEF Split
    <2>4. PICK n \in Nat : n = Len(parts)
      BY <2>3
    <2>5. \A k \in 1..n : /\ parts[k] \in Words /\ Len(parts[k]) \in Nat \ {0} /\ at[k] \in Nat
                          /\ \A i \in 1..Len(parts[k]) : parts[k][i] # "/"
      BY <2>3, <2>4, WordFacts
    <2>6. url[t + 1] \in Chars
      BY <2>1
    <2>7. CASE url[t + 1] = "/"
      <3>1. \A k \in 1..n : /\ at[k] + Len(parts[k]) <= t + 1
                            /\ at[k] + Len(parts[k]) = t + 1 \/ url[at[k] + Len(parts[k]) + 1] = "/"
        BY <2>3, <2>4, <2>5, <2>7
      <3>2. \A i \in 1..(t + 1) : url[i] # "/" => i \in 1..t
        BY <2>7
      <3>3. Split(url, t + 1, parts, at)
        BY <2>3, <2>4, <3>1, <3>2 DEF Split
      <3> QED BY <2>1, <3>3
    <2>8. CASE url[t + 1] # "/" /\ (t = 0 \/ url[t] = "/")
      <3>1. PICK c : c \in Words /\ Len(c) = 1 /\ c[1] = url[t + 1]
        <4>1. PICK x \in Chars : x = url[t + 1] /\ x # "/"
          BY <2>6, <2>8
        <4> DEFINE c == <<x>>
        <4>2. c \in Seq(Chars) /\ Len(c) = 1 /\ c[1] = x
          OBVIOUS
        <4> HIDE DEF c
        <4>3. \A i \in 1..Len(c) : c[i] # "/"
          <5>1. \A i \in 1..Len(c) : i = 1
            BY <4>2
          <5> QED BY <4>1, <4>2, <5>1
        <4>4. c # <<>>
          <5>1. Len(<<>>) # 1
            OBVIOUS
          <5> QED BY <4>2, <5>1, Zenon
        <4>5. c \in Words
          BY <4>2, <4>3, <4>4 DEF Words
        <4> QED BY <4>1, <4>2, <4>5
      <3>2. PICK parts2 : parts2 = Append(parts, c)
        OBVIOUS
      <3>3. /\ parts2 \in Seq(Words) /\ Len(parts2) = n + 1 /\ parts2[n + 1] = c
            /\ \A k \in 1..n : parts2[k] = parts[k]
        BY <2>3, <2>4, <3>1, <3>2, AppendProperties
      <3>4. PICK at2 \in [1..(n + 1) -> Nat] : at2[n + 1] = t /\ \A k \in 1..n : at2[k] = at[k]
        <4> DEFINE f == [k \in 1..(n + 1) |-> IF k = n + 1 THEN t ELSE at[k]]
        <4>1. f \in [1..(n + 1) -> Nat] /\ f[n + 1] = t /\ \A k \in 1..n : f[k] = at[k]
          BY <2>3, <2>4
        <4> HIDE DEF f
        <4> QED BY <4>1
      <3>5. \A k \in 1..n : at[k] + Len(parts[k]) < t
        <4> SUFFICES ASSUME NEW k \in 1..n PROVE at[k] + Len(parts[k]) < t
          OBVIOUS
        <4>0. at[k] + Len(parts[k]) <= t /\ Len(parts[k]) \in Nat /\ at[k] \in Nat
          BY <2>3, <2>4, <2>5
        <4>a. PICK e \in Nat : e = at[k] + Len(parts[k])
          BY <4>0
        <4>b. e <= t /\ (e # t => e < t)
          BY <4>0, <4>a
        <4> SUFFICES ASSUME e = t PROVE FALSE
          BY <4>a, <4>b
        <4>1. /\ Len(parts[k]) \in 1..Len(parts[k]) /\ t # 0
              /\ at[k] + Len(parts[k]) = t /\ parts[k][Len(parts[k])] # "/"
          <5>1. Len(parts[k]) \in Nat \ {0} /\ \A i \in 1..Len(parts[k]) : parts[k][i] # "/"
            BY <2>5
          <5>2. Len(parts[k]) \in 1..Len(parts[k]) /\ t # 0 /\ at[k] + Len(parts[k]) = t
            BY <4>0, <4>a, <5>1
          <5> QED BY <5>1, <5>2
        <4>2. url[at[k] + Len(parts[k])] = parts[k][Len(parts[k])]
          BY <2>3, <2>4, <4>1 DEF PartAt
        <4> QED BY <2>8, <4>1, <4>2
      <3>6. ASSUME NEW k \in 1..(n + 1)
            PROVE  /\ PartAt(url, at2[k], parts2[k]) /\ at2[k] + Len(parts2[k]) <= t + 1
                   /\ at2[k] = 0 \/ url[at2[k]] = "/"
                   /\ at2[k] + Len(parts2[k]) = t + 1 \/ url[at2[k] + Len(parts2[k]) + 1] = "/"
        <4>1. CASE k = n + 1
          <5>1. PartAt(url, t, c)
            BY <2>1, <3>1 DEF PartAt
          <5>2. at2[k] = t /\ parts2[k] = c /\ t + Len(c) = t + 1
            BY <3>1, <3>3, <3>4, <4>1
          <5>3. t = 0 \/ url[t] = "/"
            BY <2>8
          <5> QED BY <5>1, <5>2, <5>3
        <4>2. CASE k # n + 1
          <5>1. k \in 1..n
            BY <4>2
          <5>2. at2[k] = at[k] /\ parts2[k] = parts[k] /\ at[k] \in Nat /\ Len(parts[k]) \in Nat
            BY <2>5, <3>3, <3>4, <5>1
          <5>3. /\ PartAt(url, at[k], parts[k])
                /\ at[k] = 0 \/ url[at[k]] = "/"
                /\ at[k] + Len(parts[k]) = t \/ url[at[k] + Len(parts[k]) + 1] = "/"
            BY <2>3, <2>4, <5>1
          <5>4. at[k] + Len(parts[k]) < t
            BY <3>5, <5>1
          <5>5. at[k] + Len(parts[k]) <= t + 1 /\ at[k] + Len(parts[k]) # t
            BY <5>2, <5>4
          <5> QED BY <5>2, <5>3, <5>5
        <4> QED BY <4>1, <4>2
      <3>7. ASSUME NEW k \in 1..n PROVE at2[k] + Len(parts2[k]) < at2[k + 1]
        <4>1. CASE k = n
          BY <3>3, <3>4, <3>5, <4>1
        <4>2. CASE k # n
          <5>1. k \in 1..(n - 1) /\ k + 1 \in 1..n
            BY <4>2
          <5> QED BY <2>3, <2>4, <3>3, <3>4, <5>1
        <4> QED BY <4>1, <4>2
      <3>8. ASSUME NEW i \in 1..(t + 1), url[i] # "/"
            PROVE  \E k \in 1..(n + 1) : at2[k] < i /\ i <= at2[k] + Len(parts2[k])
        <4>1. CASE i = t + 1
          <5>1. n + 1 \in 1..(n + 1) /\ at2[n + 1] < i /\ i <= at2[n + 1] + Len(parts2[n + 1])
            <6>1. at2[n + 1] = t /\ Len(parts2[n + 1]) = 1 /\ n + 1 \in 1..(n + 1)
              BY <3>1, <3>3, <3>4
            <6> QED BY <4>1, <6>1
          <5> QED BY <5>1
        <4>2. CASE i # t + 1
          <5>1. i \in 1..t
            BY <4>2
          <5>2. PICK k \in 1..n : at[k] < i /\ i <= at[k] + Len(parts[k])
            BY <2>3, <2>4, <3>8, <5>1
          <5>3. k \in 1..(n + 1) /\ at2[k] = at[k] /\ parts2[k] = parts[k]
            BY <3>3, <3>4
          <5> QED BY <5>2, <5>3
        <4> QED BY <4>1, <4>2
      <3>9. Split(url, t + 1, parts2, at2)
        <4>1. Len(parts2) - 1 = n /\ 1..Len(parts2) = 1..(n + 1)
          BY <3>3
        <4> QED BY <3>3, <3>4, <3>6, <3>7, <3>8, <4>1 DEF Split
      <3> QED BY <2>1, <3>9
    <2>9. CASE url[t + 1] # "/" /\ t # 0 /\ url[t] # "/"
      <3>1. PICK m \in 1..n : at[m] < t /\ t <= at[m] + Len(parts[m])
        <4>1. t \in 1..t
          BY <2>9
        <4> QED BY <2>3, <2>4, <2>9, <4>1
      <3>2. at[m] + Len(parts[m]) = t
        <4>1. at[m] + Len(parts[m]) <= t /\ at[m] \in Nat /\ Len(parts[m]) \in Nat
          BY <2>3, <2>4, <2>5
        <4> QED BY <3>1, <4>1
      <3>3. m = n
        <4> SUFFICES ASSUME m < n PROVE FALSE
          OBVIOUS
        <4>1. m \in 1..n /\ n \in 1..n
          OBVIOUS
        <4>2. at[m] + Len(parts[m]) < at[n]
          BY <2>3, <2>4, <4>1, SplitOrder
        <4>3. at[n] + Len(parts[n]) <= t /\ at[n] \in Nat /\ Len(parts[n]) \in Nat
          BY <2>3, <2>4, <2>5, <4>1
        <4> QED BY <3>2, <4>2, <4>3
      <3>4. PICK w : w = Append(parts[n], url[t + 1])
        OBVIOUS
      <3>5. /\ w \in Words /\ Len(w) = Len(parts[n]) + 1 /\ w[Len(w)] = url[t + 1]
            /\ \A i \in 1..Len(parts[n]) : w[i] = parts[n][i]
        <4>1. n \in 1..n /\ parts[n] \in Seq(Chars) /\ Len(parts[n]) \in Nat
          BY <2>5, <3>1, <3>3, WordFacts
        <4>2. /\ w \in Seq(Chars) /\ Len(w) = Len(parts[n]) + 1 /\ w[Len(parts[n]) + 1] = url[t + 1]
              /\ \A i \in 1..Len(parts[n]) : w[i] = parts[n][i]
          BY <2>6, <3>4, <4>1, AppendProperties
        <4>3. \A i \in 1..Len(w) : w[i] # "/"
          <5>1. \A i \in 1..Len(w) : i \in 1..Len(parts[n]) \/ i = Len(parts[n]) + 1
            BY <4>1, <4>2
          <5> QED BY <2>5, <2>9, <4>1, <4>2, <5>1
        <4>4. w # <<>>
          BY <4>1, <4>2
        <4> QED BY <4>2, <4>3, <4>4 DEF Words
      <3>6. PICK parts2 : parts2 = [k \in 1..n |-> IF k = n THEN w ELSE parts[k]]
        OBVIOUS
      <3>7. /\ parts2 \in Seq(Words) /\ Len(parts2) = n /\ parts2[n] = w
            /\ \A k \in 1..n : k # n => parts2[k] = parts[k]
        <4>1. \A k \in 1..n : parts2[k] \in Words
          BY <2>5, <3>5, <3>6
        <4>2. parts2 \in [1..n -> Words] /\ n \in 1..n
          BY <3>1, <3>3, <3>6, <4>1
        <4>3. parts2 \in Seq(Words) /\ Len(parts2) = n
          BY <4>2
        <4> QED BY <3>6, <4>2, <4>3
      <3>8. /\ n \in 1..n /\ at[n] + Len(parts[n]) = t /\ at[n] + Len(w) = t + 1
            /\ at[n] \in Nat /\ Len(parts[n]) \in Nat
        BY <2>5, <3>1, <3>2, <3>3, <3>5, SMTT(20)
      <3>9. PartAt(url, at[n], w)
        <4>1. at[n] + Len(w) <= Len(url)
          BY <2>1, <3>8, <1>1
        <4>2. ASSUME NEW i \in 1..Len(w) PROVE url[at[n] + i] = w[i]
          <5>1. CASE i = Len(w)
            BY <3>5, <3>8, <5>1
          <5>2. CASE i # Len(w)
            <6>1. i \in 1..Len(parts[n])
              BY <3>5, <3>8, <5>2
            <6> QED BY <2>3, <2>4, <3>5, <3>8, <6>1 DEF PartAt
          <5> QED BY <5>1, <5>2
        <4> QED BY <4>1, <4>2 DEF PartAt
      <3>10. ASSUME NEW k \in 1..n
             PROVE  /\ PartAt(url, at[k], parts2[k]) /\ at[k] + Len(parts2[k]) <= t + 1
                    /\ at[k] = 0 \/ url[at[k]] = "/"
                    /\ at[k] + Len(parts2[k]) = t + 1 \/ url[at[k] + Len(parts2[k]) + 1] = "/"
        <4>1. CASE k = n
          <5>1. at[n] = 0 \/ url[at[n]] = "/"
            BY <2>3, <2>4, <3>8
          <5>2. at[k] = at[n] /\ parts2[k] = w /\ at[n] + Len(w) = t + 1
            BY <3>7, <3>8, <4>1
          <5> QED BY <3>9, <5>1, <5>2
        <4>2. CASE k # n
          <5>1. at[k] + Len(parts[k]) < at[n]
            <6>1. k < n
              BY <4>2
            <6> QED BY <2>3, <2>4, <3>8, <6>1, SplitOrder
          <5>2. parts2[k] = parts[k] /\ at[k] \in Nat /\ Len(parts[k]) \in Nat
            BY <2>5, <3>7, <4>2
          <5>3. /\ PartAt(url, at[k], parts[k])
                /\ at[k] = 0 \/ url[at[k]] = "/"
                /\ at[k] + Len(parts[k]) = t \/ url[at[k] + Len(parts[k]) + 1] = "/"
            BY <2>3, <2>4
          <5>4. at[k] + Len(parts[k]) <= t + 1 /\ at[k] + Len(parts[k]) # t
            <6>1. PICK e \in Nat : e = at[k] + Len(parts[k])
              BY <5>2
            <6>2. PICK q \in Nat, z \in Nat : q = at[n] /\ z = Len(parts[n]) /\ q + z = t
              BY <3>8
            <6>3. e < q
              BY <5>1, <6>1, <6>2
            <6>4. e <= t + 1 /\ e # t
              BY <6>2, <6>3
            <6> QED BY <6>1, <6>4
          <5> QED BY <5>2, <5>3, <5>4
        <4> QED BY <4>1, <4>2
      <3>11. ASSUME NEW k \in 1..(n - 1) PROVE at[k] + Len(parts2[k]) < at[k + 1]
        <4>1. k \in 1..n /\ k # n
          OBVIOUS
        <4> QED BY <2>3, <2>4, <3>7, <4>1
      <3>12. ASSUME NEW i \in 1..(t + 1), url[i] # "/"
             PROVE  \E k \in 1..n : at[k] < i /\ i <= at[k] + Len(parts2[k])
        <4>1. CASE i = t + 1
          BY <3>7, <3>8, <4>1
        <4>2. CASE i # t + 1
          <5>1. i \in 1..t
            BY <4>2
          <5>2. PICK k \in 1..n : at[k] < i /\ i <= at[k] + Len(parts[k])
            BY <2>3, <2>4, <3>12, <5>1
          <5>3. /\ Len(parts[k]) <= Len(parts2[k])
                /\ Len(parts[k]) \in Nat /\ Len(parts2[k]) \in Nat /\ at[k] \in Nat
            <6>1. Len(parts[k]) \in Nat /\ at[k] \in Nat
              BY <2>5
            <6>2. CASE k = n
              BY <3>5, <3>7, <6>1, <6>2
            <6>3. CASE k # n
              BY <3>7, <6>1, <6>3
            <6> QED BY <6>2, <6>3
          <5>4. PICK e \in Nat, y \in Nat, z \in Nat : e = at[k] /\ y = Len(parts[k]) /\ z = Len(parts2[k])
            BY <5>3
          <5>5. e < i /\ i <= e + y /\ y <= z
            BY <5>2, <5>3, <5>4
          <5>6. i <= e + z
            BY <5>5
          <5> QED BY <5>4, <5>5, <5>6
        <4> QED BY <4>1, <4>2
      <3>13. Split(url, t + 1, parts2, at)
        BY <2>3, <2>4, <3>7, <3>10, <3>11, <3>12 DEF Split
      <3> QED BY <2>1, <3>13
    <2> QED BY <2>7, <2>8, <2>9
  <1> HIDE DEF T
  <1>4. Len(url) \in T
    <2>1. \A d \in 0..Len(url) : d \in T
      BY <1>1, <1>2, <1>3, StepInduction
    <2> QED BY <1>1, <2>1
  <1> QED BY <1>4 DEF T

\* What splitUrl takes out of a url is the part that begins there.
PartEnd(url, i) == CHOOSE j \in i..Len(url) :
                     /\ \A k \in i..j : url[k] # "/"
                     /\ j = Len(url) \/ url[j + 1] = "/"

\* From where a part begins, it is the part that is taken.
LEMMA PartIs ==
  ASSUME NEW url \in Seq(Chars), NEW a \in Nat, NEW w \in Words, PartAt(url, a, w),
         a + Len(w) = Len(url) \/ url[a + Len(w) + 1] = "/"
  PROVE  SubSeq(url, a + 1, PartEnd(url, a + 1)) = w
  <1>1. PICK n \in Nat : n = Len(url)
    OBVIOUS
  <1>2. PICK m \in Nat \ {0} : m = Len(w)
    BY WordFacts
  <1>3. a + m <= n /\ \A i \in 1..m : url[a + i] = w[i] /\ w[i] # "/"
    BY <1>1, <1>2, WordFacts DEF PartAt
  <1>4. a + m = n \/ url[a + m + 1] = "/"
    BY <1>1, <1>2
  <1>5. \A k \in (a + 1)..(a + m) : url[k] # "/" /\ url[k] = w[k - a]
    <2> SUFFICES ASSUME NEW k \in (a + 1)..(a + m) PROVE url[k] # "/" /\ url[k] = w[k - a]
      OBVIOUS
    <2>1. k - a \in 1..m /\ a + (k - a) = k
      OBVIOUS
    <2> QED BY <1>3, <2>1
  <1> DEFINE Good(j) == (\A k \in (a + 1)..j : url[k] # "/") /\ (j = n \/ url[j + 1] = "/")
  <1>6. a + m \in (a + 1)..n /\ Good(a + m)
    <2>1. a + m \in (a + 1)..n
      BY <1>3
    <2> QED BY <1>4, <1>5, <2>1
  <1>7. ASSUME NEW j \in (a + 1)..n, Good(j) PROVE j = a + m
    <2>1. CASE j < a + m
      <3>1. j + 1 \in (a + 1)..(a + m) /\ j # n
        BY <1>3, <2>1
      <3> QED BY <1>5, <1>7, <3>1
    <2>2. CASE j > a + m
      <3>1. a + m + 1 \in (a + 1)..j /\ a + m # n
        BY <1>3, <2>2
      <3> QED BY <1>4, <1>7, <3>1
    <2> QED BY <2>1, <2>2
  <1>8. PartEnd(url, a + 1) = CHOOSE j \in (a + 1)..n : Good(j)
    BY <1>1 DEF PartEnd
  <1> HIDE DEF Good
  <1>9. PartEnd(url, a + 1) = a + m
    BY <1>6, <1>7, <1>8
  <1>10. PICK s : s = SubSeq(url, a + 1, a + m)
    OBVIOUS
  <1>11. s \in Seq(Chars) /\ Len(s) = m /\ \A i \in 1..m : s[i] = url[a + i]
    <2>1. a + 1 \in Int /\ a + m \in Int /\ a + 1 <= a + m /\ (a + m) - (a + 1) + 1 = m
      OBVIOUS
    <2>2. \A i \in (a + 1)..(a + m) : url[i] \in Chars
      <3>1. \A i \in (a + 1)..(a + m) : i \in 1..Len(url)
        BY <1>1, <1>3
      <3> QED BY <3>1
    <2>3. s \in Seq(Chars) /\ Len(s) = m /\ \A i \in 1..m : s[i] = url[(a + 1) + i - 1]
      BY <1>10, <2>1, <2>2, SubSeqProperties
    <2>4. \A i \in 1..m : (a + 1) + i - 1 = a + i
      OBVIOUS
    <2> QED BY <2>3, <2>4
  <1>12. s = w
    <2>1. w \in Seq(Chars)
      BY WordFacts
    <2>2. \A i \in 1..m : s[i] = w[i]
      BY <1>3, <1>11
    <2> QED BY <1>2, <1>11, <2>1, <2>2, SMTT(20)
  <1> QED BY <1>9, <1>10, <1>12

\* The places where the parts begin are as many as the parts, and counted up to one of them
\* they are its number.
LEMMA Starts ==
  ASSUME NEW n \in Nat, NEW at \in [1..n -> Nat], \A k, l \in 1..n : k < l => at[k] < at[l]
  PROVE  /\ Cardinality({at[k] + 1 : k \in 1..n}) = n
         /\ \A k \in 1..n : Cardinality({j \in {at[l] + 1 : l \in 1..n} : j <= at[k] + 1}) = k
  <1>1. \A m \in Nat : IsFiniteSet(1..m) /\ Cardinality(1..m) = m
    BY FS_Interval
  <1>2. \A k, l \in 1..n : at[k] = at[l] => k = l
    <2>1. \A k, l \in 1..n : k < l \/ k = l \/ l < k
      OBVIOUS
    <2>2. \A k, l \in 1..n : at[k] < at[l] => at[k] # at[l]
      OBVIOUS
    <2> QED BY <2>1, <2>2
  <1>3. ASSUME NEW m \in 0..n PROVE Cardinality({at[k] + 1 : k \in 1..m}) = m
    <2>1. PICK T : T = {at[k] + 1 : k \in 1..m}
      OBVIOUS
    <2>2. PICK h \in [1..m -> T] : \A k \in 1..m : h[k] = at[k] + 1
      <3> DEFINE h == [k \in 1..m |-> at[k] + 1]
      <3>1. h \in [1..m -> T] /\ \A k \in 1..m : h[k] = at[k] + 1
        BY <2>1
      <3> HIDE DEF h
      <3> QED BY <3>1
    <2>3. \A k \in 1..m : k \in 1..n /\ at[k] \in Nat
      OBVIOUS
    <2>4. \A k, l \in 1..m : h[k] = h[l] => k = l
      <3> SUFFICES ASSUME NEW k \in 1..m, NEW l \in 1..m, h[k] = h[l] PROVE k = l
        OBVIOUS
      <3>1. at[k] = at[l]
        BY <2>2, <2>3
      <3> QED BY <1>2, <2>3, <3>1
    <2>5. \A x \in T : \E k \in 1..m : h[k] = x
      BY <2>1, <2>2
    <2>6. PICK D : D = 1..m
      OBVIOUS
    <2>7. IsFiniteSet(D) /\ Cardinality(D) = m
      BY <1>1, <2>6
    <2>8. Cardinality(T) = Cardinality(D)
      <3>1. h \in [D -> T]
        BY <2>2, <2>6
      <3> QED BY <2>4, <2>5, <2>6, <2>7, <3>1, SameNumber
    <2> QED BY <2>1, <2>7, <2>8
  <1>4. ASSUME NEW k \in 1..n
        PROVE  {j \in {at[l] + 1 : l \in 1..n} : j <= at[k] + 1} = {at[l] + 1 : l \in 1..k}
    <2>1. \A l \in 1..n : at[l] + 1 <= at[k] + 1 <=> l \in 1..k
      <3> SUFFICES ASSUME NEW l \in 1..n PROVE at[l] + 1 <= at[k] + 1 <=> l \in 1..k
        OBVIOUS
      <3>1. PICK x \in Nat, y \in Nat : x = at[l] /\ y = at[k]
        OBVIOUS
      <3>2. (k < l => y < x) /\ (l < k => x < y) /\ (l = k => x = y)
        BY <3>1
      <3> QED BY <3>1, <3>2
    <2>2. \A l \in 1..k : l \in 1..n
      OBVIOUS
    <2> QED BY <2>1, <2>2
  <1>5. n \in 0..n /\ \A k \in 1..n : k \in 0..n
    OBVIOUS
  <1> QED BY <1>3, <1>4, <1>5

\* splitUrl finds the parts.
LEMMA SplitIs ==
  ASSUME NEW url \in Seq(Chars), NEW parts, NEW at, Split(url, Len(url), parts, at)
  PROVE  SplitUrl(url) = parts
  <1>1. PICK n \in Nat : n = Len(parts)
    BY DEF Split
  <1>2. /\ parts \in Seq(Words) /\ at \in [1..n -> Nat]
        /\ \A k \in 1..n :
             /\ PartAt(url, at[k], parts[k]) /\ at[k] + Len(parts[k]) <= Len(url)
             /\ at[k] = 0 \/ url[at[k]] = "/"
             /\ at[k] + Len(parts[k]) = Len(url) \/ url[at[k] + Len(parts[k]) + 1] = "/"
        /\ \A k \in 1..(n - 1) : at[k] + Len(parts[k]) < at[k + 1]
        /\ \A i \in 1..Len(url) : url[i] # "/" => \E k \in 1..n : at[k] < i /\ i <= at[k] + Len(parts[k])
    BY <1>1 DEF Split
  <1>3. PICK N \in Nat : N = Len(url)
    OBVIOUS
  <1>4. \A k \in 1..n : /\ parts[k] \in Words /\ Len(parts[k]) \in Nat \ {0} /\ at[k] \in Nat
                        /\ \A i \in 1..Len(parts[k]) : parts[k][i] # "/" /\ url[at[k] + i] = parts[k][i]
    <2> SUFFICES ASSUME NEW k \in 1..n
                 PROVE  /\ parts[k] \in Words /\ Len(parts[k]) \in Nat \ {0} /\ at[k] \in Nat
                        /\ \A i \in 1..Len(parts[k]) : parts[k][i] # "/" /\ url[at[k] + i] = parts[k][i]
      OBVIOUS
    <2>1. parts[k] \in Words /\ at[k] \in Nat
      BY <1>1, <1>2
    <2>3. PartAt(url, at[k], parts[k])
      BY <1>2
    <2>2. Len(parts[k]) \in Nat \ {0} /\ \A i \in 1..Len(parts[k]) : parts[k][i] # "/"
      BY <2>1, WordFacts
    <2> QED BY <2>1, <2>2, <2>3 DEF PartAt
  <1>5. \A k, l \in 1..n : k < l => at[k] < at[l]
    <2> SUFFICES ASSUME NEW k \in 1..n, NEW l \in 1..n, k < l PROVE at[k] < at[l]
      OBVIOUS
    <2>1. at[k] + Len(parts[k]) < at[l]
      BY <1>1, <1>2, SplitOrder
    <2>2. PICK x \in Nat, y \in Nat, z \in Nat : x = at[k] /\ y = at[l] /\ z = Len(parts[k])
      BY <1>4
    <2> QED BY <2>1, <2>2
  <1> DEFINE B == {i \in DOMAIN url : url[i] # "/" /\ (i = 1 \/ url[i - 1] = "/")}
             NthOf(m) == CHOOSE i \in B : Cardinality({k \in B : k <= i}) = m
  <1>a. SplitUrl(url) = [m \in 1..Cardinality(B) |-> SubSeq(url, NthOf(m), PartEnd(url, NthOf(m)))]
    BY DEF SplitUrl, PartEnd
  <1>6. PICK st : st = B
    OBVIOUS
  <1>7. st = {at[k] + 1 : k \in 1..n}
    <2>1. ASSUME NEW k \in 1..n PROVE at[k] + 1 \in st
      <3>1. PICK a \in Nat, m \in Nat \ {0} : a = at[k] /\ m = Len(parts[k])
        BY <1>4
      <3>2. a + m <= N /\ 1 \in 1..m
        BY <1>2, <1>3, <3>1
      <3>3. url[a + 1] # "/"
        BY <1>4, <3>1, <3>2
      <3>4. a + 1 \in 1..N /\ (a + 1 = 1 \/ (a + 1) - 1 = a) /\ (a = 0 => a + 1 = 1)
        BY <3>2
      <3>5. a = 0 \/ url[a] = "/"
        BY <1>2, <3>1
      <3>6. a + 1 = 1 \/ url[(a + 1) - 1] = "/"
        BY <3>4, <3>5
      <3> QED BY <1>3, <1>6, <3>1, <3>3, <3>4, <3>6
    <2>2. ASSUME NEW i \in st PROVE \E k \in 1..n : i = at[k] + 1
      <3>1. i \in 1..N /\ url[i] # "/" /\ (i = 1 \/ url[i - 1] = "/")
        BY <1>3, <1>6
      <3>2. PICK k \in 1..n : at[k] < i /\ i <= at[k] + Len(parts[k])
        BY <1>2, <1>3, <3>1
      <3>3. PICK a \in Nat, m \in Nat \ {0} : a = at[k] /\ m = Len(parts[k])
        BY <1>4
      <3>4. a < i /\ i <= a + m
        BY <3>2, <3>3
      <3>5. ASSUME i # a + 1 PROVE FALSE
        <4>1. i - 1 - a \in 1..m /\ a + (i - 1 - a) = i - 1 /\ i # 1
          BY <3>1, <3>4, <3>5
        <4>2. url[a + (i - 1 - a)] # "/"
          BY <1>4, <3>3, <4>1
        <4> QED BY <3>1, <4>1, <4>2
      <3> QED BY <3>3, <3>5
    <2> QED BY <2>1, <2>2
  <1>8. /\ Cardinality(st) = n
        /\ \A k \in 1..n : Cardinality({j \in st : j <= at[k] + 1}) = k
    BY <1>2, <1>5, <1>7, Starts
  <1> DEFINE Nth(m) == CHOOSE i \in st : Cardinality({k \in st : k <= i}) = m
  <1>9. SplitUrl(url) = [m \in 1..n |-> SubSeq(url, Nth(m), PartEnd(url, Nth(m)))]
    <2>1. SplitUrl(url) = [m \in 1..Cardinality(st) |-> SubSeq(url, Nth(m), PartEnd(url, Nth(m)))]
      BY <1>6, <1>a
    <2> QED BY <1>8, <2>1
  <1>10. ASSUME NEW m \in 1..n PROVE Nth(m) = at[m] + 1
    <2>1. at[m] + 1 \in st /\ Cardinality({k \in st : k <= at[m] + 1}) = m
      BY <1>7, <1>8
    <2>2. \A i \in st : Cardinality({k \in st : k <= i}) = m => i = at[m] + 1
      BY <1>7, <1>8
    <2> QED BY <2>1, <2>2
  <1> HIDE DEF Nth
  <1>11. ASSUME NEW m \in 1..n PROVE SubSeq(url, Nth(m), PartEnd(url, Nth(m))) = parts[m]
    <2>1. PICK a \in Nat : a = at[m]
      BY <1>4
    <2>2. SubSeq(url, a + 1, PartEnd(url, a + 1)) = parts[m]
      <3>1. PICK w \in Words : w = parts[m]
        BY <1>4
      <3>2. PartAt(url, a, w) /\ (a + Len(w) = Len(url) \/ url[a + Len(w) + 1] = "/")
        BY <1>2, <2>1, <3>1
      <3>3. SubSeq(url, a + 1, PartEnd(url, a + 1)) = w
        BY <3>2, PartIs
      <3> QED BY <3>1, <3>3
    <2> QED BY <1>10, <2>1, <2>2
  <1>12. SplitUrl(url) = [m \in 1..n |-> parts[m]]
    BY <1>9, <1>11
  <1>13. parts = [m \in 1..n |-> parts[m]]
    BY <1>1, <1>2
  <1> QED BY <1>12, <1>13
-----------------------------------------------------------------------------
(* Parts one behind the other, and as one path again.                       *)

\* The parts of a text one behind the other, with one "/" between two of them and nothing
\* behind the last.
Chained(text, parts, at) ==
  /\ parts \in Seq(Words) /\ Len(parts) > 0 /\ at \in [1..Len(parts) -> Nat]
  /\ \A k \in 1..Len(parts) : PartAt(text, at[k], parts[k])
  /\ \A k \in 1..Len(parts) : at[k] = 0 \/ text[at[k]] = "/"
  /\ at[1] \in {0, 1}
  /\ at[Len(parts)] + Len(parts[Len(parts)]) = Len(text)
  /\ \A k \in 1..(Len(parts) - 1) : at[k + 1] = at[k] + Len(parts[k]) + 1

\* The same, and a "/" in front of the first.
Joined(text, parts, at) == Chained(text, parts, at) /\ at[1] = 1

\* What is before a part and behind the last one: another part or a "/".
Ends(text, parts, at) ==
  /\ parts \in Seq(Words) /\ at \in [1..Len(parts) -> Nat]
  /\ \A k \in 1..Len(parts) : PartAt(text, at[k], parts[k])
  /\ \A k \in 1..Len(parts) : at[k] = 0 \/ text[at[k]] = "/"
  /\ Len(parts) = 0 => text = <<>> \/ text[Len(text)] = "/"
  /\ Len(parts) > 0 => at[Len(parts)] + Len(parts[Len(parts)]) = Len(text) \/ text[Len(text)] = "/"
  /\ \A k \in 1..(Len(parts) - 1) :
       /\ at[k + 1] > 1
       /\ at[k + 1] = at[k] + Len(parts[k]) + 1 \/ text[at[k + 1] - 1] = "/"

\* The parts that splitUrl returns end where the text or a "/" does.
LEMMA SplitEnds ==
  ASSUME NEW text \in Seq(Chars), NEW parts, NEW at, Split(text, Len(text), parts, at)
  PROVE  Ends(text, parts, at)
  <1>1. PICK n \in Nat : n = Len(parts)
    BY DEF Split
  <1>2. PICK N \in Nat : N = Len(text)
    OBVIOUS
  <1>3. /\ parts \in Seq(Words) /\ at \in [1..n -> Nat]
        /\ \A k \in 1..n :
             /\ PartAt(text, at[k], parts[k]) /\ at[k] + Len(parts[k]) <= N
             /\ at[k] = 0 \/ text[at[k]] = "/"
             /\ at[k] + Len(parts[k]) = N \/ text[at[k] + Len(parts[k]) + 1] = "/"
        /\ \A k \in 1..(n - 1) : at[k] + Len(parts[k]) < at[k + 1]
        /\ \A i \in 1..N : text[i] # "/" => \E k \in 1..n : at[k] < i /\ i <= at[k] + Len(parts[k])
    BY <1>1, <1>2 DEF Split
  <1>4. \A k \in 1..n : Len(parts[k]) \in Nat \ {0} /\ at[k] \in Nat
    <2> SUFFICES ASSUME NEW k \in 1..n PROVE Len(parts[k]) \in Nat \ {0} /\ at[k] \in Nat
      OBVIOUS
    <2>1. parts[k] \in Words
      BY <1>1, <1>3
    <2> QED BY <1>3, <2>1, WordFacts
  <1>5. \A k, l \in 1..n : k < l => at[k] + Len(parts[k]) < at[l]
    BY <1>1, <1>3, SplitOrder
  <1>6. n = 0 => text = <<>> \/ text[N] = "/"
    <2>1. ASSUME n = 0, text # <<>>, text[N] # "/" PROVE FALSE
      <3>1. N \in 1..N /\ 1..n = {}
        BY <1>2, <2>1
      <3> QED BY <1>3, <2>1, <3>1
    <2> QED BY <2>1
  <1>7. n > 0 => at[n] + Len(parts[n]) = N \/ text[N] = "/"
    <2> SUFFICES ASSUME n > 0, text[N] # "/" PROVE at[n] + Len(parts[n]) = N
      OBVIOUS
    <2>1. n \in 1..n
      OBVIOUS
    <2>2. PICK a \in Nat, m \in Nat \ {0} : a = at[n] /\ m = Len(parts[n])
      BY <1>4, <2>1
    <2>3. a + m <= N
      BY <1>3, <2>1, <2>2
    <2>4. N \in 1..N
      BY <2>2, <2>3
    <2>5. PICK k \in 1..n : at[k] < N /\ N <= at[k] + Len(parts[k])
      BY <1>3, <2>4
    <2>6. CASE k = n
      BY <2>2, <2>3, <2>5, <2>6
    <2>7. CASE k # n
      <3>1. k < n
        BY <2>7
      <3>2. PICK b \in Nat, l \in Nat : b = at[k] /\ l = Len(parts[k])
        BY <1>4
      <3>3. b + l < a
        BY <1>5, <2>1, <2>2, <3>1, <3>2
      <3>4. N <= b + l
        BY <2>5, <3>2
      <3> QED BY <2>2, <2>3, <3>3, <3>4
    <2> QED BY <2>6, <2>7
  <1>8. ASSUME NEW k \in 1..(n - 1)
        PROVE  /\ at[k + 1] > 1
               /\ at[k + 1] = at[k] + Len(parts[k]) + 1 \/ text[at[k + 1] - 1] = "/"
    <2>1. k \in 1..n /\ k + 1 \in 1..n
      OBVIOUS
    <2>2. PICK a \in Nat, m \in Nat \ {0} : a = at[k] /\ m = Len(parts[k])
      BY <1>4, <2>1
    <2>3. PICK b \in Nat, m2 \in Nat \ {0} : b = at[k + 1] /\ m2 = Len(parts[k + 1])
      BY <1>4, <2>1
    <2>4. a + m < b
      BY <1>3, <2>2, <2>3
    <2>5. b + m2 <= N
      BY <1>3, <2>1, <2>3
    <2>6. b > 1
      BY <2>2, <2>4
    <2>7. ASSUME text[b - 1] # "/" PROVE b = a + m + 1
      <3>1. b - 1 \in 1..N
        BY <2>5, <2>6
      <3>2. PICK l \in 1..n : at[l] < b - 1 /\ b - 1 <= at[l] + Len(parts[l])
        BY <1>3, <2>7, <3>1
      <3>3. PICK c \in Nat, r \in Nat : c = at[l] /\ r = Len(parts[l])
        BY <1>4
      <3>4. c < b - 1 /\ b - 1 <= c + r
        BY <3>2, <3>3
      <3>5. CASE l = k
        BY <2>2, <2>4, <3>3, <3>4, <3>5, SMTT(20)
      <3>6. CASE l < k
        <4>1. c + r < a
          BY <1>5, <2>1, <2>2, <3>3, <3>6
        <4> QED BY <2>2, <2>4, <3>4, <4>1
      <3>7. CASE l = k + 1
        BY <2>3, <3>3, <3>4, <3>7
      <3>8. CASE l > k + 1
        <4>1. b + m2 < c
          BY <1>5, <2>1, <2>3, <3>3, <3>8
        <4> QED BY <2>3, <3>4, <4>1
      <3> QED BY <3>5, <3>6, <3>7, <3>8
    <2> QED BY <2>2, <2>3, <2>6, <2>7
  <1> QED BY <1>1, <1>2, <1>3, <1>6, <1>7, <1>8 DEF Ends

\* So do the parts of a chain.
LEMMA ChainedEnds ==
  ASSUME NEW text \in Seq(Chars), NEW parts, NEW at, Chained(text, parts, at)
  PROVE  Ends(text, parts, at)
  <1>1. PICK n \in Nat \ {0} : n = Len(parts)
    BY DEF Chained
  <1>2. /\ parts \in Seq(Words) /\ at \in [1..n -> Nat]
        /\ \A k \in 1..n : PartAt(text, at[k], parts[k])
        /\ \A k \in 1..n : at[k] = 0 \/ text[at[k]] = "/"
        /\ at[n] + Len(parts[n]) = Len(text)
        /\ \A k \in 1..(n - 1) : at[k + 1] = at[k] + Len(parts[k]) + 1
    BY <1>1 DEF Chained
  <1>3. ASSUME NEW k \in 1..(n - 1) PROVE at[k + 1] > 1
    <2>1. k \in 1..n /\ parts[k] \in Words
      BY <1>1, <1>2
    <2>2. PICK a \in Nat, m \in Nat \ {0} : a = at[k] /\ m = Len(parts[k])
      BY <1>2, <2>1, WordFacts
    <2>3. at[k + 1] = a + m + 1
      BY <1>2, <2>2
    <2> QED BY <2>2, <2>3
  <1> QED BY <1>1, <1>2, <1>3 DEF Ends

\* A text with nothing empty between its "/", and none at the end, is a chain of its parts.
LEMMA EndsChained ==
  ASSUME NEW text \in Seq(Chars), NEW parts, NEW at, Split(text, Len(text), parts, at),
         text # <<>>, text[Len(text)] # "/",
         \A i \in 1..(Len(text) - 1) : text[i] = "/" => text[i + 1] # "/"
  PROVE  Chained(text, parts, at) /\ (text[1] # "/" => at[1] = 0) /\ (text[1] = "/" => at[1] = 1)
  <1>1. PICK N \in Nat : N = Len(text)
    OBVIOUS
  <1>2. PICK n \in Nat : n = Len(parts)
    BY DEF Split
  <1>3. /\ parts \in Seq(Words) /\ at \in [1..n -> Nat]
        /\ \A k \in 1..n : PartAt(text, at[k], parts[k])
        /\ \A k \in 1..n : at[k] = 0 \/ text[at[k]] = "/"
        /\ n = 0 => text = <<>> \/ text[N] = "/"
        /\ n > 0 => at[n] + Len(parts[n]) = N \/ text[N] = "/"
        /\ \A k \in 1..(n - 1) :
             /\ at[k + 1] > 1
             /\ at[k + 1] = at[k] + Len(parts[k]) + 1 \/ text[at[k + 1] - 1] = "/"
    BY <1>1, <1>2, SplitEnds DEF Ends
  <1>4. \A k \in 1..n : Len(parts[k]) \in Nat \ {0} /\ at[k] \in Nat
    <2> SUFFICES ASSUME NEW k \in 1..n PROVE Len(parts[k]) \in Nat \ {0} /\ at[k] \in Nat
      OBVIOUS
    <2>1. parts[k] \in Words
      BY <1>2, <1>3
    <2> QED BY <1>3, <2>1, WordFacts
  <1>5. n > 0 /\ at[n] + Len(parts[n]) = N
    BY <1>1, <1>3
  <1>6. \A k \in 1..n : at[k] <= N - 1
    <2> SUFFICES ASSUME NEW k \in 1..n PROVE at[k] <= N - 1
      OBVIOUS
    <2>1. PICK a \in Nat, m \in Nat \ {0} : a = at[k] /\ m = Len(parts[k])
      BY <1>4
    <2>2. a + m <= N
      BY <1>1, <1>3, <2>1 DEF PartAt
    <2> QED BY <2>1, <2>2
  <1>7. ASSUME NEW k \in 1..(n - 1) PROVE at[k + 1] = at[k] + Len(parts[k]) + 1
    <2>1. k + 1 \in 1..n
      OBVIOUS
    <2>2. PICK b \in Nat : b = at[k + 1] /\ b > 1 /\ b <= N - 1
      BY <1>3, <1>6, <2>1
    <2>3. text[b] = "/"
      BY <1>3, <2>1, <2>2
    <2>4. b - 1 \in 1..(N - 1) /\ (b - 1) + 1 = b
      BY <2>2
    <2>5. text[b - 1] # "/"
      BY <1>1, <2>3, <2>4
    <2> QED BY <1>3, <2>2, <2>5
  <1>8. N \in 1..N /\ 1 \in 1..N /\ 1 \in 1..n
    BY <1>5, <1>1
  <1>9. PICK a \in Nat : a = at[1]
    BY <1>4, <1>8
  <1>10. \A i \in 1..N : text[i] # "/" => \E k \in 1..n : at[k] < i /\ i <= at[k] + Len(parts[k])
    BY <1>1, <1>2 DEF Split
  <1>11. \A k \in 1..n : a <= at[k]
    <2> SUFFICES ASSUME NEW k \in 1..n, k # 1 PROVE a <= at[k]
      BY <1>9
    <2>1. \A j \in 1..(Len(parts) - 1) : at[j] + Len(parts[j]) < at[j + 1]
      BY DEF Split
    <2>2. at \in [1..Len(parts) -> Nat] /\ k \in 1..Len(parts) /\ 1 \in 1..Len(parts) /\ 1 < k
      BY <1>2, <1>3, <1>8
    <2>3. at[1] + Len(parts[1]) < at[k]
      BY <1>3, <2>1, <2>2, SplitOrder
    <2>4. PICK m \in Nat, b \in Nat : m = Len(parts[1]) /\ b = at[k]
      BY <1>4, <1>8
    <2> QED BY <1>9, <2>3, <2>4
  <1>12. text[1] # "/" => a = 0
    <2> SUFFICES ASSUME text[1] # "/" PROVE a = 0
      OBVIOUS
    <2>1. PICK k \in 1..n : at[k] < 1
      BY <1>8, <1>10
    <2>2. a <= at[k] /\ at[k] \in Nat
      BY <1>4, <1>11
    <2> QED BY <1>9, <2>1, <2>2
  <1>13. text[1] = "/" => a = 1
    <2> SUFFICES ASSUME text[1] = "/" PROVE a = 1
      OBVIOUS
    <2>1. a # 0
      <3> SUFFICES ASSUME a = 0 PROVE FALSE
        OBVIOUS
      <3>1. parts[1] \in Words /\ PartAt(text, 0, parts[1])
        BY <1>2, <1>3, <1>8, <1>9
      <3>2. 1 \in 1..Len(parts[1]) /\ 0 + 1 = 1
        BY <1>4, <1>8
      <3>3. text[1] = parts[1][1] /\ parts[1][1] # "/"
        BY <3>1, <3>2, WordFacts DEF PartAt
      <3> QED BY <3>3
    <2>2. a <= N - 1
      BY <1>6, <1>8, <1>9
    <2>3. 1 \in 1..(N - 1) /\ 1 + 1 = 2
      BY <2>1, <2>2
    <2>4. text[2] # "/"
      BY <1>1, <2>3
    <2>5. 2 \in 1..N
      BY <2>3
    <2>6. PICK k \in 1..n : at[k] < 2
      BY <1>10, <2>4, <2>5
    <2>7. a <= at[k] /\ at[k] \in Nat
      BY <1>4, <1>11
    <2> QED BY <1>9, <2>1, <2>6, <2>7
  <1>14. at[1] \in {0, 1}
    BY <1>9, <1>12, <1>13
  <1>15. Chained(text, parts, at)
    BY <1>1, <1>2, <1>3, <1>5, <1>7, <1>14 DEF Chained
  <1> QED BY <1>9, <1>12, <1>13, <1>15

\* A text that is a chain of parts and begins with one of them, with a "/" in front of it.
LEMMA SlashChained ==
  ASSUME NEW x \in Seq(Chars), NEW ps, NEW at, Chained(x, ps, at), at[1] = 0
  PROVE  \E at2 : Joined(Slash \o x, ps, at2)
  <1>1. PICK n \in Nat \ {0} : n = Len(ps)
    BY DEF Chained
  <1>2. /\ ps \in Seq(Words) /\ at \in [1..n -> Nat]
        /\ \A k \in 1..n : PartAt(x, at[k], ps[k])
        /\ \A k \in 1..n : at[k] = 0 \/ x[at[k]] = "/"
        /\ at[n] + Len(ps[n]) = Len(x)
        /\ \A k \in 1..(n - 1) : at[k + 1] = at[k] + Len(ps[k]) + 1
    BY <1>1 DEF Chained
  <1>3. PICK y \in Seq(Chars) : y = Slash \o x /\ Len(y) = Len(x) + 1 /\ y[1] = "/"
                                /\ \A i \in 1..Len(x) : y[i + 1] = x[i]
    BY SlashFacts
  <1>4. PICK N \in Nat : N = Len(x)
    OBVIOUS
  <1>5. PICK at2 \in [1..n -> Nat] : \A k \in 1..n : at2[k] = at[k] + 1
    <2> DEFINE f == [k \in 1..n |-> at[k] + 1]
    <2>1. f \in [1..n -> Nat] /\ \A k \in 1..n : f[k] = at[k] + 1
      BY <1>2
    <2> HIDE DEF f
    <2> QED BY <2>1
  <1>6. \A k \in 1..n : Len(ps[k]) \in Nat /\ at[k] \in Nat
    <2> SUFFICES ASSUME NEW k \in 1..n PROVE Len(ps[k]) \in Nat /\ at[k] \in Nat
      OBVIOUS
    <2>1. ps[k] \in Words
      BY <1>1, <1>2
    <2> QED BY <1>2, <2>1, WordFacts
  <1>7. ASSUME NEW k \in 1..n PROVE PartAt(y, at2[k], ps[k]) /\ y[at2[k]] = "/"
    <2>1. PICK a \in Nat, m \in Nat : a = at[k] /\ m = Len(ps[k]) /\ at2[k] = a + 1
      BY <1>5, <1>6
    <2>2. a + m <= N /\ \A i \in 1..m : x[a + i] = ps[k][i]
      BY <1>2, <1>4, <2>1 DEF PartAt
    <2>3. \A i \in 1..m : a + i \in 1..N /\ (a + 1) + i = (a + i) + 1
      BY <2>2
    <2>4. \A i \in 1..m : y[(a + 1) + i] = ps[k][i]
      BY <1>3, <1>4, <2>2, <2>3
    <2>5. (a + 1) + m <= Len(y)
      BY <1>3, <1>4, <2>2
    <2>6. y[a + 1] = "/"
      <3>1. CASE a = 0
        BY <1>3, <3>1
      <3>2. CASE a # 0
        <4>1. a \in 1..N
          BY <2>2, <3>2
        <4>2. x[a] = "/"
          BY <1>2, <2>1, <3>2
        <4> QED BY <1>3, <1>4, <4>1, <4>2
      <3> QED BY <3>1, <3>2
    <2> QED BY <2>1, <2>4, <2>5, <2>6 DEF PartAt
  <1>8. ASSUME NEW k \in 1..(n - 1) PROVE at2[k + 1] = at2[k] + Len(ps[k]) + 1
    <2>1. k \in 1..n /\ k + 1 \in 1..n
      OBVIOUS
    <2>2. PICK a \in Nat, m \in Nat : a = at[k] /\ m = Len(ps[k]) /\ at2[k] = a + 1
      BY <1>5, <1>6, <2>1
    <2>3. at2[k + 1] = (a + m + 1) + 1
      BY <1>2, <1>5, <2>1, <2>2
    <2>4. (a + m + 1) + 1 = (a + 1) + m + 1
      OBVIOUS
    <2> QED BY <2>2, <2>3, <2>4
  <1>9. at2[1] = 1 /\ at2[n] + Len(ps[n]) = Len(y)
    <2>1. 1 \in 1..n /\ n \in 1..n
      OBVIOUS
    <2>2. PICK a \in Nat, m \in Nat : a = at[n] /\ m = Len(ps[n]) /\ at2[n] = a + 1 /\ a + m = N
      BY <1>2, <1>4, <1>5, <1>6, <2>1
    <2>6. a + m = N
      BY <2>2
    <2>3. (a + 1) + m = N + 1
      BY <2>6
    <2>4. at2[n] + Len(ps[n]) = Len(y)
      BY <1>3, <1>4, <2>2, <2>3
    <2>5. at2[1] = 1
      BY <1>5, <2>1
    <2> QED BY <2>4, <2>5
  <1>10. Chained(y, ps, at2)
    BY <1>1, <1>2, <1>5, <1>7, <1>8, <1>9 DEF Chained
  <1> QED BY <1>3, <1>9, <1>10 DEF Joined

\* Without the "/" in front splitUrl finds these parts.
LEMMA Unslash ==
  ASSUME NEW x \in Seq(Chars), NEW ps, NEW at, Joined(Slash \o x, ps, at)
  PROVE  \E at2 : Split(x, Len(x), ps, at2)
  <1>1. PICK n \in Nat \ {0} : n = Len(ps)
    BY DEF Joined, Chained
  <1>3. PICK y \in Seq(Chars) : y = Slash \o x /\ Len(y) = Len(x) + 1 /\ y[1] = "/"
                                /\ \A i \in 1..Len(x) : y[i + 1] = x[i]
    BY SlashFacts
  <1>2. /\ ps \in Seq(Words) /\ at \in [1..n -> Nat]
        /\ \A k \in 1..n : PartAt(y, at[k], ps[k])
        /\ \A k \in 1..n : at[k] = 0 \/ y[at[k]] = "/"
        /\ at[1] = 1
        /\ at[n] + Len(ps[n]) = Len(y)
        /\ \A k \in 1..(n - 1) : at[k + 1] = at[k] + Len(ps[k]) + 1
    BY <1>1, <1>3 DEF Joined, Chained
  <1>4. PICK N \in Nat : N = Len(x)
    OBVIOUS
  <1>5. \A k \in 1..n : Len(ps[k]) \in Nat \ {0} /\ at[k] \in Nat
    <2> SUFFICES ASSUME NEW k \in 1..n PROVE Len(ps[k]) \in Nat \ {0} /\ at[k] \in Nat
      OBVIOUS
    <2>1. ps[k] \in Words
      BY <1>1, <1>2
    <2> QED BY <1>2, <2>1, WordFacts
  <1>6. \A k \in 1..n : at[k] > 0
    <2> DEFINE T == {d \in 0..(n - 1) : at[d + 1] > 0}
    <2>1. n - 1 \in Nat /\ 0 \in T
      BY <1>2
    <2>2. ASSUME NEW d \in 1..(n - 1) PROVE d \in T
      <3>1. PICK a \in Nat, m \in Nat : a = at[d] /\ m = Len(ps[d])
        <4>1. d \in 1..n
          OBVIOUS
        <4> QED BY <1>5, <4>1
      <3>2. at[d + 1] = a + m + 1
        BY <1>2, <3>1
      <3> QED BY <3>1, <3>2
    <2>3. \A d \in 0..(n - 1) : d \in T
      <3> HIDE DEF T
      <3> QED BY <2>1, <2>2
    <2>4. \A k \in 1..n : k - 1 \in 0..(n - 1) /\ (k - 1) + 1 = k
      OBVIOUS
    <2>5. ASSUME NEW k \in 1..n PROVE at[k] > 0
      <3>1. at[(k - 1) + 1] > 0
        BY <2>3, <2>4
      <3> QED BY <2>4, <3>1
    <2> QED BY <2>5
  <1>7. PICK at2 \in [1..n -> Nat] : \A k \in 1..n : at2[k] \in Nat /\ at[k] = at2[k] + 1
    <2> DEFINE f == [k \in 1..n |-> at[k] - 1]
    <2>2. \A k \in 1..n : at[k] - 1 \in Nat /\ at[k] = (at[k] - 1) + 1
      BY <1>5, <1>6
    <2>1. f \in [1..n -> Nat] /\ \A k \in 1..n : f[k] \in Nat /\ at[k] = f[k] + 1
      BY <2>2
    <2> HIDE DEF f
    <2> QED BY <2>1
  <1>8. ASSUME NEW k \in 1..n
        PROVE  /\ PartAt(x, at2[k], ps[k]) /\ at2[k] + Len(ps[k]) <= Len(x)
               /\ at2[k] = 0 \/ x[at2[k]] = "/"
    <2>1. PICK a \in Nat, m \in Nat : a = at2[k] /\ m = Len(ps[k]) /\ at[k] = a + 1
      BY <1>5, <1>6, <1>7
    <2>2. (a + 1) + m <= N + 1 /\ \A i \in 1..m : y[(a + 1) + i] = ps[k][i]
      BY <1>2, <1>3, <1>4, <2>1 DEF PartAt
    <2>3. a + m <= N /\ \A i \in 1..m : a + i \in 1..N /\ (a + 1) + i = (a + i) + 1
      BY <2>2
    <2>4. \A i \in 1..m : x[a + i] = ps[k][i]
      BY <1>3, <1>4, <2>2, <2>3
    <2>5. a = 0 \/ x[a] = "/"
      <3> SUFFICES ASSUME a # 0 PROVE x[a] = "/"
        OBVIOUS
      <3>1. a \in 1..N /\ a + 1 # 0
        BY <2>3
      <3>2. y[a + 1] = "/"
        BY <1>2, <2>1, <3>1
      <3> QED BY <1>3, <1>4, <3>1, <3>2
    <2> QED BY <1>4, <2>1, <2>3, <2>4, <2>5 DEF PartAt
  <1>9. ASSUME NEW k \in 1..n
        PROVE  /\ at2[k] + Len(ps[k]) = Len(x) \/ x[at2[k] + Len(ps[k]) + 1] = "/"
               /\ k # n => at2[k] + Len(ps[k]) < at2[k + 1]
    <2>1. PICK a \in Nat, m \in Nat : a = at2[k] /\ m = Len(ps[k]) /\ at[k] = a + 1
      BY <1>5, <1>6, <1>7
    <2>2. CASE k = n
      <3>1. (a + 1) + m = N + 1
        BY <1>2, <1>3, <1>4, <2>1, <2>2
      <3>2. a + m = N
        BY <3>1
      <3> QED BY <1>4, <2>1, <2>2, <3>2
    <2>3. CASE k # n
      <3>1. k \in 1..(n - 1) /\ k + 1 \in 1..n
        BY <2>3
      <3>2. at[k + 1] = (a + 1) + m + 1
        BY <1>2, <2>1, <3>1
      <3>5. PICK b \in Nat : b = at2[k + 1] /\ at[k + 1] = b + 1
        BY <1>7, <3>1
      <3>3. at2[k + 1] = a + m + 1
        <4>1. b + 1 = (a + 1) + m + 1
          BY <3>2, <3>5
        <4>2. b = a + m + 1
          BY <4>1
        <4> QED BY <3>5, <4>2
      <3>4. x[a + m + 1] = "/"
        BY <1>8, <2>1, <3>1, <3>3, SMTT(20)
      <3> QED BY <2>1, <3>3, <3>4, SMTT(20)
    <2> QED BY <2>2, <2>3
  <1>10. ASSUME NEW i \in 1..N, x[i] # "/"
         PROVE  \E k \in 1..n : at2[k] < i /\ i <= at2[k] + Len(ps[k])
    <2> DEFINE T == {k \in 1..n : at[k] <= i + 1}
    <2>1. 1 \in T /\ T \in SUBSET (0..n) /\ T # {}
      <3>1. 1 \in 1..n /\ 1 <= i + 1
        OBVIOUS
      <3>2. T \in SUBSET (0..n)
        OBVIOUS
      <3> QED BY <1>2, <3>1, <3>2
    <2>2. PICK k \in T : \A l \in T : l <= k
      <3> HIDE DEF T
      <3> QED BY <2>1, NatGreatest
    <2>3. k \in 1..n /\ at[k] <= i + 1
      OBVIOUS
    <2>4. PICK a \in Nat, m \in Nat : a = at2[k] /\ m = Len(ps[k]) /\ at[k] = a + 1
      BY <1>5, <1>6, <1>7, <2>3
    <2>5. a <= i
      BY <2>3, <2>4
    <2>6. a # i
      <3> SUFFICES ASSUME a = i PROVE FALSE
        OBVIOUS
      <3>1. a # 0
        OBVIOUS
      <3> QED BY <1>8, <1>10, <2>3, <2>4, SMTT(20)
    <2>7. i <= a + m
      <3>1. CASE k = n
        <4>1. (a + 1) + m = N + 1
          BY <1>2, <1>3, <1>4, <2>4, <3>1
        <4> QED BY <4>1
      <3>2. CASE k # n
        <4>1. k \in 1..(n - 1) /\ k + 1 \in 1..n
          BY <2>3, <3>2
        <4>2. at[k + 1] = (a + 1) + m + 1
          BY <1>2, <2>4, <4>1
        <4>3. ~(k + 1 <= k)
          BY <4>1
        <4>4. ~(at[k + 1] <= i + 1)
          BY <2>2, <4>1, <4>3
        <4> QED BY <4>2, <4>4
      <3> QED BY <3>1, <3>2
    <2>8. a < i
      BY <2>5, <2>6
    <2> HIDE DEF T
    <2> QED BY <2>3, <2>4, <2>7, <2>8
  <1>11. \A k \in 1..(n - 1) : at2[k] + Len(ps[k]) < at2[k + 1]
    <2>1. \A k \in 1..(n - 1) : k \in 1..n /\ k # n
      OBVIOUS
    <2> QED BY <1>9, <2>1
  <1> QED BY <1>1, <1>2, <1>4, <1>7, <1>8, <1>9, <1>10, <1>11 DEF Split

\* One part more.
LEMMA JoinAppend ==
  ASSUME NEW t \in Seq(Chars), NEW ps, NEW at, Joined(t, ps, at), NEW w \in Words
  PROVE  \E at2 : Joined(t \o (Slash \o w), Append(ps, w), at2)
  <1>1. PICK n \in Nat \ {0} : n = Len(ps)
    BY DEF Joined, Chained
  <1>2. /\ ps \in Seq(Words) /\ at \in [1..n -> Nat]
        /\ \A k \in 1..n : PartAt(t, at[k], ps[k])
        /\ \A k \in 1..n : at[k] = 0 \/ t[at[k]] = "/"
        /\ at[1] = 1
        /\ at[n] + Len(ps[n]) = Len(t)
        /\ \A k \in 1..(n - 1) : at[k + 1] = at[k] + Len(ps[k]) + 1
    BY <1>1 DEF Joined, Chained
  <1>3. PICK m \in Nat \ {0} : m = Len(w) /\ w \in Seq(Chars)
    BY WordFacts
  <1>4. PICK y \in Seq(Chars) : y = Slash \o w /\ Len(y) = m + 1 /\ y[1] = "/"
                                /\ \A i \in 1..m : y[i + 1] = w[i]
    BY <1>3, SlashFacts
  <1>5. PICK N \in Nat : N = Len(t)
    OBVIOUS
  <1>6. PICK z \in Seq(Chars) : /\ z = t \o y /\ Len(z) = N + (m + 1)
                                /\ \A i \in 1..N : z[i] = t[i]
                                /\ \A i \in 1..Len(z) : i > N => i - N \in 1..(m + 1) /\ z[i] = y[i - N]
    <2>1. t \o y \in Seq(Chars) /\ Len(t \o y) = Len(t) + Len(y)
      BY Concats
    <2>2. \A i \in 1..Len(t) : (t \o y)[i] = t[i]
      BY Concats
    <2>3. \A i \in 1..Len(t \o y) : i > Len(t) => i - Len(t) \in 1..Len(y) /\ (t \o y)[i] = y[i - Len(t)]
      BY Concats
    <2> QED BY <1>4, <1>5, <2>1, <2>2, <2>3
  <1>7. PICK qs \in Seq(Words) : qs = Append(ps, w) /\ Len(qs) = n + 1 /\ qs[n + 1] = w
                                 /\ \A k \in 1..n : qs[k] = ps[k]
    <2>1. Append(ps, w) \in Seq(Words) /\ Len(Append(ps, w)) = Len(ps) + 1
      BY <1>2
    <2>2. Append(ps, w)[Len(ps) + 1] = w /\ \A k \in 1..Len(ps) : Append(ps, w)[k] = ps[k]
      BY <1>2
    <2> QED BY <1>1, <2>1, <2>2
  <1>8. PICK at2 \in [1..(n + 1) -> Nat] : at2[n + 1] = N + 1 /\ \A k \in 1..n : at2[k] = at[k]
    <2> DEFINE f == [k \in 1..(n + 1) |-> IF k = n + 1 THEN N + 1 ELSE at[k]]
    <2>1. f \in [1..(n + 1) -> Nat] /\ f[n + 1] = N + 1 /\ \A k \in 1..n : f[k] = at[k]
      BY <1>2
    <2> HIDE DEF f
    <2> QED BY <2>1
  <1>9. \A k \in 1..n : Len(ps[k]) \in Nat \ {0} /\ at[k] \in Nat
    <2> SUFFICES ASSUME NEW k \in 1..n PROVE Len(ps[k]) \in Nat \ {0} /\ at[k] \in Nat
      OBVIOUS
    <2>1. ps[k] \in Words
      BY <1>1, <1>2
    <2> QED BY <1>2, <2>1, WordFacts
  <1>10. PartAt(z, N + 1, w) /\ z[N + 1] = "/" /\ (N + 1) + m = Len(z)
    <2>1. N + 1 \in 1..Len(z) /\ N + 1 > N /\ (N + 1) - N = 1
      BY <1>6
    <2>2. z[N + 1] = "/"
      BY <1>4, <1>6, <2>1
    <2>3. ASSUME NEW i \in 1..m PROVE z[(N + 1) + i] = w[i]
      <3>1. PICK j \in 1..Len(z) : j = (N + 1) + i /\ j > N /\ j - N = i + 1
        BY <1>6
      <3>2. z[j] = y[i + 1]
        BY <1>6, <3>1
      <3> QED BY <1>4, <3>1, <3>2
    <2>4. (N + 1) + m = Len(z)
      BY <1>6
    <2>5. PartAt(z, N + 1, w)
      BY <1>3, <2>3, <2>4 DEF PartAt
    <2> QED BY <2>2, <2>4, <2>5
  <1>11. ASSUME NEW k \in 1..n PROVE PartAt(z, at[k], ps[k]) /\ (at[k] = 0 \/ z[at[k]] = "/")
    <2>1. PICK a \in Nat, l \in Nat \ {0} : a = at[k] /\ l = Len(ps[k])
      BY <1>9
    <2>2. a + l <= N /\ \A i \in 1..l : t[a + i] = ps[k][i]
      BY <1>2, <1>5, <2>1 DEF PartAt
    <2>3. \A i \in 1..l : a + i \in 1..N
      BY <2>2
    <2>4. \A i \in 1..l : z[a + i] = ps[k][i]
      BY <1>6, <2>2, <2>3
    <2>5. a + l <= Len(z)
      BY <1>6, <2>2
    <2>6. a = 0 \/ z[a] = "/"
      <3> SUFFICES ASSUME a # 0 PROVE z[a] = "/"
        OBVIOUS
      <3>1. a \in 1..N
        BY <2>2
      <3>2. t[a] = "/"
        BY <1>2, <2>1
      <3> QED BY <1>6, <3>1, <3>2
    <2> QED BY <2>1, <2>4, <2>5, <2>6 DEF PartAt
  <1>12. ASSUME NEW k \in 1..(n + 1) PROVE PartAt(z, at2[k], qs[k]) /\ (at2[k] = 0 \/ z[at2[k]] = "/")
    <2>1. CASE k = n + 1
      BY <1>7, <1>8, <1>10, <2>1
    <2>2. CASE k # n + 1
      <3>1. k \in 1..n
        BY <2>2
      <3> QED BY <1>7, <1>8, <1>11, <3>1
    <2> QED BY <2>1, <2>2
  <1>13. ASSUME NEW k \in 1..n PROVE at2[k + 1] = at2[k] + Len(qs[k]) + 1
    <2>1. CASE k = n
      BY <1>2, <1>5, <1>7, <1>8, <2>1
    <2>2. CASE k # n
      <3>1. k \in 1..(n - 1) /\ k + 1 \in 1..n
        BY <2>2
      <3> QED BY <1>2, <1>7, <1>8, <3>1
    <2> QED BY <2>1, <2>2
  <1>14. at2[1] = 1
    <2>1. 1 \in 1..n
      OBVIOUS
    <2> QED BY <1>2, <1>8, <2>1
  <1>15. at2[n + 1] + Len(qs[n + 1]) = Len(z)
    BY <1>3, <1>7, <1>8, <1>10
  <1>16. Chained(z, qs, at2)
    <2>1. Len(qs) - 1 = n /\ Len(qs) > 0
      BY <1>7
    <2> QED BY <1>7, <1>8, <1>12, <1>13, <1>14, <1>15, <2>1 DEF Chained
  <1> QED BY <1>4, <1>6, <1>7, <1>14, <1>16 DEF Joined

\* One part.
LEMMA JoinOne ==
  ASSUME NEW w \in Words
  PROVE  \E at : Joined(Slash \o w, Append(<<>>, w), at)
  <1>3. PICK m \in Nat \ {0} : m = Len(w) /\ w \in Seq(Chars)
    BY WordFacts
  <1>4. PICK y \in Seq(Chars) : y = Slash \o w /\ Len(y) = m + 1 /\ y[1] = "/"
                                /\ \A i \in 1..m : y[i + 1] = w[i]
    BY <1>3, SlashFacts
  <1>5. PICK e \in Seq(Words) : e = <<>> /\ Len(e) = 0
    BY EmptySeq
  <1>7. PICK qs \in Seq(Words) : qs = Append(e, w) /\ Len(qs) = 1 /\ qs[1] = w
    <2>1. Append(e, w) \in Seq(Words) /\ Len(Append(e, w)) = Len(e) + 1
      OBVIOUS
    <2>2. Append(e, w)[Len(e) + 1] = w
      OBVIOUS
    <2>3. Len(e) + 1 = 1
      BY <1>5
    <2> QED BY <2>1, <2>2, <2>3
  <1>8. PICK at \in [1..1 -> Nat] : at[1] = 1
    <2> DEFINE f == [k \in 1..1 |-> 1]
    <2>1. f \in [1..1 -> Nat] /\ f[1] = 1
      OBVIOUS
    <2> HIDE DEF f
    <2> QED BY <2>1
  <1>9. PartAt(y, 1, w)
    <2>1. \A i \in 1..m : y[1 + i] = w[i]
      BY <1>4, SMTT(20)
    <2>2. 1 + m <= Len(y)
      BY <1>4
    <2> QED BY <1>3, <2>1, <2>2 DEF PartAt
  <1>10. \A k \in 1..Len(qs) : k = 1
    BY <1>7
  <1>11. Len(qs) > 0 /\ 1..Len(qs) = 1..1 /\ 1..(Len(qs) - 1) = {}
    BY <1>7
  <1>12. at[Len(qs)] + Len(qs[Len(qs)]) = Len(y)
    BY <1>3, <1>4, <1>7, <1>8
  <1>13. \A k \in 1..Len(qs) : PartAt(y, at[k], qs[k]) /\ (at[k] = 0 \/ y[at[k]] = "/")
    BY <1>4, <1>7, <1>8, <1>9, <1>10
  <1>14. Chained(y, qs, at)
    BY <1>8, <1>11, <1>12, <1>13 DEF Chained
  <1> QED BY <1>4, <1>5, <1>7, <1>8, <1>14 DEF Joined

\* The parts of a url as one path again.
LEMMA JoinPathIs ==
  ASSUME NEW ps \in Seq(Words), Len(ps) > 0
  PROVE  JoinPath(ps) \in Seq(Chars) /\ \E at : Joined(JoinPath(ps), ps, at)
  <1>1. PICK N \in Nat : Len(ps) = N + 1
    <2>1. Len(ps) \in Nat
      OBVIOUS
    <2>2. Len(ps) - 1 \in Nat /\ Len(ps) = (Len(ps) - 1) + 1
      BY <2>1
    <2> QED BY <2>2
  <1>2. PICK ss \in [1..(N + 1) -> Seq(Chars)] : /\ ss = [i \in 1..Len(ps) |-> Slash \o ps[i]]
                                                /\ \A i \in 1..(N + 1) : ss[i] = Slash \o ps[i]
    <2> DEFINE g == [i \in 1..(N + 1) |-> Slash \o ps[i]]
    <2>1. \A i \in 1..(N + 1) : Slash \o ps[i] \in Seq(Chars)
      <3> SUFFICES ASSUME NEW i \in 1..(N + 1) PROVE Slash \o ps[i] \in Seq(Chars)
        OBVIOUS
      <3>1. PICK w \in Words : w = ps[i]
        BY <1>1
      <3> QED BY <3>1, WordFacts, SlashFacts
    <2>2. g \in [1..(N + 1) -> Seq(Chars)] /\ \A i \in 1..(N + 1) : g[i] = Slash \o ps[i]
      BY <2>1
    <2>3. g = [i \in 1..Len(ps) |-> Slash \o ps[i]]
      BY <1>1
    <2> HIDE DEF g
    <2> QED BY <2>2, <2>3
  <1>3. ss \in Seq(Seq(Chars)) /\ Len(ss) = N + 1
    BY <1>2
  <1> DEFINE f == CHOOSE f : Joins(f, N, ss)
  <1>4. Joins(f, N, ss)
    BY JoinExists
  <1>5. Lists!FlattenSeq(ss) = f[N + 1]
    BY <1>3 DEF Lists!FlattenSeq, Joins
  <1> HIDE DEF f
  <1>6. f[1] = ss[1] /\ \A i \in 1..N : f[i + 1] = f[i] \o ss[i + 1]
    BY <1>4, JoinSteps
  <1>7. JoinPath(ps) = f[N + 1]
    <2>1. JoinPath(ps) = Lists!FlattenSeq(ss)
      BY <1>2 DEF JoinPath
    <2> QED BY <1>5, <2>1
  <1>8. PICK P \in [0..Len(ps) -> Seq(Words)] : Grows(P, <<>>, ps)
    <2>1. <<>> \in Seq(Words)
      BY EmptySeq
    <2> QED BY <2>1, GrownLists
  <1>9. P[0] = <<>> /\ P[N + 1] = ps /\ \A d \in 1..(N + 1) : P[d] = Append(P[d - 1], ps[d])
    <2>1. <<>> \o ps = ps
      BY ConcatEmptySeq
    <2> QED BY <1>1, <1>8, <2>1 DEF Grows
  <1> DEFINE Good(d) == f[d + 1] \in Seq(Chars) /\ \E at : Joined(f[d + 1], P[d + 1], at)
             T == {d \in 0..N : Good(d)}
  <1>10. 0 \in T
    <2>1. 1 \in 1..(N + 1) /\ 1 - 1 = 0 /\ 0 + 1 = 1
      OBVIOUS
    <2>2. PICK w \in Words : w = ps[1]
      BY <1>1, <2>1
    <2>3. P[1] = Append(<<>>, w)
      BY <1>9, <2>1, <2>2
    <2>4. f[1] = Slash \o w /\ f[1] \in Seq(Chars)
      BY <1>2, <1>6, <2>1, <2>2
    <2>5. \E at : Joined(f[1], P[1], at)
      BY <2>2, <2>3, <2>4, JoinOne
    <2>6. Good(0)
      BY <2>1, <2>4, <2>5
    <2> HIDE DEF Good
    <2> QED BY <2>6
  <1>11. ASSUME NEW d \in 1..N, d - 1 \in T PROVE d \in T
    <2>1. PICK e \in 1..(N + 1) : e = d + 1 /\ e - 1 = d /\ (d - 1) + 1 = d
      OBVIOUS
    <2>2. PICK t \in Seq(Chars) : t = f[d]
      BY <1>11, <2>1
    <2>3. PICK at : Joined(t, P[d], at)
      BY <1>11, <2>1, <2>2
    <2>4. PICK w \in Words : w = ps[e]
      BY <1>1
    <2>5. P[e] = Append(P[d], w)
      BY <1>9, <2>1, <2>4
    <2>6. f[e] = t \o (Slash \o w)
      BY <1>2, <1>6, <2>1, <2>2, <2>4
    <2>7. Slash \o w \in Seq(Chars)
      BY WordFacts, SlashFacts
    <2>8. t \o (Slash \o w) \in Seq(Chars)
      BY <2>7, Concats
    <2>9. \E at2 : Joined(f[e], P[e], at2)
      BY <2>2, <2>3, <2>4, <2>5, <2>6, JoinAppend
    <2>10. Good(d)
      BY <2>1, <2>6, <2>8, <2>9
    <2> HIDE DEF Good
    <2> QED BY <2>10
  <1>12. Good(N)
    <2>1. N \in 0..N
      OBVIOUS
    <2> HIDE DEF Good
    <2>2. \A d \in 0..N : d \in T
      <3> HIDE DEF T
      <3> QED BY <1>10, <1>11, StepInduction
    <2> QED BY <2>1, <2>2
  <1> QED BY <1>7, <1>9, <1>12

\* The place of an object whose parent is named by a whole path.
LEMMA PlaceJoined ==
  ASSUME NEW t \in Seq(Chars), NEW ps, NEW at, Joined(Slash \o t, ps, at), NEW w \in Words
  PROVE  \E at2 : Joined(Slash \o (t \o Slash \o w), Append(ps, w), at2)
  <1>1. PICK s : s = Slash
    OBVIOUS
  <1>2. s \in Seq(Chars)
    <2>1. "/" \in Chars
      BY CharAssumption
    <2> QED BY <1>1, <2>1 DEF Slash
  <1>3. w \in Seq(Chars)
    BY WordFacts
  <1>4. s \o t \in Seq(Chars) /\ t \o s \in Seq(Chars) /\ s \o w \in Seq(Chars)
    BY <1>2, <1>3, ConcatProperties
  <1>5. t \o s \o w = t \o (s \o w)
    BY <1>2, <1>3, ConcatAssociative
  <1>6. s \o (t \o (s \o w)) = (s \o t) \o (s \o w)
    <2>1. PICK z \in Seq(Chars) : z = s \o w
      BY <1>4
    <2>2. s \o (t \o z) = (s \o t) \o z
      BY <1>2, ConcatAssociative, SMTT(20)
    <2> QED BY <2>1, <2>2
  <1>7. \E at2 : Joined((s \o t) \o (s \o w), Append(ps, w), at2)
    BY <1>1, <1>4, JoinAppend
  <1> QED BY <1>1, <1>5, <1>6, <1>7
-----------------------------------------------------------------------------
(* A url matches a place exactly if its parts match.                        *)

\* A part is read as if it were alone, and then what is before it.
LEMMA OnePart ==
  ASSUME NEW url \in Seq(Chars), NEW path \in Seq(Chars), NEW P, NEW W, Reads(P, W, url, path),
         NEW w \in Words, NEW v \in Words, NEW a \in Nat, NEW b \in Nat, b > 0,
         PartAt(url, a, w), PartAt(path, b, v), path[b] = "/", a = 0 \/ url[a] = "/"
  PROVE  <<a + Len(w), b + Len(v)>> \in P <=> PartMatches(w, v) /\ (a = 0 \/ <<a - 1, b - 1>> \in P)
  <1>1. w \in Seq(Chars) /\ v \in Seq(Chars)
    BY WordFacts
  <1>2. PICK w2 \in Seq(Chars) : w2 = Slash \o w /\ Len(w2) = Len(w) + 1
    BY <1>1, SlashFacts
  <1>3. PICK Q, V : /\ Reads(Q, V, w2, Slash \o v)
                    /\ IsMatchByName(w2, v) <=> <<Len(w2), Len(v) + 1>> \in Q
    BY <1>1, Readings
  <1>4. Reads(Q, V, Slash \o w, Slash \o v)
    BY <1>2, <1>3
  <1>5. <<a + Len(w), b + Len(v)>> \in P <=>
           <<Len(w) + 1, Len(v) + 1>> \in Q /\ (a = 0 \/ <<a - 1, b - 1>> \in P)
    BY <1>4, PartRead
  <1>6. PartMatches(w, v) <=> <<Len(w) + 1, Len(v) + 1>> \in Q
    BY <1>2, <1>3 DEF PartMatches
  <1> QED BY <1>5, <1>6

\* Where a reading succeeds behind something else than a "/", the url has no "/" either.
LEMMA NoSlash ==
  ASSUME NEW url \in Seq(Chars), NEW path \in Seq(Chars), NEW P, NEW W, Reads(P, W, url, path),
         NEW u \in 1..Len(url), NEW p \in 1..Len(path), <<u, p>> \in P, path[p] # "/"
  PROVE  url[u] # "/"
  <1> SUFFICES ASSUME url[u] = "/" PROVE FALSE
    OBVIOUS
  <1>1. "/" # "*"
    OBVIOUS
  <1>2. Inside(P, W, u, p, url[u], path[p])
    BY ReadsInside
  <1> QED BY <1>1, <1>2 DEF Inside

\* The last parts match, as many as there are of both.
PartsFit(us, vs) ==
  \A k \in Nat : k < Len(us) /\ k < Len(vs) => PartMatches(us[Len(us) - k], vs[Len(vs) - k])

\* The parts of a place, with one "/" before each.
Laid(path, vs, AT) ==
  /\ vs \in Seq(Words) /\ Len(vs) \in Nat \ {0}
  /\ AT[1] = 1 /\ AT[Len(vs)] + Len(vs[Len(vs)]) = Len(path)
  /\ \A j \in 1..Len(vs) :
       /\ vs[j] \in Words /\ AT[j] \in Nat /\ AT[j] > 0
       /\ path[AT[j]] = "/" /\ PartAt(path, AT[j], vs[j])
       /\ AT[j] + Len(vs[j]) \in 1..Len(path) /\ path[AT[j] + Len(vs[j])] # "/"
  /\ \A j \in 1..Len(vs) : j # 1 => AT[j] - 1 = AT[j - 1] + Len(vs[j - 1])

\* A joined path is laid out part by part.
LEMMA JoinedFacts ==
  ASSUME NEW path \in Seq(Chars), NEW vs, NEW AT, Joined(path, vs, AT)
  PROVE  Laid(path, vs, AT)
  <1>1. PICK n \in Nat \ {0} : n = Len(vs)
    BY DEF Joined, Chained
  <1>2. /\ vs \in Seq(Words) /\ AT \in [1..n -> Nat]
        /\ \A k \in 1..n : PartAt(path, AT[k], vs[k])
        /\ \A k \in 1..n : AT[k] = 0 \/ path[AT[k]] = "/"
        /\ AT[1] = 1
        /\ AT[n] + Len(vs[n]) = Len(path)
        /\ \A k \in 1..(n - 1) : AT[k + 1] = AT[k] + Len(vs[k]) + 1
    BY <1>1 DEF Joined, Chained
  <1>3. ASSUME NEW k \in 1..n PROVE vs[k] \in Words /\ Len(vs[k]) \in Nat \ {0} /\ AT[k] \in Nat
    <2>1. vs[k] \in Words
      BY <1>1, <1>2
    <2> QED BY <1>2, <2>1, WordFacts
  <1>4. ASSUME NEW k \in 1..n, k # 1 PROVE AT[k] - 1 = AT[k - 1] + Len(vs[k - 1]) /\ AT[k] > 0
    <2>1. k - 1 \in 1..(n - 1) /\ k - 1 \in 1..n /\ (k - 1) + 1 = k
      BY <1>4
    <2>2. PICK a \in Nat, m \in Nat : a = AT[k - 1] /\ m = Len(vs[k - 1])
      BY <1>3, <2>1
    <2>3. AT[k] = a + m + 1
      BY <1>2, <2>1, <2>2
    <2> QED BY <2>2, <2>3
  <1>5. ASSUME NEW k \in 1..n
        PROVE  /\ AT[k] > 0
               /\ AT[k] + Len(vs[k]) \in 1..Len(path) /\ path[AT[k] + Len(vs[k])] # "/"
    <2>1. AT[k] > 0
      <3>1. CASE k = 1
        BY <1>2, <3>1
      <3> QED BY <1>4, <3>1
    <2>2. PICK a \in Nat, m \in Nat \ {0} : a = AT[k] /\ m = Len(vs[k])
      BY <1>3
    <2>3. a + m <= Len(path) /\ path[a + m] = vs[k][m]
      <3>1. m \in 1..m
        OBVIOUS
      <3> QED BY <1>2, <2>2, <3>1 DEF PartAt
    <2>4. a + m \in 1..Len(path)
      BY <2>3
    <2>5. vs[k][m] # "/"
      <3>1. vs[k] \in Words /\ m \in 1..m
        BY <1>3
      <3> QED BY <2>2, <3>1, WordFacts
    <2> QED BY <2>1, <2>2, <2>3, <2>4, <2>5
  <1>6. \A k \in 1..n : AT[k] # 0
    BY <1>3, <1>5
  <1> QED BY <1>1, <1>2, <1>3, <1>4, <1>5, <1>6 DEF Laid

\* A url that matches a place has parts that do.
LEMMA MatchFits ==
  ASSUME NEW url \in Seq(Chars), url # <<>>, NEW name \in Seq(Chars), NEW us, NEW at, Ends(url, us, at),
         NEW vs, NEW AT, Joined(Slash \o name, vs, AT), IsMatchByName(url, name)
  PROVE  Len(us) > 0 /\ PartsFit(us, vs)
  <1>1. PICK path \in Seq(Chars) : path = Slash \o name /\ Len(path) = Len(name) + 1
    BY SlashFacts
  <1>2. PICK P, W : /\ Reads(P, W, url, path)
                    /\ IsMatchByName(url, name) <=> <<Len(url), Len(name) + 1>> \in P
    BY <1>1, Readings
  <1>3. <<Len(url), Len(path)>> \in P
    BY <1>1, <1>2
  <1>4. Joined(path, vs, AT)
    BY <1>1
  <1>a. Laid(path, vs, AT)
    BY <1>4, JoinedFacts
  <1>5. PICK m \in Nat \ {0} : m = Len(vs)
    BY <1>a DEF Laid
  <1>6. /\ AT[1] = 1 /\ AT[m] + Len(vs[m]) = Len(path)
        /\ \A j \in 1..m :
              /\ vs[j] \in Words /\ AT[j] \in Nat /\ AT[j] > 0
              /\ path[AT[j]] = "/" /\ PartAt(path, AT[j], vs[j])
              /\ AT[j] + Len(vs[j]) \in 1..Len(path) /\ path[AT[j] + Len(vs[j])] # "/"
        /\ \A j \in 1..m : j # 1 => AT[j] - 1 = AT[j - 1] + Len(vs[j - 1])
    BY <1>5, <1>a DEF Laid
  <1>7. PICK n \in Nat : n = Len(us)
    BY DEF Ends
  <1>8. /\ us \in Seq(Words) /\ at \in [1..n -> Nat]
        /\ \A k \in 1..n : PartAt(url, at[k], us[k])
        /\ \A k \in 1..n : at[k] = 0 \/ url[at[k]] = "/"
        /\ n = 0 => url = <<>> \/ url[Len(url)] = "/"
        /\ n > 0 => at[n] + Len(us[n]) = Len(url) \/ url[Len(url)] = "/"
        /\ \A k \in 1..(n - 1) :
             /\ at[k + 1] > 1
             /\ at[k + 1] = at[k] + Len(us[k]) + 1 \/ url[at[k + 1] - 1] = "/"
    BY <1>7 DEF Ends
  <1>9. m \in 1..m /\ Len(path) \in 1..Len(path) /\ path[Len(path)] # "/"
    <2>1. m \in 1..m
      OBVIOUS
    <2> QED BY <1>6, <2>1
  <1>10. Len(url) \in 1..Len(url)
    BY EmptySeq
  <1>11. url[Len(url)] # "/"
    BY <1>2, <1>3, <1>9, <1>10, NoSlash
  <1>12. n > 0 /\ at[n] + Len(us[n]) = Len(url)
    BY <1>8, <1>11
  <1>13. ASSUME NEW i \in 1..n, NEW j \in 1..m
         PROVE  <<at[i] + Len(us[i]), AT[j] + Len(vs[j])>> \in P =>
                  PartMatches(us[i], vs[j]) /\ (at[i] = 0 \/ <<at[i] - 1, AT[j] - 1>> \in P)
    <2>1. PICK w \in Words : w = us[i]
      BY <1>7, <1>8
    <2>2. PICK v \in Words : v = vs[j]
      BY <1>6
    <2>3. PICK a \in Nat : a = at[i] /\ PartAt(url, a, w) /\ (a = 0 \/ url[a] = "/")
      BY <1>8, <2>1
    <2>4. PICK b \in Nat : b = AT[j] /\ b > 0 /\ path[b] = "/" /\ PartAt(path, b, v)
      BY <1>6, <2>2
    <2>5. <<a + Len(w), b + Len(v)>> \in P <=> PartMatches(w, v) /\ (a = 0 \/ <<a - 1, b - 1>> \in P)
      <3>1. Reads(P, W, url, path)
        BY <1>2
      <3>2. PartAt(url, a, w) /\ (a = 0 \/ url[a] = "/")
        BY <2>3
      <3>3. b > 0 /\ path[b] = "/" /\ PartAt(path, b, v)
        BY <2>4
      <3> QED BY <3>1, <3>2, <3>3, OnePart
    <2> QED BY <2>1, <2>2, <2>3, <2>4, <2>5
  <1> DEFINE At(k) == <<at[n - k] + Len(us[n - k]), AT[m - k] + Len(vs[m - k])>> \in P
             T == {k \in Nat : k < n /\ k < m => At(k)}
  <1>14. 0 \in T
    <2>1. n - 0 = n /\ m - 0 = m
      OBVIOUS
    <2> QED BY <1>3, <1>6, <1>12, <2>1
  <1>15. ASSUME NEW k \in T PROVE k + 1 \in T
    <2> SUFFICES ASSUME k + 1 < n, k + 1 < m PROVE At(k + 1)
      OBVIOUS
    <2>1. PICK i \in 1..n, j \in 1..m : /\ i = n - k /\ j = m - k /\ i # 1 /\ j # 1
                                       /\ n - (k + 1) = i - 1 /\ m - (k + 1) = j - 1
                                       /\ i - 1 \in 1..(n - 1) /\ i - 1 \in 1..n /\ (i - 1) + 1 = i /\ j - 1 \in 1..m
      OBVIOUS
    <2>2. <<at[i] + Len(us[i]), AT[j] + Len(vs[j])>> \in P
      BY <2>1
    <2>3. at[i] = 0 \/ <<at[i] - 1, AT[j] - 1>> \in P
      BY <1>13, <2>2
    <2>4. at[i] > 1 /\ (at[i] = at[i - 1] + Len(us[i - 1]) + 1 \/ url[at[i] - 1] = "/")
      BY <1>8, <2>1
    <2>5. PICK a \in Nat : a = at[i] /\ a > 1 /\ a - 1 \in 1..Len(url)
      <3>1. PICK a \in Nat : a = at[i] /\ PartAt(url, a, us[i])
        BY <1>8
      <3>2. a > 1
        BY <2>4, <3>1
      <3>3. PICK l \in Nat : l = Len(us[i])
        <4>1. us[i] \in Words
          BY <1>7, <1>8
        <4> QED BY <4>1, WordFacts
      <3>4. a + l <= Len(url)
        BY <3>1, <3>3 DEF PartAt
      <3>5. a - 1 \in 1..Len(url)
        BY <3>2, <3>4
      <3> QED BY <3>1, <3>2, <3>5
    <2>6. PICK p \in 1..Len(path) : p = AT[j] - 1 /\ p = AT[j - 1] + Len(vs[j - 1]) /\ path[p] # "/"
      BY <1>6, <2>1
    <2>7. <<a - 1, p>> \in P
      BY <2>3, <2>5, <2>6
    <2>8. url[a - 1] # "/"
      <3>1. PICK q \in 1..Len(url) : q = a - 1
        BY <2>5
      <3>2. <<q, p>> \in P /\ path[p] # "/"
        BY <2>6, <2>7, <3>1
      <3>3. url[q] # "/"
        BY <1>2, <3>2, NoSlash
      <3> QED BY <3>1, <3>3
    <2>9. a = at[i - 1] + Len(us[i - 1]) + 1
      BY <2>4, <2>5, <2>8
    <2>10. a - 1 = at[i - 1] + Len(us[i - 1])
      <3>1. PICK c \in Nat, l \in Nat : c = at[i - 1] /\ l = Len(us[i - 1])
        <4>1. PICK h \in 1..n : h = i - 1
          BY <2>1
        <4>2. us[h] \in Words
          BY <1>7, <1>8
        <4>3. at[h] \in Nat
          BY <1>8
        <4> QED BY <4>1, <4>2, <4>3, WordFacts
      <3> QED BY <2>9, <3>1, SMTT(20)
    <2> QED BY <2>1, <2>6, <2>7, <2>10
  <1> HIDE DEF At
  <1>16. \A k \in Nat : k < n /\ k < m => At(k)
    <2>1. T \subseteq Nat
      OBVIOUS
    <2> HIDE DEF T
    <2>2. \A k \in Nat : k \in T
      BY <1>14, <1>15, <2>1, NatSetInduction
    <2> QED BY <2>2 DEF T
  <1>17. \A k \in Nat : k < n /\ k < m => PartMatches(us[n - k], vs[m - k])
    <2> SUFFICES ASSUME NEW k \in Nat, k < n, k < m PROVE PartMatches(us[n - k], vs[m - k])
      OBVIOUS
    <2>1. n - k \in 1..n /\ m - k \in 1..m
      OBVIOUS
    <2>2. At(k)
      BY <1>16
    <2> QED BY <1>13, <2>1, <2>2 DEF At
  <1> QED BY <1>5, <1>7, <1>12, <1>17 DEF PartsFit

\* A chain of parts that match a place's matches the place.
LEMMA FitMatches ==
  ASSUME NEW url \in Seq(Chars), NEW name \in Seq(Chars), NEW us, NEW at, Chained(url, us, at),
         NEW vs, NEW AT, Joined(Slash \o name, vs, AT), PartsFit(us, vs)
  PROVE  IsMatchByName(url, name)
  <1>1. PICK path \in Seq(Chars) : path = Slash \o name /\ Len(path) = Len(name) + 1
    BY SlashFacts
  <1>2. PICK P, W : /\ Reads(P, W, url, path)
                    /\ IsMatchByName(url, name) <=> <<Len(url), Len(name) + 1>> \in P
    BY <1>1, Readings
  <1>4. Joined(path, vs, AT)
    BY <1>1
  <1>a. Laid(path, vs, AT)
    BY <1>4, JoinedFacts
  <1>5. PICK m \in Nat \ {0} : m = Len(vs)
    BY <1>a DEF Laid
  <1>6. /\ AT[1] = 1 /\ AT[m] + Len(vs[m]) = Len(path)
        /\ \A j \in 1..m :
              /\ vs[j] \in Words /\ AT[j] \in Nat /\ AT[j] > 0
              /\ path[AT[j]] = "/" /\ PartAt(path, AT[j], vs[j])
              /\ AT[j] + Len(vs[j]) \in 1..Len(path) /\ path[AT[j] + Len(vs[j])] # "/"
        /\ \A j \in 1..m : j # 1 => AT[j] - 1 = AT[j - 1] + Len(vs[j - 1])
    BY <1>5, <1>a DEF Laid
  <1>7. PICK n \in Nat \ {0} : n = Len(us)
    BY DEF Chained
  <1>8. /\ us \in Seq(Words) /\ at \in [1..n -> Nat]
        /\ \A k \in 1..n : PartAt(url, at[k], us[k])
        /\ \A k \in 1..n : at[k] = 0 \/ url[at[k]] = "/"
        /\ at[1] \in {0, 1}
        /\ at[n] + Len(us[n]) = Len(url)
        /\ \A k \in 1..(n - 1) : at[k + 1] = at[k] + Len(us[k]) + 1
    BY <1>7 DEF Chained
  <1>9. ASSUME NEW i \in 1..n, NEW j \in 1..m, PartMatches(us[i], vs[j]),
               at[i] = 0 \/ <<at[i] - 1, AT[j] - 1>> \in P
        PROVE  <<at[i] + Len(us[i]), AT[j] + Len(vs[j])>> \in P
    <2>1. PICK w \in Words : w = us[i]
      BY <1>7, <1>8
    <2>2. PICK v \in Words : v = vs[j]
      BY <1>6
    <2>3. PICK a \in Nat : a = at[i] /\ PartAt(url, a, w) /\ (a = 0 \/ url[a] = "/")
      BY <1>8, <2>1
    <2>4. PICK b \in Nat : b = AT[j] /\ b > 0 /\ path[b] = "/" /\ PartAt(path, b, v)
      BY <1>6, <2>2
    <2>5. <<a + Len(w), b + Len(v)>> \in P <=> PartMatches(w, v) /\ (a = 0 \/ <<a - 1, b - 1>> \in P)
      <3>1. Reads(P, W, url, path)
        BY <1>2
      <3>2. PartAt(url, a, w) /\ (a = 0 \/ url[a] = "/")
        BY <2>3
      <3>3. b > 0 /\ path[b] = "/" /\ PartAt(path, b, v)
        BY <2>4
      <3> QED BY <3>1, <3>2, <3>3, OnePart
    <2> QED BY <1>9, <2>1, <2>2, <2>3, <2>4, <2>5
  <1>10. \A k \in Nat : k < n /\ k < m => PartMatches(us[n - k], vs[m - k])
    BY <1>5, <1>7 DEF PartsFit
  <1>11. ASSUME NEW i \in 1..n, NEW j \in 1..m, i = 1 \/ j = 1
         PROVE  at[i] = 0 \/ <<at[i] - 1, AT[j] - 1>> \in P
    <2> SUFFICES ASSUME at[i] # 0 PROVE <<at[i] - 1, AT[j] - 1>> \in P
      OBVIOUS
    <2>1. PICK u \in 0..Len(url) : u = at[i] - 1 /\ at[i] \in 1..Len(url)
      <3>1. PICK a \in Nat : a = at[i] /\ PartAt(url, a, us[i])
        BY <1>8
      <3>2. PICK l \in Nat : l = Len(us[i])
        <4>1. us[i] \in Words
          BY <1>7, <1>8
        <4> QED BY <4>1, WordFacts
      <3>3. a + l <= Len(url)
        BY <3>1, <3>2 DEF PartAt
      <3>4. a - 1 \in 0..Len(url) /\ a \in 1..Len(url)
        BY <3>1, <3>3
      <3> QED BY <3>1, <3>4
    <2>2. PICK p \in 0..Len(path) : p = AT[j] - 1
      <3>1. PICK b \in Nat, l \in Nat : b = AT[j] /\ l = Len(vs[j])
        BY <1>6, WordFacts
      <3>2. b > 0 /\ b + l <= Len(path)
        BY <1>6, <3>1
      <3>3. b - 1 \in 0..Len(path)
        BY <3>1, <3>2, SMTT(20)
      <3> QED BY <3>1, <3>3
    <2>3. CASE j = 1
      <3>1. p = 0
        BY <1>6, <2>2, <2>3
      <3> QED BY <1>2, <2>1, <2>2, <3>1, ReadsFront
    <2>4. CASE i = 1
      <3>1. at[1] = 1
        BY <1>8, <2>4
      <3>2. u = 0 /\ url[1] = "/"
        <4>2. u = 0
          BY <2>1, <2>4, <3>1
        <4>3. 1 \in 1..n /\ at[1] # 0
          BY <3>1
        <4>4. url[1] = "/"
          BY <1>8, <3>1, <4>3
        <4> QED BY <4>2, <4>4
      <3> QED BY <1>2, <2>1, <2>2, <3>2, ReadsFront
    <2> QED BY <1>11, <2>3, <2>4
  <1> DEFINE At(k) == <<at[n - k] + Len(us[n - k]), AT[m - k] + Len(vs[m - k])>> \in P
  <1>12. PICK q \in Nat \ {0} : q <= n /\ q <= m /\ (q = n \/ q = m)
    <2>1. CASE n <= m
      <3>1. n <= n
        OBVIOUS
      <3> QED BY <2>1, <3>1
    <2>2. CASE m <= n
      <3>1. m <= m
        OBVIOUS
      <3> QED BY <2>2, <3>1
    <2> QED BY <2>1, <2>2
  <1> DEFINE T == {d \in 0..(q - 1) : At(q - 1 - d)}
  <1>13. 0 \in T
    <2>1. PICK k \in Nat, i \in 1..n, j \in 1..m :
            k = q - 1 /\ i = n - k /\ j = m - k /\ (i = 1 \/ j = 1) /\ k < n /\ k < m
                                                 /\ (q - 1) - 0 = k /\ 0 \in 0..(q - 1)
      <3>1. q - 1 \in Nat /\ n - (q - 1) \in 1..n /\ m - (q - 1) \in 1..m
        BY <1>12
      <3>2. n - (q - 1) = 1 \/ m - (q - 1) = 1
        BY <1>12
      <3>3. q - 1 < n /\ q - 1 < m /\ (q - 1) - 0 = q - 1 /\ 0 \in 0..(q - 1)
        BY <1>12
      <3> QED BY <3>1, <3>2, <3>3
    <2>2. PartMatches(us[i], vs[j])
      BY <1>10, <2>1
    <2>3. <<at[i] + Len(us[i]), AT[j] + Len(vs[j])>> \in P
      BY <1>9, <1>11, <2>1, <2>2
    <2> QED BY <2>1, <2>3
  <1>14. ASSUME NEW d \in 1..(q - 1), d - 1 \in T PROVE d \in T
    <2>1. PICK k \in Nat :
            k = q - 1 - d /\ q - 1 - (d - 1) = k + 1 /\ k + 1 < n /\ k + 1 < m /\ k < n /\ k < m
      <3>1. q - 1 - d \in Nat /\ q - 1 - (d - 1) = (q - 1 - d) + 1
        OBVIOUS
      <3>2. (q - 1 - d) + 1 < n /\ (q - 1 - d) + 1 < m
        BY <1>12, <3>1
      <3> QED BY <3>1, <3>2
    <2>2. PICK i \in 1..n, j \in 1..m : /\ i = n - k /\ j = m - k /\ i # 1 /\ j # 1
                                       /\ n - (k + 1) = i - 1 /\ m - (k + 1) = j - 1
                                       /\ i - 1 \in 1..(n - 1) /\ i - 1 \in 1..n /\ (i - 1) + 1 = i
      <3>1. n - k \in 1..n /\ m - k \in 1..m /\ n - k # 1 /\ m - k # 1
        BY <2>1
      <3>2. PICK i \in 1..n, j \in 1..m : i = n - k /\ j = m - k /\ i # 1 /\ j # 1
        BY <3>1
      <3>3. n - (k + 1) = i - 1 /\ m - (k + 1) = j - 1
        BY <3>2
      <3>4. i - 1 \in 1..(n - 1) /\ i - 1 \in 1..n /\ (i - 1) + 1 = i
        BY <3>2
      <3> QED BY <3>2, <3>3, <3>4
    <2>3. <<at[i - 1] + Len(us[i - 1]), AT[j - 1] + Len(vs[j - 1])>> \in P
      BY <1>14, <2>1, <2>2
    <2>4. at[i] - 1 = at[i - 1] + Len(us[i - 1])
      <3>1. PICK c \in Nat, l \in Nat : c = at[i - 1] /\ l = Len(us[i - 1])
        <4>1. PICK h \in 1..n : h = i - 1
          BY <2>2
        <4>2. us[h] \in Words
          BY <1>7, <1>8
        <4>3. at[h] \in Nat
          BY <1>8
        <4> QED BY <4>1, <4>2, <4>3, WordFacts
      <3>2. at[i] = c + l + 1
        BY <1>8, <2>2, <3>1
      <3> QED BY <3>1, <3>2
    <2>5. AT[j] - 1 = AT[j - 1] + Len(vs[j - 1])
      BY <1>6, <2>2
    <2>6. PartMatches(us[i], vs[j])
      BY <1>10, <2>1, <2>2
    <2>7. <<at[i] + Len(us[i]), AT[j] + Len(vs[j])>> \in P
      BY <1>9, <2>3, <2>4, <2>5, <2>6
    <2>8. d \in 0..(q - 1)
      OBVIOUS
    <2> QED BY <2>1, <2>2, <2>7, <2>8
  <1>15. At(0)
    <2>1. q - 1 \in Nat /\ q - 1 \in 0..(q - 1) /\ q - 1 - (q - 1) = 0
      OBVIOUS
    <2> HIDE DEF At
    <2>2. \A d \in 0..(q - 1) : d \in T
      <3> HIDE DEF T
      <3> QED BY <1>13, <1>14, <2>1, StepInduction
    <2>3. At(q - 1 - (q - 1))
      BY <2>1, <2>2
    <2> QED BY <2>1, <2>3
  <1>16. n - 0 = n /\ m - 0 = m
    OBVIOUS
  <1>17. <<Len(url), Len(path)>> \in P
    BY <1>6, <1>8, <1>15, <1>16
  <1> QED BY <1>1, <1>2, <1>17
-----------------------------------------------------------------------------
(* Without wildcards both ways of asking agree.                             *)

\* Without a wildcard a reading compares character by character.
LEMMA Diagonal ==
  ASSUME NEW url \in Seq(Chars), NEW path \in Seq(Chars), NEW P, NEW W, Reads(P, W, url, path),
         \A i \in 1..Len(url) : url[i] # "*",
         NEW u \in 0..Len(url), NEW p \in 0..Len(path), NEW n \in Nat, n <= u, n <= p
  PROVE  <<u, p>> \in P <=> (\A j \in 0..(n - 1) : url[u - j] = path[p - j]) /\ <<u - n, p - n>> \in P
  <1> DEFINE Same(k) == \A j \in 0..(k - 1) : url[u - j] = path[p - j]
             At(k) == <<u - k, p - k>> \in P
             T == {k \in 0..n : <<u, p>> \in P <=> Same(k) /\ At(k)}
  <1>1. Len(url) \in Nat /\ Len(path) \in Nat /\ u \in Nat /\ p \in Nat
    OBVIOUS
  <1>2. 0 \in T
    <2>1. 0..(0 - 1) = {} /\ u - 0 = u /\ p - 0 = p
      BY <1>1
    <2> QED BY <2>1
  <1>3. ASSUME NEW k \in 1..n PROVE Same(k) /\ At(k) <=> Same(k - 1) /\ At(k - 1)
    <2>1. PICK v \in 1..Len(url), q \in 1..Len(path) :
            v = u - (k - 1) /\ q = p - (k - 1) /\ v - 1 = u - k /\ q - 1 = p - k
      <3>1. u - (k - 1) \in 1..Len(url) /\ p - (k - 1) \in 1..Len(path)
        BY <1>1
      <3>2. (u - (k - 1)) - 1 = u - k /\ (p - (k - 1)) - 1 = p - k
        BY <1>1
      <3> QED BY <3>1, <3>2
    <2>2. Inside(P, W, v, q, url[v], path[q]) /\ url[v] # "*"
      BY ReadsInside
    <2>3. <<v, q>> \in P <=> url[v] = path[q] /\ <<v - 1, q - 1>> \in P
      BY <2>2 DEF Inside
    <2>4. At(k - 1) <=> url[v] = path[q] /\ At(k)
      BY <2>1, <2>3
    <2>5. Same(k) <=> Same(k - 1) /\ url[v] = path[q]
      <3>1. \A j \in 0..(k - 1) : j \in 0..((k - 1) - 1) \/ j = k - 1
        OBVIOUS
      <3>2. k - 1 \in 0..(k - 1) /\ \A j \in 0..((k - 1) - 1) : j \in 0..(k - 1)
        OBVIOUS
      <3> QED BY <2>1, <3>1, <3>2
    <2> HIDE DEF Same, At
    <2> QED BY <2>4, <2>5
  <1> HIDE DEF Same, At
  <1>4. \A k \in 0..n : k \in T
    <2>1. \A k \in 1..n : k - 1 \in T => k \in T
      BY <1>3
    <2> HIDE DEF T
    <2> QED BY <1>2, <2>1, StepInduction
  <1>5. n \in 0..n
    OBVIOUS
  <1>6. n \in T
    BY <1>4, <1>5
  <1> QED BY <1>6 DEF Same, At

\* What isEqualByName compares.
Compares(x, name, n) ==
  /\ n <= Len(x) /\ n <= Len(name) /\ (n = Len(x) \/ n = Len(name))
  /\ IsEqualByName(x, name) <=>
       /\ \A k \in 0..(n - 1) : x[Len(x) - k] = name[Len(name) - k]
       /\ n = Len(x) => Len(name) = n \/ name[Len(name) - n] = "/"
       /\ n # Len(x) => x[Len(x) - n] = "/"

\* It compares as many characters as the shorter of the two has.
LEMMA EqualCases ==
  ASSUME NEW x \in Seq(Chars), NEW name \in Seq(Chars)
  PROVE  \E n \in Nat : Compares(x, name, n)
  <1>1. Len(x) \in Nat /\ Len(name) \in Nat
    OBVIOUS
  <1>2. CASE Len(x) <= Len(name)
    <2>1. IsEqualByName(x, name) <=>
                /\ \A k \in 0..(Len(x) - 1) : x[Len(x) - k] = name[Len(name) - k]
                /\ Len(name) = Len(x) \/ name[Len(name) - Len(x)] = "/"
      BY <1>2 DEF IsEqualByName
    <2>2. Len(x) <= Len(x)
      BY <1>1
    <2>3. Compares(x, name, Len(x))
      BY <1>1, <1>2, <2>1, <2>2 DEF Compares
    <2> QED BY <1>1, <2>3
  <1>3. CASE ~(Len(x) <= Len(name))
    <2>1. Len(x) # Len(name)
      BY <1>1, <1>3
    <2>2. IsEqualByName(x, name) <=>
                /\ \A k \in 0..(Len(name) - 1) : x[Len(x) - k] = name[Len(name) - k]
                /\ x[Len(x) - Len(name)] = "/"
      BY <1>3, <2>1 DEF IsEqualByName
    <2>3. Len(name) <= Len(name) /\ Len(name) <= Len(x)
      BY <1>1, <1>3
    <2>4. Compares(x, name, Len(name))
      BY <1>1, <2>1, <2>2, <2>3 DEF Compares
    <2> QED BY <1>1, <2>4
  <1> QED BY <1>2, <1>3

\* Without wildcards both ways of asking agree, if the url has a "/" in front of it for the
\* second.
LEMMA EqualIsMatch ==
  ASSUME NEW x \in Seq(Chars), NEW name \in Seq(Chars), \A i \in 1..Len(x) : x[i] # "*"
  PROVE  IsEqualByName(x, name) <=> IsMatchByName(Slash \o x, name)
  <1>1. PICK a \in Nat, b \in Nat : a = Len(x) /\ b = Len(name)
    OBVIOUS
  <1>2. PICK y \in Seq(Chars) : y = Slash \o x /\ Len(y) = a + 1 /\ y[1] = "/"
                                /\ \A i \in 1..a : y[i + 1] = x[i]
    BY <1>1, SlashFacts
  <1>3. PICK path \in Seq(Chars) : path = Slash \o name /\ Len(path) = b + 1 /\ path[1] = "/"
                                   /\ \A i \in 1..b : path[i + 1] = name[i]
    BY <1>1, SlashFacts
  <1>4. PICK P, W : /\ Reads(P, W, y, path)
                    /\ IsMatchByName(y, name) <=> <<Len(y), b + 1>> \in P
    BY <1>1, <1>3, Readings
  <1>5. \A i \in 1..(a + 1) : y[i] # "*"
    <2> SUFFICES ASSUME NEW i \in 1..(a + 1), i # 1 PROVE y[i] # "*"
      BY <1>2
    <2>1. i - 1 \in 1..a /\ (i - 1) + 1 = i
      OBVIOUS
    <2>2. y[i] = x[i - 1]
      BY <1>2, <2>1
    <2> QED BY <1>1, <2>1, <2>2
  <1>6. PICK n \in Nat :
           /\ n <= a /\ n <= b /\ (n = a \/ n = b)
           /\ IsEqualByName(x, name) <=>
                /\ \A k \in 0..(n - 1) : x[a - k] = name[b - k]
                /\ n = a => b = n \/ name[b - n] = "/"
                /\ n # a => x[a - n] = "/"
    <2>1. PICK n \in Nat : Compares(x, name, n)
      BY <1>1, EqualCases
    <2> QED BY <1>1, <2>1 DEF Compares
  <1>7. PICK u \in 1..(a + 1), p \in 1..(b + 1) : u = (a + 1) - n /\ p = (b + 1) - n
    <2>1. (a + 1) - n \in 1..(a + 1) /\ (b + 1) - n \in 1..(b + 1)
      BY <1>6
    <2> QED BY <2>1
  <1>8. <<a + 1, b + 1>> \in P <=>
          (\A j \in 0..(n - 1) : y[(a + 1) - j] = path[(b + 1) - j]) /\ <<u, p>> \in P
    <2>1. a + 1 \in 0..Len(y) /\ b + 1 \in 0..Len(path) /\ n <= a + 1 /\ n <= b + 1
      BY <1>2, <1>3, <1>6
    <2>2. <<a + 1, b + 1>> \in P <=>
          (\A j \in 0..(n - 1) : y[(a + 1) - j] = path[(b + 1) - j]) /\ <<(a + 1) - n, (b + 1) - n>> \in P
      <3>1. Reads(P, W, y, path) /\ \A i \in 1..Len(y) : y[i] # "*"
        BY <1>2, <1>4, <1>5
      <3> QED BY <2>1, <3>1, Diagonal
    <2> QED BY <1>7, <2>2
  <1>9. (\A j \in 0..(n - 1) : y[(a + 1) - j] = path[(b + 1) - j])
          <=> \A k \in 0..(n - 1) : x[a - k] = name[b - k]
    <2>1. \A j \in 0..(n - 1) : /\ a - j \in 1..a /\ (a - j) + 1 = (a + 1) - j
                                /\ b - j \in 1..b /\ (b - j) + 1 = (b + 1) - j
      BY <1>6
    <2>2. \A j \in 0..(n - 1) : y[(a + 1) - j] = x[a - j] /\ path[(b + 1) - j] = name[b - j]
      BY <1>2, <1>3, <2>1
    <2> QED BY <2>2
  <1>10. <<u, p>> \in P <=> y[u] = path[p] /\ <<u - 1, p - 1>> \in P
    <2>1. u \in 1..Len(y) /\ p \in 1..Len(path)
      BY <1>2, <1>3
    <2>2. Inside(P, W, u, p, y[u], path[p])
      BY <1>4, <2>1, ReadsInside
    <2>3. y[u] # "*"
      BY <1>5
    <2> QED BY <2>2, <2>3 DEF Inside
  <1>11. <<u - 1, p - 1>> \in P
    <2>1. u - 1 \in 0..Len(y) /\ p - 1 \in 0..Len(path) /\ (u - 1 = 0 \/ p - 1 = 0)
      BY <1>2, <1>3, <1>6, <1>7
    <2> QED BY <1>2, <1>4, <2>1, ReadsFront
  <1>12. CASE n = a
    <2>1. y[u] = "/"
      <3>1. u = 1
        BY <1>7, <1>12
      <3> QED BY <1>2, <3>1
    <2>2. path[p] = "/" <=> b = n \/ name[b - n] = "/"
      <3>1. CASE b = n
        <4>1. p = 1
          BY <1>7, <3>1
        <4> QED BY <1>3, <3>1, <4>1
      <3>2. CASE b # n
        <4>1. b - n \in 1..b /\ p = (b - n) + 1
          BY <1>6, <1>7, <3>2
        <4> QED BY <1>3, <3>2, <4>1
      <3> QED BY <3>1, <3>2
    <2> QED BY <1>2, <1>4, <1>6, <1>8, <1>9, <1>10, <1>11, <1>12, <2>1, <2>2
  <1>13. CASE n # a
    <2>1. path[p] = "/"
      <3>1. p = 1
        BY <1>6, <1>7, <1>13
      <3> QED BY <1>3, <3>1
    <2>2. y[u] = x[a - n]
      <3>1. a - n \in 1..a /\ u = (a - n) + 1
        BY <1>6, <1>7, <1>13
      <3> QED BY <1>2, <3>1
    <2> QED BY <1>2, <1>4, <1>6, <1>8, <1>9, <1>10, <1>11, <1>13, <2>1, <2>2
  <1> QED BY <1>12, <1>13

\* What isEqualByName accepts, isMatchByName accepts.
LEMMA EqualMatches ==
  ASSUME NEW x \in Seq(Chars), NEW name \in Seq(Chars), \A i \in 1..Len(x) : x[i] # "*",
         IsEqualByName(x, name)
  PROVE  IsMatchByName(x, name)
  <1>1. PICK a \in Nat, b \in Nat : a = Len(x) /\ b = Len(name)
    OBVIOUS
  <1>3. PICK path \in Seq(Chars) : path = Slash \o name /\ Len(path) = b + 1 /\ path[1] = "/"
                                   /\ \A i \in 1..b : path[i + 1] = name[i]
    BY <1>1, SlashFacts
  <1>4. PICK P, W : /\ Reads(P, W, x, path)
                    /\ IsMatchByName(x, name) <=> <<a, b + 1>> \in P
    BY <1>1, <1>3, Readings
  <1>6. PICK n \in Nat :
           /\ n <= a /\ n <= b /\ (n = a \/ n = b)
           /\ \A k \in 0..(n - 1) : x[a - k] = name[b - k]
           /\ n = a => b = n \/ name[b - n] = "/"
           /\ n # a => x[a - n] = "/"
    <2>1. PICK n \in Nat :
           /\ n <= a /\ n <= b /\ (n = a \/ n = b)
           /\ IsEqualByName(x, name) <=>
                /\ \A k \in 0..(n - 1) : x[a - k] = name[b - k]
                /\ n = a => b = n \/ name[b - n] = "/"
                /\ n # a => x[a - n] = "/"
      <3>1. PICK n \in Nat : Compares(x, name, n)
        BY <1>1, EqualCases
      <3> QED BY <1>1, <3>1 DEF Compares
    <2> QED BY <2>1
  <1>7. PICK u \in 0..a, p \in 1..(b + 1) : u = a - n /\ p = (b + 1) - n
    <2>1. a - n \in 0..a /\ (b + 1) - n \in 1..(b + 1)
      BY <1>6
    <2> QED BY <2>1
  <1>8. <<a, b + 1>> \in P <=>
          (\A j \in 0..(n - 1) : x[a - j] = path[(b + 1) - j]) /\ <<u, p>> \in P
    <2>1. a \in 0..Len(x) /\ b + 1 \in 0..Len(path) /\ n <= a /\ n <= b + 1
      BY <1>1, <1>3, <1>6
    <2>2. <<a, b + 1>> \in P <=>
          (\A j \in 0..(n - 1) : x[a - j] = path[(b + 1) - j]) /\ <<a - n, (b + 1) - n>> \in P
      BY <1>4, <2>1, Diagonal
    <2> QED BY <1>7, <2>2
  <1>9. \A j \in 0..(n - 1) : x[a - j] = path[(b + 1) - j]
    <2>1. \A j \in 0..(n - 1) : b - j \in 1..b /\ (b - j) + 1 = (b + 1) - j
      BY <1>6
    <2>2. \A j \in 0..(n - 1) : path[(b + 1) - j] = name[b - j]
      BY <1>3, <2>1
    <2> QED BY <1>6, <2>2
  <1>10. <<u, p>> \in P
    <2>1. p \in 1..Len(path) /\ p \in 0..Len(path) /\ u \in 0..Len(x)
      BY <1>1, <1>3
    <2>2. CASE n = a
      <3>1. u = 0
        BY <1>7, <2>2
      <3>2. path[p] = "/"
        <4>1. CASE b = n
          <5>1. p = 1
            BY <1>7, <4>1
          <5> QED BY <1>3, <5>1
        <4>2. CASE b # n
          <5>1. b - n \in 1..b /\ p = (b - n) + 1
            BY <1>6, <1>7, <4>2
          <5> QED BY <1>3, <1>6, <2>2, <4>2, <5>1
        <4> QED BY <4>1, <4>2
      <3> QED BY <1>4, <2>1, <3>1, <3>2, ReadsFront
    <2>3. CASE n # a
      <3>1. p = 1 /\ u \in 1..Len(x) /\ u - 1 \in 0..Len(x) /\ p - 1 = 0 /\ 0 \in 0..Len(path)
        BY <1>1, <1>3, <1>6, <1>7, <2>3
      <3>2. x[u] = path[p]
        BY <1>3, <1>6, <1>7, <2>3, <3>1
      <3>3. Inside(P, W, u, p, x[u], path[p])
        BY <1>4, <2>1, <3>1, ReadsInside
      <3>4. <<u - 1, p - 1>> \in P
        BY <1>4, <3>1, ReadsFront
      <3> QED BY <3>2, <3>3, <3>4 DEF Inside
    <2> QED BY <2>2, <2>3
  <1> QED BY <1>4, <1>8, <1>9, <1>10

\* A part without a wildcard matches itself and nothing else.
LEMMA PlainPart ==
  ASSUME NEW w \in Words, NEW v \in Words, \A i \in 1..Len(w) : w[i] # "*"
  PROVE  PartMatches(w, v) <=> w = v
  <1>1. /\ w \in Seq(Chars) /\ v \in Seq(Chars)
        /\ Len(w) \in Nat \ {0} /\ Len(v) \in Nat \ {0}
        /\ \A i \in 1..Len(w) : w[i] # "/"
        /\ \A i \in 1..Len(v) : v[i] # "/"
    BY WordFacts
  <1>2. PartMatches(w, v) <=> IsEqualByName(w, v)
    BY <1>1, EqualIsMatch DEF PartMatches
  <1>3. PICK a \in Nat \ {0}, b \in Nat \ {0} : a = Len(w) /\ b = Len(v)
    BY <1>1
  <1>4. PICK n \in Nat :
           /\ n <= a /\ n <= b /\ (n = a \/ n = b)
           /\ IsEqualByName(w, v) <=>
                /\ \A k \in 0..(n - 1) : w[a - k] = v[b - k]
                /\ n = a => b = n \/ v[b - n] = "/"
                /\ n # a => w[a - n] = "/"
    <2>1. PICK n \in Nat : Compares(w, v, n)
      BY <1>1, EqualCases
    <2> QED BY <1>1, <1>3, <2>1 DEF Compares
  <1>5. ASSUME w = v PROVE IsEqualByName(w, v)
    <2>1. a = b /\ n = a /\ b = n
      BY <1>3, <1>4, <1>5
    <2>2. \A k \in 0..(n - 1) : w[a - k] = v[b - k]
      BY <1>5, <2>1
    <2> QED BY <1>4, <2>1, <2>2
  <1>6. ASSUME IsEqualByName(w, v) PROVE w = v
    <2>1. n = a
      <3> SUFFICES ASSUME n # a PROVE FALSE
        OBVIOUS
      <3>1. a - n \in 1..a
        BY <1>4
      <3> QED BY <1>1, <1>3, <1>4, <1>6, <3>1
    <2>2. n = b
      <3> SUFFICES ASSUME n # b PROVE FALSE
        OBVIOUS
      <3>1. b - n \in 1..b
        BY <1>4
      <3>2. v[b - n] = "/"
        BY <1>4, <1>6, <2>1
      <3> QED BY <1>1, <1>3, <3>1, <3>2
    <2>3. ASSUME NEW i \in 1..a PROVE w[i] = v[i]
      <3>1. a - i \in 0..(n - 1) /\ a - (a - i) = i /\ b - (a - i) = i
        BY <2>1, <2>2
      <3>2. w[a - (a - i)] = v[b - (a - i)]
        BY <1>4, <1>6, <3>1
      <3> QED BY <3>1, <3>2
    <2>4. Len(w) = Len(v) /\ \A i \in 1..Len(w) : w[i] = v[i]
      BY <1>3, <2>1, <2>2, <2>3
    <2> QED BY <1>1, <2>4
  <1> QED BY <1>2, <1>5, <1>6
-----------------------------------------------------------------------------
(* What the objects say and what a search finds.                            *)

\* The parent's name of a whole place, and the name.
LEMMA WholePlaces ==
  ASSUME PlacesAreWhole, NEW o \in Objects
  PROVE  /\ ParentName[o] \in Seq(Chars) /\ WholeParts(ParentName[o])
         /\ Name[o] \in Words
  <1>1. Name[o] \in Seq(Chars) /\ ParentName[o] \in Seq(Chars)
    BY ObjectAssumption
  <1>2. /\ WholeParts(ParentName[o]) /\ Name[o] # <<>>
        /\ \A i \in DOMAIN Name[o] : Name[o][i] # "/"
    BY DEF PlacesAreWhole
  <1>3. DOMAIN Name[o] = 1..Len(Name[o])
    BY <1>1
  <1> QED BY <1>1, <1>2, <1>3 DEF Words

\* What splitUrl returns are the parts of the url.
LEMMA UrlParts ==
  ASSUME NEW url \in Seq(Chars)
  PROVE  \E at : Split(url, Len(url), SplitUrl(url), at)
  <1>1. PICK us, at : Split(url, Len(url), us, at)
    BY SplitExists
  <1> QED BY <1>1, SplitIs

\* The parts of a url have no wildcard if it has none.
LEMMA PlainParts ==
  ASSUME NEW url \in Seq(Chars), ~HasWildcard(url), NEW us, NEW at, Split(url, Len(url), us, at)
  PROVE  /\ \A i \in 1..Len(url) : url[i] # "*"
         /\ \A k \in 1..Len(us) : us[k] \in Words /\ \A i \in 1..Len(us[k]) : us[k][i] # "*"
  <1>1. \A i \in 1..Len(url) : url[i] # "*"
    BY DEF HasWildcard
  <1>2. us \in Seq(Words) /\ at \in [1..Len(us) -> Nat] /\ \A k \in 1..Len(us) : PartAt(url, at[k], us[k])
    BY DEF Split
  <1>3. ASSUME NEW k \in 1..Len(us), NEW i \in 1..Len(us[k]) PROVE us[k][i] # "*"
    <2>1. PICK a \in Nat, w \in Words : a = at[k] /\ w = us[k]
      BY <1>2
    <2>2. PICK m \in Nat : m = Len(w)
      BY <2>1, WordFacts
    <2>3. a + m <= Len(url) /\ url[a + i] = w[i]
      BY <1>2, <2>1, <2>2 DEF PartAt
    <2>4. a + i \in 1..Len(url)
      BY <2>1, <2>2, <2>3, SMTT(20)
    <2> QED BY <1>1, <2>1, <2>3, <2>4
  <1> QED BY <1>1, <1>2, <1>3

\* A whole path with a "/" in front.
LEMMA WholeJoined ==
  ASSUME NEW name \in Seq(Chars), WholeParts(name)
  PROVE  \E at : Joined(Slash \o name, SplitUrl(name), at)
  <1>1. PICK at : Split(name, Len(name), SplitUrl(name), at)
    BY UrlParts
  <1>2. Chained(name, SplitUrl(name), at) /\ at[1] = 0
    BY <1>1, EndsChained DEF WholeParts
  <1> QED BY <1>2, SlashChained

\* The parts of a place.
LEMMA PlaceParts ==
  ASSUME PlacesAreWhole, NEW o \in Objects
  PROVE  /\ ParentName[o] \in Seq(Chars) /\ Name[o] \in Words /\ Place(o) \in Seq(Chars)
         /\ SplitUrl(ParentName[o]) \in Seq(Words)
         /\ \E at : Joined(Slash \o ParentName[o], SplitUrl(ParentName[o]), at)
         /\ \E at : Joined(Slash \o Place(o), Append(SplitUrl(ParentName[o]), Name[o]), at)
  <1>1. PICK t \in Seq(Chars), w \in Words : t = ParentName[o] /\ w = Name[o] /\ WholeParts(t)
    BY WholePlaces
  <1>2. PICK at : Joined(Slash \o t, SplitUrl(t), at)
    BY <1>1, WholeJoined
  <1>3. \E at2 : Joined(Slash \o (t \o Slash \o w), Append(SplitUrl(t), w), at2)
    BY <1>2, PlaceJoined
  <1>4. SplitUrl(t) \in Seq(Words)
    BY <1>2 DEF Joined, Chained
  <1>5. t \o Slash \o w \in Seq(Chars)
    <2>1. PICK s : s = Slash
      OBVIOUS
    <2>2. "/" \in Chars
      BY CharAssumption
    <2>3. s \in Seq(Chars) /\ w \in Seq(Chars)
      BY <2>1, <2>2, WordFacts DEF Slash
    <2> QED BY <2>1, <2>3, ConcatProperties
  <1> QED BY <1>1, <1>2, <1>3, <1>4, <1>5 DEF Place

\* All parts but the last.
LEMMA FrontFacts ==
  ASSUME NEW us \in Seq(Words), Len(us) > 1
  PROVE  /\ SubSeq(us, 1, Len(us) - 1) \in Seq(Words)
         /\ Len(SubSeq(us, 1, Len(us) - 1)) = Len(us) - 1
         /\ \A i \in 1..(Len(us) - 1) : SubSeq(us, 1, Len(us) - 1)[i] = us[i]
  <1>1. PICK n \in Nat : n = Len(us)
    OBVIOUS
  <1>2. 1 \in Int /\ n - 1 \in Int /\ 1 <= n - 1 /\ (n - 1) - 1 + 1 = n - 1
    BY <1>1
  <1>3. \A i \in 1..(n - 1) : us[i] \in Words /\ 1 + i - 1 = i
    BY <1>1
  <1> QED BY <1>1, <1>2, <1>3, SubSeqProperties

\* Parts match with one more if the last one does and those before do.
LEMMA FitsOneMore ==
  ASSUME NEW us \in Seq(Words), NEW ps \in Seq(Words), NEW w \in Words, Len(us) > 0
  PROVE  PartsFit(us, Append(ps, w)) <=>
           /\ PartMatches(us[Len(us)], w)
           /\ Len(us) > 1 => PartsFit(SubSeq(us, 1, Len(us) - 1), ps)
  <1>1. PICK n \in Nat \ {0}, m \in Nat : n = Len(us) /\ m = Len(ps)
    OBVIOUS
  <1>2. PICK vs : vs = Append(ps, w) /\ Len(vs) = m + 1 /\ vs[m + 1] = w
                  /\ \A k \in 1..m : vs[k] = ps[k]
    <2>1. Len(Append(ps, w)) = Len(ps) + 1 /\ Append(ps, w)[Len(ps) + 1] = w
      BY AppendProperties
    <2>2. \A k \in 1..Len(ps) : Append(ps, w)[k] = ps[k]
      BY AppendProperties
    <2> QED BY <1>1, <2>1, <2>2
  <1>3. PartsFit(us, vs) <=> \A k \in Nat : k < n /\ k < m + 1 => PartMatches(us[n - k], vs[(m + 1) - k])
    BY <1>1, <1>2 DEF PartsFit
  <1>4. ASSUME n = 1 PROVE PartsFit(us, vs) <=> PartMatches(us[n], w)
    <2>1. \A k \in Nat : k < n /\ k < m + 1 <=> k = 0
      BY <1>1, <1>4
    <2>2. n - 0 = n /\ (m + 1) - 0 = m + 1 /\ 0 \in Nat
      BY <1>1
    <2> QED BY <1>2, <1>3, <2>1, <2>2
  <1>5. ASSUME n > 1
        PROVE  PartsFit(us, vs) <=> PartMatches(us[n], w) /\ PartsFit(SubSeq(us, 1, Len(us) - 1), ps)
    <2>1. PICK f : /\ f = SubSeq(us, 1, Len(us) - 1) /\ Len(f) = n - 1
                   /\ \A i \in 1..(n - 1) : f[i] = us[i]
      BY <1>1, <1>5, FrontFacts
    <2>2. PartsFit(f, ps) <=> \A k \in Nat : k < n - 1 /\ k < m => PartMatches(f[(n - 1) - k], ps[m - k])
      BY <1>1, <2>1 DEF PartsFit
    <2>3. ASSUME NEW k \in Nat, k < n - 1, k < m
          PROVE  /\ k + 1 < n /\ k + 1 < m + 1 /\ k + 1 \in Nat
                 /\ f[(n - 1) - k] = us[n - (k + 1)] /\ ps[m - k] = vs[(m + 1) - (k + 1)]
      <3>1. /\ (n - 1) - k \in 1..(n - 1) /\ (n - 1) - k = n - (k + 1)
            /\ m - k \in 1..m /\ m - k = (m + 1) - (k + 1)
        BY <2>3
      <3>2. k + 1 < n /\ k + 1 < m + 1 /\ k + 1 \in Nat
        BY <2>3
      <3> QED BY <1>2, <2>1, <3>1, <3>2
    <2>4. n - 0 = n /\ (m + 1) - 0 = m + 1 /\ 0 \in Nat /\ 0 < n /\ 0 < m + 1
      BY <1>5
    <2>5. ASSUME PartsFit(us, vs) PROVE PartMatches(us[n], w) /\ PartsFit(f, ps)
      <3>1. PartMatches(us[n], w)
        BY <1>2, <1>3, <2>4, <2>5
      <3>2. ASSUME NEW k \in Nat, k < n - 1, k < m PROVE PartMatches(f[(n - 1) - k], ps[m - k])
        BY <1>3, <2>3, <2>5, <3>2
      <3> QED BY <2>2, <3>1, <3>2
    <2>6. ASSUME PartMatches(us[n], w), PartsFit(f, ps) PROVE PartsFit(us, vs)
      <3> SUFFICES ASSUME NEW k \in Nat, k < n, k < m + 1 PROVE PartMatches(us[n - k], vs[(m + 1) - k])
        BY <1>3
      <3>1. CASE k = 0
        BY <1>2, <2>4, <2>6, <3>1
      <3>2. CASE k # 0
        <4>1. PICK l \in Nat : l < n - 1 /\ l < m /\ k = l + 1
          <5>1. k - 1 \in Nat /\ k - 1 < n - 1 /\ k - 1 < m /\ k = (k - 1) + 1
            BY <3>2
          <5> QED BY <5>1
        <4>2. PartMatches(f[(n - 1) - l], ps[m - l])
          BY <2>2, <2>6, <4>1
        <4> QED BY <2>3, <4>1, <4>2
      <3> QED BY <3>1, <3>2
    <2> QED BY <2>1, <2>5, <2>6
  <1> QED BY <1>1, <1>2, <1>4, <1>5

\* What findObjects asks of an object that is there.
LEMMA FoundIs ==
  ASSUME PlacesAreWhole, known \subseteq Objects, NEW o \in known, NEW url \in Seq(Chars)
  PROVE  o \in FindObjects(url) <=>
           LET us == SplitUrl(url)
           IN /\ Len(us) > 0
              /\ PartMatches(us[Len(us)], Name[o])
              /\ Len(us) > 1 => IsMatchByName(JoinPath(SubSeq(us, 1, Len(us) - 1)), ParentName[o])
  <1>1. PICK us \in Seq(Words) : us = SplitUrl(url)
    BY UrlParts DEF Split
  <1>2. PICK w \in Words : w = Name[o]
    BY WholePlaces
  <1>3. CASE us = <<>>
    <2>1. FindObjects(url) = {}
      BY <1>1, <1>3, Zenon DEF FindObjects
    <2>2. ~(Len(us) > 0)
      BY <1>3
    <2> QED BY <1>1, <2>1, <2>2
  <1>4. CASE us # <<>>
    <2>1. Len(us) > 0 /\ Len(us) \in 1..Len(us)
      BY <1>4, EmptySeq
    <2>2. PICK v \in Words : v = us[Len(us)]
      BY <2>1
    <2>3. (IF HasWildcard(v) THEN IsMatchByName(Slash \o v, Name[o]) ELSE Name[o] = v) <=> PartMatches(v, w)
      <3>1. CASE HasWildcard(v)
        BY <1>2, <3>1 DEF PartMatches
      <3>2. CASE ~HasWildcard(v)
        <4>1. \A i \in 1..Len(v) : v[i] # "*"
          <5>1. DOMAIN v = 1..Len(v)
            BY WordFacts
          <5> QED BY <3>2, <5>1 DEF HasWildcard
        <4>2. PartMatches(v, w) <=> v = w
          BY <4>1, PlainPart
        <4> QED BY <1>2, <3>2, <4>2
      <3> QED BY <3>1, <3>2
    <2>4. o \in FindObjects(url) <=>
            /\ IF HasWildcard(v) THEN IsMatchByName(Slash \o v, Name[o]) ELSE Name[o] = v
            /\ Len(us) > 1 => IsMatchByName(JoinPath(SubSeq(us, 1, Len(us) - 1)), ParentName[o])
      BY <1>1, <1>4, <2>2, Zenon DEF FindObjects
    <2> QED BY <1>1, <1>2, <2>1, <2>2, <2>3, <2>4
  <1> QED BY <1>3, <1>4

\* The front parts as one path match the parent's name exactly if they match its parts.
LEMMA FrontMatches ==
  ASSUME NEW fs \in Seq(Words), Len(fs) > 0, NEW name \in Seq(Chars),
         NEW ps, NEW at, Joined(Slash \o name, ps, at)
  PROVE  IsMatchByName(JoinPath(fs), name) <=> PartsFit(fs, ps)
  <1>1. PICK t, at2 : t \in Seq(Chars) /\ t = JoinPath(fs) /\ Joined(t, fs, at2)
    BY JoinPathIs
  <1>2. Chained(t, fs, at2)
    BY <1>1 DEF Joined
  <1>3. Ends(t, fs, at2)
    BY <1>1, <1>2, ChainedEnds
  <1>4. t # <<>>
    <2>1. Len(fs) \in 1..Len(fs) /\ fs[Len(fs)] \in Words
      OBVIOUS
    <2>2. PICK a \in Nat, m \in Nat \ {0} : a = at2[Len(fs)] /\ m = Len(fs[Len(fs)])
      BY <1>2, <2>1, WordFacts DEF Chained
    <2>3. a + m = Len(t)
      BY <1>2, <2>2 DEF Chained
    <2>4. Len(t) > 0
      BY <2>2, <2>3
    <2>5. Len(<<>>) = 0
      OBVIOUS
    <2> QED BY <2>4, <2>5
  <1>5. IsMatchByName(t, name) => PartsFit(fs, ps)
    BY <1>1, <1>3, <1>4, MatchFits
  <1>6. PartsFit(fs, ps) => IsMatchByName(t, name)
    BY <1>1, <1>2, FitMatches
  <1> QED BY <1>1, <1>5, <1>6

\* A search finds what has matching parts.
LEMMA FoundFits ==
  ASSUME PlacesAreWhole, known \subseteq Objects, NEW o \in known, NEW url \in Seq(Chars)
  PROVE  o \in FindObjects(url) <=>
           Len(SplitUrl(url)) > 0 /\ PartsFit(SplitUrl(url), Append(SplitUrl(ParentName[o]), Name[o]))
  <1>1. PICK us \in Seq(Words) : us = SplitUrl(url)
    BY UrlParts DEF Split
  <1>2. o \in Objects
    OBVIOUS
  <1>3. PICK ps, at : ps \in Seq(Words) /\ ps = SplitUrl(ParentName[o]) /\ Joined(Slash \o ParentName[o], ps, at)
    BY <1>2, PlaceParts
  <1>4. PICK w \in Words : w = Name[o]
    BY <1>2, PlaceParts
  <1>5. PICK t \in Seq(Chars) : t = ParentName[o]
    BY <1>2, PlaceParts
  <1>6. o \in FindObjects(url) <=>
              /\ Len(us) > 0
              /\ PartMatches(us[Len(us)], w)
              /\ Len(us) > 1 => IsMatchByName(JoinPath(SubSeq(us, 1, Len(us) - 1)), t)
    BY <1>1, <1>4, <1>5, FoundIs
  <1>7. ASSUME Len(us) > 1
        PROVE  IsMatchByName(JoinPath(SubSeq(us, 1, Len(us) - 1)), t) <=>
                 PartsFit(SubSeq(us, 1, Len(us) - 1), ps)
    <2>1. PICK fs \in Seq(Words) : fs = SubSeq(us, 1, Len(us) - 1) /\ Len(fs) = Len(us) - 1
      BY <1>7, FrontFacts
    <2>2. Len(fs) > 0
      BY <1>7, <2>1
    <2> QED BY <1>3, <1>5, <2>1, <2>2, FrontMatches
  <1>8. Len(us) > 0 => (PartsFit(us, Append(ps, w)) <=>
           /\ PartMatches(us[Len(us)], w)
           /\ Len(us) > 1 => PartsFit(SubSeq(us, 1, Len(us) - 1), ps))
    BY <1>3, FitsOneMore
  <1> QED BY <1>1, <1>3, <1>4, <1>6, <1>7, <1>8

\* A url that matches the place of an object finds it.
LEMMA MatchFinds ==
  ASSUME PlacesAreWhole, known \subseteq Objects, NEW o \in known, NEW url \in Seq(Chars), url # <<>>,
         IsMatchByName(url, Place(o))
  PROVE  o \in FindObjects(url)
  <1>1. PICK at : Split(url, Len(url), SplitUrl(url), at)
    BY UrlParts
  <1>2. Ends(url, SplitUrl(url), at)
    BY <1>1, SplitEnds
  <1>3. PICK name \in Seq(Chars) : name = Place(o)
    BY PlaceParts
  <1>4. PICK vs, at2 : vs = Append(SplitUrl(ParentName[o]), Name[o]) /\ Joined(Slash \o name, vs, at2)
    BY <1>3, PlaceParts
  <1>5. Len(SplitUrl(url)) > 0 /\ PartsFit(SplitUrl(url), vs)
    BY <1>2, <1>3, <1>4, MatchFits
  <1> QED BY <1>4, <1>5, FoundFits

\* What a url means, it matches.
LEMMA MeansMatches ==
  ASSUME NEW url \in Seq(Chars), NEW o, Place(o) \in Seq(Chars), Means(url, o)
  PROVE  IsMatchByName(url, Place(o))
  <1>1. CASE HasWildcard(url)
    BY <1>1 DEF Means
  <1>2. CASE ~HasWildcard(url)
    <2>1. \A i \in 1..Len(url) : url[i] # "*"
      BY <1>2 DEF HasWildcard
    <2>2. IsEqualByName(url, Place(o))
      BY <1>2 DEF Means
    <2> QED BY <2>1, <2>2, EqualMatches
  <1> QED BY <1>1, <1>2

\* A search by a whole path finds only what the path means.
LEMMA FoundIsMeant ==
  ASSUME PlacesAreWhole, known \subseteq Objects, NEW o \in known, NEW url \in Seq(Chars),
         WholeParts(url), ~HasWildcard(url), o \in FindObjects(url)
  PROVE  Means(url, o)
  <1>1. PICK at : Joined(Slash \o url, SplitUrl(url), at)
    BY WholeJoined
  <1>2. PICK name \in Seq(Chars) : name = Place(o)
    BY PlaceParts
  <1>3. PICK vs, at2 : vs = Append(SplitUrl(ParentName[o]), Name[o]) /\ Joined(Slash \o name, vs, at2)
    BY <1>2, PlaceParts
  <1>4. PartsFit(SplitUrl(url), vs)
    BY <1>3, FoundFits
  <1>5. PICK t \in Seq(Chars) : t = Slash \o url
    BY SlashFacts
  <1>6. Chained(t, SplitUrl(url), at)
    BY <1>1, <1>5 DEF Joined
  <1>7. IsMatchByName(t, name)
    BY <1>3, <1>4, <1>6, FitMatches
  <1>8. \A i \in 1..Len(url) : url[i] # "*"
    BY DEF HasWildcard
  <1>9. IsEqualByName(url, name)
    BY <1>5, <1>7, <1>8, EqualIsMatch
  <1> QED BY <1>2, <1>9 DEF Means

\* SearchFinds, of every state.
LEMMA SearchIsRight ==
  ASSUME PlacesAreWhole, TypeOK
  PROVE  SearchFinds
  <1>1. known \subseteq Objects /\ hideModule \subseteq Urls /\ hiddenPaths \subseteq Paths
    BY DEF TypeOK
  <1>2. \A u \in hideModule \cup hiddenPaths : u \in Seq(Chars) /\ u # <<>>
    BY <1>1, UrlAssumption
  <1>3. ASSUME NEW o \in known, NEW u \in Seq(Chars), u # <<>>, Means(u, o)
        PROVE  o \in FindObjects(u)
    <2>1. Place(o) \in Seq(Chars)
      BY <1>1, PlaceParts
    <2>2. IsMatchByName(u, Place(o))
      BY <1>3, <2>1, MeansMatches
    <2> QED BY <1>1, <1>3, <2>2, MatchFinds
  <1>4. ASSUME NEW o \in known, NEW u \in hiddenPaths, o \in FindObjects(u)
        PROVE  Means(u, o)
    <2>1. u \in Seq(Chars) /\ WholeParts(u) /\ ~HasWildcard(u)
      BY <1>1, <1>2, PathAssumption
    <2> QED BY <1>1, <1>4, <2>1, FoundIsMeant
  <1> QED BY <1>2, <1>3, <1>4 DEF SearchFinds

\* A text that begins with a "/" is that and the rest.
LEMMA SlashTail ==
  ASSUME NEW y \in Seq(Chars), y # <<>>, y[1] = "/"
  PROVE  Tail(y) \in Seq(Chars) /\ y = Slash \o Tail(y)
  <1>0. /\ Tail(y) \in Seq(Chars) /\ Len(Tail(y)) = Len(y) - 1
        /\ \A i \in 1..Len(Tail(y)) : Tail(y)[i] = y[i + 1]
    <2>1. Tail(y) \in Seq(Chars)
      BY HeadTailProperties
    <2>2. Len(Tail(y)) = Len(y) - 1
      BY HeadTailProperties
    <2>3. \A i \in 1..Len(Tail(y)) : Tail(y)[i] = y[i + 1]
      BY HeadTailProperties
    <2> QED BY <2>1, <2>2, <2>3
  <1>1. PICK x \in Seq(Chars) : x = Tail(y) /\ Len(x) = Len(y) - 1
                                /\ \A i \in 1..Len(x) : x[i] = y[i + 1]
    <2>1. \E x \in Seq(Chars) : x = Tail(y)
      BY <1>0, Zenon
    <2> QED BY <1>0, <2>1
  <1>2. PICK n \in Nat : n = Len(x) /\ Len(y) = n + 1
    <2>1. Len(x) \in Nat /\ Len(y) \in Nat
      OBVIOUS
    <2>2. Len(x) = Len(y) - 1
      BY <1>1
    <2> QED BY <2>1, <2>2
  <1>3. PICK z \in Seq(Chars) : z = Slash \o x /\ Len(z) = n + 1 /\ z[1] = "/"
                                /\ \A i \in 1..n : z[i + 1] = x[i]
    BY <1>2, SlashFacts
  <1>4. ASSUME NEW i \in 1..(n + 1) PROVE z[i] = y[i]
    <2>1. CASE i = 1
      BY <1>3, <2>1
    <2>2. CASE i # 1
      <3>1. PICK j \in 1..n : i = j + 1
        <4>1. i - 1 \in 1..n /\ i = (i - 1) + 1
          BY <2>2
        <4> QED BY <4>1
      <3> QED BY <1>1, <1>2, <1>3, <3>1
    <2> QED BY <2>1, <2>2
  <1>5. z = y
    BY <1>2, <1>3, <1>4
  <1> QED BY <1>1, <1>3, <1>5

\* Parts without a wildcard, as one path without the "/" in front: no wildcard either.
LEMMA PlainPath ==
  ASSUME NEW fs \in Seq(Words), Len(fs) > 0,
         \A k \in 1..Len(fs) : \A i \in 1..Len(fs[k]) : fs[k][i] # "*"
  PROVE  LET x == Tail(JoinPath(fs))
         IN /\ x \in Seq(Chars) /\ JoinPath(fs) = Slash \o x
            /\ \A i \in 1..Len(x) : x[i] # "*"
  <1>1. PICK y, at : y \in Seq(Chars) /\ y = JoinPath(fs) /\ Joined(y, fs, at)
    BY JoinPathIs
  <1>2. Laid(y, fs, at)
    BY <1>1, JoinedFacts
  <1>3. 1 \in 1..Len(fs)
    OBVIOUS
  <1>4. y[1] = "/" /\ 1 + Len(fs[1]) \in 1..Len(y) /\ Len(fs[1]) \in Nat
    BY <1>2, <1>3, WordFacts DEF Laid
  <1>5. y # <<>>
    <2>1. Len(y) > 0
      BY <1>4
    <2>2. Len(<<>>) = 0
      OBVIOUS
    <2> QED BY <2>1, <2>2
  <1>6. PICK x \in Seq(Chars) : x = Tail(y) /\ y = Slash \o x
    BY <1>1, <1>4, <1>5, SlashTail
  <1>7. Joined(Slash \o x, fs, at)
    BY <1>1, <1>6
  <1>8. PICK at2 : Split(x, Len(x), fs, at2)
    BY <1>7, Unslash
  <1>9. ASSUME NEW i \in 1..Len(x) PROVE x[i] # "*"
    <2>1. "/" # "*"
      OBVIOUS
    <2> SUFFICES ASSUME x[i] # "/" PROVE x[i] # "*"
      BY <2>1
    <2>2. PICK k \in 1..Len(fs) : at2[k] < i /\ i <= at2[k] + Len(fs[k])
      BY <1>8 DEF Split
    <2>3. PICK a \in Nat : a = at2[k] /\ PartAt(x, a, fs[k])
      BY <1>8 DEF Split
    <2>4. PICK m \in Nat : m = Len(fs[k])
      BY WordFacts
    <2>5. PICK j \in 1..m : i = a + j
      <3>1. a < i /\ i <= a + m
        BY <2>2, <2>3, <2>4
      <3>2. i - a \in 1..m /\ i = a + (i - a)
        BY <3>1
      <3> QED BY <3>2
    <2>6. x[i] = fs[k][j]
      BY <2>3, <2>4, <2>5 DEF PartAt
    <2> QED BY <2>4, <2>6
  <1> QED BY <1>1, <1>6, <1>9

\* PagesFound, of every state.
LEMMA PagesAreFound ==
  ASSUME TypeOK
  PROVE  PagesFound
  <1> SUFFICES ASSUME NEW u \in hideModule, ~HasWildcard(u) PROVE Candidates(u) = FindObjects(u)
    BY DEF PagesFound
  <1>1. u \in Seq(Chars) /\ known \subseteq Objects
    BY UrlAssumption DEF TypeOK
  <1>2. PICK at : Split(u, Len(u), SplitUrl(u), at)
    BY <1>1, UrlParts
  <1>3. PICK us \in Seq(Words) : us = SplitUrl(u)
    BY <1>2 DEF Split
  <1>4. \A k \in 1..Len(us) : us[k] \in Words /\ \A i \in 1..Len(us[k]) : us[k][i] # "*"
    BY <1>1, <1>2, <1>3, PlainParts
  <1>5. CASE us = <<>>
    <2>1. FindObjects(u) = {}
      BY <1>3, <1>5, Zenon DEF FindObjects
    <2>2. Candidates(u) = {}
      BY <1>3, <1>5, Zenon DEF Candidates
    <2> QED BY <2>1, <2>2
  <1>6. CASE us # <<>>
    <2>1. Len(us) > 0 /\ Len(us) \in 1..Len(us)
      BY <1>6, EmptySeq
    <2>2. PICK v \in Words : v = us[Len(us)] /\ \A i \in 1..Len(v) : v[i] # "*"
      BY <1>4, <2>1
    <2>3. ~HasWildcard(v)
      <3>1. DOMAIN v = 1..Len(v)
        BY WordFacts
      <3> QED BY <2>2, <3>1 DEF HasWildcard
    <2>4. PICK path : path = JoinPath(SubSeq(us, 1, Len(us) - 1))
      OBVIOUS
    <2>5. FindObjects(u) =
            {o \in known : Name[o] = v /\ (Len(us) > 1 => IsMatchByName(path, ParentName[o]))}
      <3>1. FindObjects(u) = {o \in known :
               /\ IF HasWildcard(v) THEN IsMatchByName(Slash \o v, Name[o]) ELSE Name[o] = v
               /\ Len(us) > 1 => IsMatchByName(path, ParentName[o])}
        BY <1>3, <1>6, <2>2, <2>4, Zenon DEF FindObjects
      <3> QED BY <2>3, <3>1
    <2>6. Candidates(u) =
            {o \in known : Name[o] = v /\ (Len(us) > 1 => IsEqualByName(Tail(path), ParentName[o]))}
      <3>1. Candidates(u) = {o \in known :
               /\ us # <<>> /\ Name[o] = v
               /\ Len(us) > 1 => IsEqualByName(Tail(path), ParentName[o])}
        BY <1>3, <2>2, <2>4, Zenon DEF Candidates
      <3> QED BY <1>6, <3>1
    <2>7. ASSUME Len(us) > 1, NEW o \in known
          PROVE  IsMatchByName(path, ParentName[o]) <=> IsEqualByName(Tail(path), ParentName[o])
      <3>1. PICK fs \in Seq(Words) : /\ fs = SubSeq(us, 1, Len(us) - 1) /\ Len(fs) = Len(us) - 1
                                     /\ \A i \in 1..(Len(us) - 1) : fs[i] = us[i]
        BY <2>7, FrontFacts
      <3>2. Len(fs) > 0 /\ \A k \in 1..Len(fs) : k \in 1..Len(us) /\ fs[k] = us[k]
        BY <2>7, <3>1
      <3>3. \A k \in 1..Len(fs) : \A i \in 1..Len(fs[k]) : fs[k][i] # "*"
        BY <1>4, <3>2
      <3>4. PICK x \in Seq(Chars) : x = Tail(path) /\ path = Slash \o x
                                    /\ \A i \in 1..Len(x) : x[i] # "*"
        BY <2>4, <3>1, <3>2, <3>3, PlainPath
      <3>5. PICK name \in Seq(Chars) : name = ParentName[o]
        BY <1>1, ObjectAssumption
      <3>6. IsEqualByName(x, name) <=> IsMatchByName(Slash \o x, name)
        BY <3>4, EqualIsMatch
      <3> QED BY <3>4, <3>5, <3>6
    <2> QED BY <2>5, <2>6, <2>7
  <1> QED BY <1>5, <1>6

\* The parts of a place are those of the parent's name and the name.
LEMMA SplitPlace ==
  ASSUME PlacesAreWhole, NEW o \in Objects
  PROVE  /\ SplitUrl(Place(o)) = Append(SplitUrl(ParentName[o]), Name[o])
         /\ \E at : Joined(Slash \o Place(o), SplitUrl(Place(o)), at)
  <1>1. PICK x, vs, at : x \in Seq(Chars) /\ x = Place(o) /\ vs = Append(SplitUrl(ParentName[o]), Name[o])
                                       /\ Joined(Slash \o x, vs, at)
    BY PlaceParts
  <1>2. \E at2 : Split(x, Len(x), vs, at2)
    BY <1>1, Unslash
  <1>3. SplitUrl(x) = vs
    BY <1>1, <1>2, SplitIs
  <1> QED BY <1>1, <1>3

\* What the recursion of Glob computes.
Reached(R, w, v) ==
  /\ R \in [0..Len(w) -> SUBSET (0..Len(v))]
  /\ R[0] = {0}
  /\ \A i \in 1..Len(w) :
       /\ w[i] = "*" => R[i] = {k \in 0..Len(v) : \E j \in R[i - 1] : j <= k}
       /\ w[i] # "*" => R[i] = {k \in 1..Len(v) : k - 1 \in R[i - 1] /\ v[k] = w[i]}

\* Glob computes it.
LEMMA GlobReaches ==
  ASSUME NEW w \in Seq(Chars), NEW v \in Seq(Chars)
  PROVE  \E R : Reached(R, w, v) /\ (Glob(w, v) <=> Len(v) \in R[Len(w)])
  <1>1. PICK n \in Nat, l \in Nat : n = Len(w) /\ l = Len(v)
    OBVIOUS
  <1> DEFINE Step(before, i) == IF w[i] = "*" THEN {k \in 0..l : \E j \in before : j <= k}
                                ELSE {k \in 1..l : k - 1 \in before /\ v[k] = w[i]}
             Eq(f) == f = [i \in 0..n |-> IF i = 0 THEN {0} ELSE Step(f[i - 1], i)]
  <1>2. Glob(w, v) <=> l \in (CHOOSE f : Eq(f))[n]
    BY <1>1, Zenon DEF Glob
  <1>3. \E f : Eq(f)
    <2> DEFINE X == SUBSET (0..l)
               G == [d \in 1..n |-> [b \in X |-> Step(b, d)]]
               A == {0}
    <2>1. \A d \in 1..n : \A b \in X : G[d][b] = Step(b, d) /\ Step(b, d) \in X
      OBVIOUS
    <2>2. G \in [1..n -> [X -> X]] /\ A \in X
      BY <2>1
    <2> HIDE DEF X, G, A, Step
    <2>3. PICK F \in [0..n -> X] : Follows(F, n, A, G)
      BY <2>2, RecursionExists
    <2>4. \A d \in 1..n : F[d] = Step(F[d - 1], d)
      <3>1. \A d \in 1..n : d - 1 \in 0..n /\ F[d - 1] \in X
        OBVIOUS
      <3> QED BY <2>1, <2>3, <3>1 DEF Follows
    <2>5. F[0] = {0}
      BY <2>3 DEF Follows, A
    <2>6. \A i \in 0..n : F[i] = IF i = 0 THEN {0} ELSE Step(F[i - 1], i)
      <3>1. \A i \in 0..n : i = 0 \/ i \in 1..n
        OBVIOUS
      <3> QED BY <2>4, <2>5, <3>1
    <2>7. F = [i \in 0..n |-> F[i]]
      OBVIOUS
    <2>8. Eq(F)
      BY <2>6, <2>7
    <2> QED BY <2>8
  <1> DEFINE R == CHOOSE f : Eq(f)
  <1>4. Eq(R)
    BY <1>3
  <1> HIDE DEF R
  <1>5. R[0] = {0} /\ \A i \in 1..n : R[i] = Step(R[i - 1], i)
    <2>1. 0 \in 0..n /\ \A i \in 1..n : i \in 0..n /\ i # 0
      OBVIOUS
    <2> HIDE DEF Step
    <2>2. \A i \in 0..n : R[i] = IF i = 0 THEN {0} ELSE Step(R[i - 1], i)
      BY <1>4
    <2> QED BY <2>1, <2>2
  <1>6. R \in [0..n -> SUBSET (0..l)]
    <2>1. \A i \in 0..n : R[i] \in SUBSET (0..l)
      <3>1. \A i \in 0..n : i = 0 \/ i \in 1..n
        OBVIOUS
      <3>2. \A before, i : Step(before, i) \subseteq 0..l
        OBVIOUS
      <3>3. {0} \subseteq 0..l
        OBVIOUS
      <3> HIDE DEF Step
      <3>4. \A i \in 0..n : R[i] \subseteq 0..l
        BY <1>5, <3>1, <3>2, <3>3
      <3> QED BY <3>4
    <2> HIDE DEF Step
    <2>2. R = [i \in 0..n |-> R[i]]
      BY <1>4
    <2> QED BY <2>1, <2>2
  <1>7. Reached(R, w, v)
    BY <1>1, <1>5, <1>6 DEF Reached
  <1> QED BY <1>1, <1>2, <1>7 DEF R

\* A part that is matched is one that the pattern allows.
LEMMA MatchIsGlob ==
  ASSUME NEW w \in Words, NEW v \in Words, PartMatches(w, v)
  PROVE  Glob(w, v)
  <1>1. /\ w \in Seq(Chars) /\ v \in Seq(Chars)
        /\ \A i \in 1..Len(w) : w[i] # "/"
        /\ \A i \in 1..Len(v) : v[i] # "/"
    BY WordFacts
  <1>2. PICK n \in Nat, l \in Nat : n = Len(w) /\ l = Len(v)
    BY <1>1
  <1>3. PICK R : Reached(R, w, v) /\ (Glob(w, v) <=> l \in R[n])
    BY <1>1, <1>2, GlobReaches
  <1>4. /\ R[0] = {0} /\ \A i \in 0..n : R[i] \in SUBSET (0..l)
        /\ \A i \in 1..n : w[i] = "*" => R[i] = {k \in 0..l : \E j \in R[i - 1] : j <= k}
        /\ \A i \in 1..n : w[i] # "*" => R[i] = {k \in 1..l : k - 1 \in R[i - 1] /\ v[k] = w[i]}
    BY <1>2, <1>3 DEF Reached
  <1>5. PICK y \in Seq(Chars) : y = Slash \o w /\ Len(y) = n + 1 /\ y[1] = "/"
                                /\ \A i \in 1..n : y[i + 1] = w[i]
    BY <1>1, <1>2, SlashFacts
  <1>6. PICK path \in Seq(Chars) : path = Slash \o v /\ Len(path) = l + 1 /\ path[1] = "/"
                                   /\ \A i \in 1..l : path[i + 1] = v[i]
    BY <1>1, <1>2, SlashFacts
  <1>7. PICK P, W : /\ Reads(P, W, y, path)
                    /\ IsMatchByName(y, v) <=> <<n + 1, l + 1>> \in P
    BY <1>1, <1>2, <1>5, <1>6, Readings
  <1>8. "/" # "*"
    OBVIOUS
  <1>9. ASSUME NEW i \in 0..n, NEW j \in 0..l
        PROVE  Inside(P, W, i + 1, j + 1, y[i + 1], path[j + 1])
    <2>1. i + 1 \in 1..Len(y) /\ j + 1 \in 1..Len(path)
      BY <1>5, <1>6
    <2> QED BY <1>7, <2>1, ReadsInside
  <1> DEFINE Good(i, j) == /\ <<i + 1, j + 1>> \in P => j \in R[i]
                           /\ <<i + 1, j + 1>> \in W => \E k \in R[i] : k <= j
  <1>10. Good(0, 0)
    BY <1>4
  <1>11. ASSUME NEW j \in 1..l PROVE Good(0, j)
    <2>1. Inside(P, W, 0 + 1, j + 1, "/", v[j]) /\ v[j] # "/"
      <3>0. 0 \in 0..n /\ j \in 0..l
        OBVIOUS
      <3>1. Inside(P, W, 0 + 1, j + 1, y[0 + 1], path[j + 1])
        BY <1>9, <3>0
      <3>2. y[0 + 1] = "/"
        BY <1>5
      <3> QED BY <1>1, <1>2, <1>6, <3>1, <3>2
    <2>2. <<0 + 1, j + 1>> \notin P
      BY <1>8, <2>1 DEF Inside
    <2>3. 0 \in R[0] /\ 0 <= j
      BY <1>4
    <2> QED BY <2>2, <2>3
  <1>12. ASSUME NEW i \in 1..n, Good(i - 1, 0) PROVE Good(i, 0)
    <2>1. Inside(P, W, i + 1, 1, w[i], "/") /\ w[i] # "/"
      <3>0. i \in 0..n /\ 0 \in 0..l
        OBVIOUS
      <3>1. Inside(P, W, i + 1, 0 + 1, y[i + 1], path[0 + 1])
        BY <1>9, <3>0
      <3> QED BY <1>1, <1>2, <1>5, <1>6, <3>1
    <2>2. PICK u \in Nat : u = i + 1 /\ u - 1 = (i - 1) + 1
      OBVIOUS
    <2>3. CASE w[i] = "*"
      <3>1. /\ <<u, 1>> \in P <=> <<u - 1, 1>> \in W
            /\ <<u, 1>> \in W <=> <<u - 1, 1>> \in W
        BY <1>8, <2>1, <2>2, <2>3 DEF Inside
      <3>2. <<u - 1, 1>> \in W => \E k \in R[i - 1] : k <= 0
        BY <1>12, <2>2
      <3>3. <<u - 1, 1>> \in W => 0 \in R[i] /\ 0 <= 0
        BY <1>4, <2>3, <3>2
      <3> QED BY <2>2, <3>1, <3>3
    <2>4. CASE w[i] # "*"
      <3>1. <<u, 1>> \notin P /\ <<u, 1>> \notin W
        BY <2>1, <2>2, <2>4 DEF Inside
      <3> QED BY <2>2, <3>1
    <2> QED BY <2>3, <2>4
  <1>13. ASSUME NEW i \in 1..n, NEW j \in 1..l, Good(i - 1, j - 1), Good(i - 1, j), Good(i, j - 1)
         PROVE  Good(i, j)
    <2>1. Inside(P, W, i + 1, j + 1, w[i], v[j]) /\ w[i] # "/" /\ v[j] # "/"
      <3>0. i \in 0..n /\ j \in 0..l
        OBVIOUS
      <3>1. Inside(P, W, i + 1, j + 1, y[i + 1], path[j + 1])
        BY <1>9, <3>0
      <3> QED BY <1>1, <1>2, <1>5, <1>6, <3>1
    <2>2. PICK u \in Nat, p \in Nat : u = i + 1 /\ u - 1 = (i - 1) + 1 /\ p = j + 1 /\ p - 1 = (j - 1) + 1
      OBVIOUS
    <2>3. /\ <<u - 1, p - 1>> \in P => j - 1 \in R[i - 1]
          /\ <<u - 1, p>> \in W => \E k \in R[i - 1] : k <= j
          /\ <<u, p - 1>> \in W => \E k \in R[i] : k <= j - 1
      BY <1>13, <2>2
    <2>4. j \in 0..l /\ j - 1 <= j /\ j <= j /\ \A k \in 0..l : k <= j - 1 => k <= j
      OBVIOUS
    <2>5. CASE w[i] = v[j]
      <3>1. /\ <<u, p>> \in P <=> <<u - 1, p - 1>> \in P
            /\ <<u, p>> \in W <=> <<u - 1, p - 1>> \in P
        BY <2>1, <2>2, <2>5 DEF Inside
      <3>2. ASSUME j - 1 \in R[i - 1] PROVE j \in R[i]
        <4>1. CASE w[i] = "*"
          BY <1>4, <2>4, <3>2, <4>1
        <4>2. CASE w[i] # "*"
          BY <1>4, <2>5, <3>2, <4>2
        <4> QED BY <4>1, <4>2
      <3> QED BY <2>2, <2>3, <2>4, <3>1, <3>2
    <2>6. CASE w[i] # v[j] /\ w[i] = "*"
      <3>1. /\ <<u, p>> \in P <=> <<u - 1, p>> \in W
            /\ <<u, p>> \in W <=> <<u - 1, p>> \in W
        BY <2>1, <2>2, <2>6 DEF Inside
      <3>2. ASSUME \E k \in R[i - 1] : k <= j PROVE j \in R[i]
        <4>1. R[i] = {k \in 0..l : \E x \in R[i - 1] : x <= k}
          BY <1>4, <2>6
        <4> QED BY <2>4, <3>2, <4>1
      <3> QED BY <2>2, <2>3, <2>4, <3>1, <3>2
    <2>7. CASE w[i] # v[j] /\ w[i] # "*"
      <3>1. /\ <<u, p>> \notin P
            /\ <<u, p>> \in W => <<u, p - 1>> \in W
        BY <2>1, <2>2, <2>7 DEF Inside
      <3>2. R[i] \in SUBSET (0..l)
        BY <1>4
      <3> QED BY <2>2, <2>3, <2>4, <3>1, <3>2
    <2> QED BY <2>5, <2>6, <2>7
  <1> HIDE DEF Good
  <1> DEFINE Upto(d) == \A i \in 0..n, j \in 0..l : i + j <= d => Good(i, j)
             T == {d \in Nat : Upto(d)}
  <1>14. 0 \in T
    <2>1. \A i \in 0..n, j \in 0..l : i + j <= 0 => i = 0 /\ j = 0
      OBVIOUS
    <2> QED BY <1>10, <2>1
  <1>15. ASSUME NEW d \in T PROVE d + 1 \in T
    <2> SUFFICES ASSUME NEW i \in 0..n, NEW j \in 0..l, i + j <= d + 1 PROVE Good(i, j)
      OBVIOUS
    <2>1. d \in Nat /\ Upto(d)
      OBVIOUS
    <2>2. CASE i = 0 /\ j = 0
      BY <1>10, <2>2
    <2>3. CASE i = 0 /\ j # 0
      <3>1. j \in 1..l
        BY <2>3
      <3> QED BY <1>11, <2>3, <3>1
    <2>4. CASE i # 0 /\ j = 0
      <3>1. i \in 1..n /\ i - 1 \in 0..n /\ 0 \in 0..l /\ (i - 1) + 0 <= d
        BY <2>1, <2>4
      <3> QED BY <1>12, <2>1, <2>4, <3>1
    <2>5. CASE i # 0 /\ j # 0
      <3>1. /\ i \in 1..n /\ i - 1 \in 0..n /\ j \in 1..l /\ j - 1 \in 0..l
            /\ (i - 1) + (j - 1) <= d /\ (i - 1) + j <= d /\ i + (j - 1) <= d
        BY <2>1, <2>5
      <3>2. Good(i - 1, j - 1) /\ Good(i - 1, j) /\ Good(i, j - 1)
        BY <2>1, <3>1
      <3> QED BY <1>13, <3>1, <3>2
    <2> QED BY <2>2, <2>3, <2>4, <2>5
  <1>16. \A d \in Nat : Upto(d)
    <2>1. T \subseteq Nat
      OBVIOUS
    <2> HIDE DEF T
    <2>2. \A d \in Nat : d \in T
      BY <1>14, <1>15, <2>1, NatSetInduction
    <2> QED BY <2>2 DEF T
  <1>17. Good(n, l)
    <2>1. n + l \in Nat /\ n + l <= n + l /\ n \in 0..n /\ l \in 0..l
      OBVIOUS
    <2> QED BY <1>16, <2>1
  <1>18. <<n + 1, l + 1>> \in P
    BY <1>5, <1>7 DEF PartMatches
  <1> QED BY <1>3, <1>17, <1>18 DEF Good

\* A pattern without wildcards allows itself only.
LEMMA GlobPlain ==
  ASSUME NEW w \in Seq(Chars), NEW v \in Seq(Chars), \A i \in 1..Len(w) : w[i] # "*", Glob(w, v)
  PROVE  w = v
  <1>1. PICK n \in Nat, l \in Nat : n = Len(w) /\ l = Len(v)
    OBVIOUS
  <1>2. PICK R : Reached(R, w, v) /\ l \in R[n]
    BY <1>1, GlobReaches
  <1>3. R[0] = {0} /\ \A i \in 1..n : R[i] = {k \in 1..l : k - 1 \in R[i - 1] /\ v[k] = w[i]}
    BY <1>1, <1>2 DEF Reached
  <1> DEFINE Same(i) == \A k \in R[i] : k = i /\ \A j \in 1..i : v[j] = w[j]
             T == {i \in Nat : i <= n => Same(i)}
  <1>4. 0 \in T
    <2>1. \A j \in 1..0 : FALSE
      OBVIOUS
    <2> QED BY <1>3, <2>1
  <1>5. ASSUME NEW i \in T PROVE i + 1 \in T
    <2>1. i \in Nat /\ (i <= n => Same(i))
      OBVIOUS
    <2> SUFFICES ASSUME i + 1 <= n, NEW k \in R[i + 1] PROVE k = i + 1 /\ \A j \in 1..(i + 1) : v[j] = w[j]
      BY <2>1
    <2>2. i <= n /\ i + 1 \in 1..n /\ (i + 1) - 1 = i
      BY <2>1
    <2>3. k \in 1..l /\ k - 1 \in R[i] /\ v[k] = w[i + 1]
      BY <1>3, <2>2
    <2>4. k - 1 = i /\ \A j \in 1..i : v[j] = w[j]
      BY <2>1, <2>2, <2>3
    <2>5. k = i + 1 /\ \A j \in 1..(i + 1) : j \in 1..i \/ j = k
      BY <2>1, <2>3, <2>4
    <2> QED BY <2>3, <2>4, <2>5
  <1>6. Same(n)
    <2>1. T \subseteq Nat /\ n <= n
      OBVIOUS
    <2> HIDE DEF T
    <2>2. \A i \in Nat : i \in T
      BY <1>4, <1>5, <2>1, NatSetInduction
    <2> QED BY <2>1, <2>2 DEF T
  <1>7. l = n /\ \A j \in 1..n : v[j] = w[j]
    BY <1>2, <1>6
  <1>8. Len(w) = Len(v) /\ \A j \in 1..Len(w) : w[j] = v[j]
    BY <1>1, <1>7
  <1>9. w = [j \in 1..Len(w) |-> w[j]] /\ v = [j \in 1..Len(v) |-> v[j]]
    OBVIOUS
  <1> QED BY <1>8, <1>9

\* A wildcard alone matches every part, unless that has one itself.
LEMMA StarMatches ==
  ASSUME NEW v \in Words, \A i \in 1..Len(v) : v[i] # "*"
  PROVE  PartMatches(<<"*">>, v)
  <1>1. PICK s \in Seq(Chars) : s = <<"*">> /\ Len(s) = 1 /\ s[1] = "*"
    <2>1. "*" \in Chars
      BY CharAssumption
    <2>2. <<"*">> \in Seq(Chars) /\ Len(<<"*">>) = 1 /\ <<"*">>[1] = "*"
      BY <2>1
    <2> QED BY <2>2
  <1>2. v \in Seq(Chars) /\ \A i \in 1..Len(v) : v[i] # "/"
    BY WordFacts
  <1>3. PICK l \in Nat \ {0} : l = Len(v)
    BY WordFacts
  <1>4. PICK y \in Seq(Chars) : y = Slash \o s /\ Len(y) = 2 /\ y[1] = "/" /\ y[2] = "*"
    <2>1. /\ Slash \o s \in Seq(Chars) /\ Len(Slash \o s) = Len(s) + 1 /\ (Slash \o s)[1] = "/"
          /\ \A i \in 1..Len(s) : (Slash \o s)[i + 1] = s[i]
      BY SlashFacts
    <2>2. 1 \in 1..Len(s) /\ 1 + 1 = 2
      BY <1>1
    <2>3. (Slash \o s)[2] = "*"
      BY <1>1, <2>1, <2>2
    <2>4. Len(Slash \o s) = 2
      BY <1>1, <2>1
    <2> QED BY <2>1, <2>3, <2>4
  <1>5. PICK path \in Seq(Chars) : path = Slash \o v /\ Len(path) = l + 1 /\ path[1] = "/"
                                   /\ \A i \in 1..l : path[i + 1] = v[i]
    BY <1>2, <1>3, SlashFacts
  <1>6. PICK P, W : /\ Reads(P, W, y, path)
                    /\ IsMatchByName(y, v) <=> <<2, l + 1>> \in P
    BY <1>2, <1>3, <1>4, <1>5, Readings
  <1>7. "/" # "*"
    OBVIOUS
  <1>8. <<1, 1>> \in W
    <2>1. 0 \in 0..Len(y) /\ 0 \in 0..Len(path) /\ 1 \in 1..Len(y) /\ 1 \in 1..Len(path) /\ 1 - 1 = 0
      BY <1>4, <1>5
    <2>2. <<0, 0>> \in P
      BY <1>6, <2>1, ReadsFront
    <2>3. Inside(P, W, 1, 1, y[1], path[1])
      BY <1>6, <2>1, ReadsInside
    <2>4. Inside(P, W, 1, 1, "/", "/")
      BY <1>4, <1>5, <2>3
    <2> QED BY <2>1, <2>2, <2>4 DEF Inside
  <1> DEFINE T == {j \in Nat : j <= l => <<1, j + 1>> \in W}
  <1>9. 0 \in T
    BY <1>8
  <1>10. ASSUME NEW j \in T PROVE j + 1 \in T
    <2>1. j \in Nat /\ (j <= l => <<1, j + 1>> \in W)
      OBVIOUS
    <2> SUFFICES ASSUME j + 1 <= l PROVE <<1, (j + 1) + 1>> \in W
      BY <2>1
    <2>2. PICK p \in 1..Len(path) : p = (j + 1) + 1 /\ p - 1 = j + 1 /\ path[p] = v[j + 1] /\ v[j + 1] # "/"
      <3>1. j + 1 \in 1..l
        BY <2>1
      <3>2. path[(j + 1) + 1] = v[j + 1] /\ v[j + 1] # "/"
        BY <1>2, <1>3, <1>5, <3>1
      <3>3. (j + 1) + 1 \in 1..Len(path) /\ ((j + 1) + 1) - 1 = j + 1
        BY <1>5, <2>1
      <3> QED BY <3>2, <3>3
    <2>3. 1 \in 1..Len(y)
      BY <1>4
    <2>4. Inside(P, W, 1, p, y[1], path[p])
      BY <1>6, <2>3, ReadsInside
    <2>5. Inside(P, W, 1, p, "/", v[j + 1])
      BY <1>4, <2>2, <2>4
    <2>6. <<1, p - 1>> \in W
      BY <2>1, <2>2
    <2>7. <<1, p>> \in W
      BY <1>7, <2>2, <2>5, <2>6 DEF Inside
    <2> QED BY <2>2, <2>7
  <1>11. <<1, l + 1>> \in W
    <2>1. T \subseteq Nat /\ l <= l
      OBVIOUS
    <2> HIDE DEF T
    <2>2. \A j \in Nat : j \in T
      BY <1>9, <1>10, <2>1, NatSetInduction
    <2> QED BY <2>1, <2>2 DEF T
  <1>12. <<2, l + 1>> \in P
    <2>1. 2 \in 1..Len(y) /\ l + 1 \in 1..Len(path) /\ l \in 1..l /\ 2 - 1 = 1
      BY <1>3, <1>4, <1>5
    <2>2. Inside(P, W, 2, l + 1, y[2], path[l + 1])
      BY <1>6, <2>1, ReadsInside
    <2>3. path[l + 1] = v[l] /\ v[l] # "*"
      BY <1>3, <1>5, <2>1
    <2>4. Inside(P, W, 2, l + 1, "*", v[l]) /\ v[l] # "*"
      BY <1>4, <2>2, <2>3
    <2>5. <<2, l + 1>> \in P <=> <<2 - 1, l + 1>> \in W
      BY <2>4 DEF Inside
    <2> QED BY <1>11, <2>1, <2>5
  <1> QED BY <1>1, <1>4, <1>6, <1>12 DEF PartMatches

\* Text of a configuration, and how an object's place is read.
LEMMA PlaceWords ==
  ASSUME PlacesAreWhole, NEW o \in Objects
  PROVE  /\ Place(o) \in Seq(Chars) /\ SplitUrl(Place(o)) \in Seq(Words)
         /\ \E at : Joined(Slash \o Place(o), SplitUrl(Place(o)), at)
         /\ \E at : Split(Place(o), Len(Place(o)), SplitUrl(Place(o)), at)
  <1>1. Place(o) \in Seq(Chars)
    BY PlaceParts
  <1>2. \E at : Split(Place(o), Len(Place(o)), SplitUrl(Place(o)), at)
    BY <1>1, UrlParts
  <1>3. SplitUrl(Place(o)) \in Seq(Words)
    BY <1>2 DEF Split
  <1> QED BY <1>1, <1>2, <1>3, SplitPlace

\* The k-th parts from the end of two lists of parts.
LEMMA LastParts ==
  ASSUME NEW us \in Seq(Words), NEW vs \in Seq(Words), NEW k \in Nat, k < Len(us), k < Len(vs)
  PROVE  /\ Len(us) - k \in 1..Len(us) /\ us[Len(us) - k] \in Words
         /\ Len(vs) - k \in 1..Len(vs) /\ vs[Len(vs) - k] \in Words
  <1>1. Len(us) \in Nat /\ Len(vs) \in Nat
    OBVIOUS
  <1>2. Len(us) - k \in 1..Len(us) /\ Len(vs) - k \in 1..Len(vs)
    BY <1>1
  <1> QED BY <1>2

\* Which parts PartsMatch compares.
LEMMA PartsMatchIs ==
  ASSUME NEW url, NEW name, SplitUrl(url) \in Seq(Words), SplitUrl(name) \in Seq(Words)
  PROVE  PartsMatch(url, name) <=>
           \A k \in Nat : k < Len(SplitUrl(url)) /\ k < Len(SplitUrl(name)) =>
             Glob(SplitUrl(url)[Len(SplitUrl(url)) - k], SplitUrl(name)[Len(SplitUrl(name)) - k])
  <1>1. PICK us \in Seq(Words), vs \in Seq(Words) : us = SplitUrl(url) /\ vs = SplitUrl(name)
    OBVIOUS
  <1>2. PICK m \in Nat, n \in Nat : m = Len(us) /\ n = Len(vs)
    OBVIOUS
  <1>3. PICK c : c = IF m <= n THEN m ELSE n
    OBVIOUS
  <1>4. PartsMatch(url, name) <=> \A k \in 0..(c - 1) : Glob(us[m - k], vs[n - k])
    BY <1>1, <1>2, <1>3, Zenon DEF PartsMatch
  <1>5. \A k : k \in 0..(c - 1) <=> k \in Nat /\ k < m /\ k < n
    BY <1>3
  <1>6. PartsMatch(url, name) <=> \A k \in Nat : k < m /\ k < n => Glob(us[m - k], vs[n - k])
    BY <1>4, <1>5
  <1> QED BY <1>1, <1>2, <1>6

\* MatchesAreParts, of every state.
LEMMA PartsAreMatched ==
  ASSUME PlacesAreWhole, TypeOK
  PROVE  MatchesAreParts
  <1> SUFFICES ASSUME NEW u \in hideModule, NEW o \in Objects, Means(u, o) PROVE PartsMatch(u, Place(o))
    BY DEF MatchesAreParts
  <1>1. u \in Seq(Chars) /\ u # <<>>
    BY UrlAssumption DEF TypeOK
  <1>2. PICK name \in Seq(Chars) : name = Place(o)
    BY PlaceWords
  <1>3. PICK us, at : us = SplitUrl(u) /\ Split(u, Len(u), us, at)
    BY <1>1, UrlParts
  <1>4. us \in Seq(Words)
    BY <1>3 DEF Split
  <1>5. PICK vs, AT : vs \in Seq(Words) /\ vs = SplitUrl(name) /\ Joined(Slash \o name, vs, AT)
    BY <1>2, PlaceWords
  <1>6. IsMatchByName(u, name)
    BY <1>1, <1>2, MeansMatches
  <1>7. Ends(u, us, at)
    BY <1>1, <1>3, SplitEnds
  <1>8. PartsFit(us, vs)
    BY <1>1, <1>5, <1>6, <1>7, MatchFits
  <1>9. ASSUME NEW k \in Nat, k < Len(us), k < Len(vs) PROVE Glob(us[Len(us) - k], vs[Len(vs) - k])
    <2>1. us[Len(us) - k] \in Words /\ vs[Len(vs) - k] \in Words
      BY <1>4, <1>5, <1>9, LastParts
    <2>2. PartMatches(us[Len(us) - k], vs[Len(vs) - k])
      BY <1>8, <1>9 DEF PartsFit
    <2> QED BY <2>1, <2>2, MatchIsGlob
  <1>10. PartsMatch(u, name)
    BY <1>3, <1>4, <1>5, <1>9, PartsMatchIs
  <1> QED BY <1>2, <1>10

\* WholePartsMatch, of every state.
LEMMA WholePartsAreMatched ==
  ASSUME PlacesAreWhole, PlacesArePlain, TypeOK
  PROVE  WholePartsMatch
  <1> SUFFICES ASSUME NEW u \in hideModule, NEW o \in Objects, HasWildcard(u),
                      \A i \in DOMAIN SplitUrl(u) : HasWildcard(SplitUrl(u)[i]) => SplitUrl(u)[i] = <<"*">>,
                      \A i \in 1..(Len(u) - 1) : u[i] = "/" => u[i + 1] # "/",
                      u[Len(u)] # "/",
                      PartsMatch(u, Place(o))
               PROVE  Means(u, o)
    BY DEF WholePartsMatch
  <1>1. u \in Seq(Chars) /\ u # <<>>
    BY UrlAssumption DEF TypeOK
  <1>2. PICK name \in Seq(Chars) : name = Place(o)
    BY PlaceWords
  <1>3. PICK us, at : us = SplitUrl(u) /\ Split(u, Len(u), us, at)
    BY <1>1, UrlParts
  <1>4. us \in Seq(Words)
    BY <1>3 DEF Split
  <1>5. PICK vs, AT : vs \in Seq(Words) /\ vs = SplitUrl(name) /\ Joined(Slash \o name, vs, AT)
    BY <1>2, PlaceWords
  <1>6. Chained(u, us, at)
    BY <1>1, <1>3, EndsChained
  <1>7. \A k \in 1..Len(vs) : \A i \in 1..Len(vs[k]) : vs[k][i] # "*"
    <2>1. ~HasWildcard(name)
      BY <1>2 DEF PlacesArePlain
    <2>2. PICK AT2 : Split(name, Len(name), vs, AT2)
      BY <1>2, <1>5, PlaceWords
    <2> QED BY <2>1, <2>2, PlainParts
  <1>8. ASSUME NEW k \in Nat, k < Len(us), k < Len(vs) PROVE PartMatches(us[Len(us) - k], vs[Len(vs) - k])
    <2>1. /\ Len(us) - k \in 1..Len(us) /\ us[Len(us) - k] \in Words
          /\ Len(vs) - k \in 1..Len(vs) /\ vs[Len(vs) - k] \in Words
      BY <1>4, <1>5, <1>8, LastParts
    <2>2. PICK w \in Words, v \in Words : w = us[Len(us) - k] /\ v = vs[Len(vs) - k]
      BY <2>1
    <2>3. Glob(w, v)
      BY <1>2, <1>3, <1>4, <1>5, <1>8, <2>2, PartsMatchIs
    <2>4. \A i \in 1..Len(v) : v[i] # "*"
      BY <1>7, <2>1, <2>2
    <2>5. DOMAIN us = 1..Len(us)
      BY <1>4
    <2>6. HasWildcard(w) => w = <<"*">>
      BY <1>3, <2>1, <2>2, <2>5
    <2>7. CASE HasWildcard(w)
      BY <2>2, <2>4, <2>6, <2>7, StarMatches
    <2>8. CASE ~HasWildcard(w)
      <3>1. DOMAIN w = 1..Len(w) /\ w \in Seq(Chars) /\ v \in Seq(Chars)
        BY WordFacts
      <3>2. \A i \in 1..Len(w) : w[i] # "*"
        BY <2>8, <3>1 DEF HasWildcard
      <3>3. w = v
        BY <2>3, <3>1, <3>2, GlobPlain
      <3> QED BY <2>2, <3>2, <3>3, PlainPart
    <2> QED BY <2>7, <2>8
  <1>9. PartsFit(us, vs)
    BY <1>8 DEF PartsFit
  <1>10. IsMatchByName(u, name)
    BY <1>1, <1>5, <1>6, <1>9, FitMatches
  <1> QED BY <1>2, <1>10 DEF Means

-----------------------------------------------------------------------------
(* The state machine. *)

USE BoundAssumption

\* A search finds objects that are there.
LEMMA FoundIsKnown == \A u : FindObjects(u) \subseteq known
  <1> SUFFICES ASSUME NEW u PROVE FindObjects(u) \subseteq known
    OBVIOUS
  <1> DEFINE parts == SplitUrl(u)
  <1>1. CASE parts = <<>>
    BY <1>1, Zenon DEF FindObjects
  <1>2. CASE parts # <<>>
    BY <1>2, Zenon DEF FindObjects
  <1>3. QED
    BY <1>1, <1>2

\* A reader that is done leaves the others, and what was collected takes effect
\* with the last one.
LEMMA FinishCases ==
  ASSUME TypeOK, NEW p \in reading, NEW paths \in SUBSET Paths, FinishModuleConfigItem(p, paths)
  PROVE  /\ hiddenPaths' = paths /\ reading' = reading \ {p}
         /\ \/ /\ reading' = {} /\ ready' = TRUE
               /\ flagged' = flagged \cup UNION {FindObjects(u) : u \in paths}
            \/ reading' # {} /\ ready' = ready /\ flagged' = flagged
         /\ flagged' \subseteq known
  BY FoundIsKnown DEF FinishModuleConfigItem, TypeOK

\* One path answers: the collected paths are what they were, or one more.
LEMMA AnswerCases ==
  ASSUME TypeOK, PathAnswers
  PROVE  \E p \in reading, paths \in SUBSET Paths :
           FinishModuleConfigItem(p, paths) /\ UNCHANGED <<known, hideModule, started>>
  <1>1. PICK p \in Paths : PathFailed(p) \/ \E visible \in BOOLEAN : PathRead(p, visible)
    BY DEF PathAnswers
  <1>2. CASE PathFailed(p)
    BY <1>2 DEF PathFailed, TypeOK
  <1>3. ASSUME NEW visible \in BOOLEAN, PathRead(p, visible)
        PROVE  \E q \in reading, paths \in SUBSET Paths :
                 FinishModuleConfigItem(q, paths) /\ UNCHANGED <<known, hideModule, started>>
    <2> DEFINE paths == IF visible THEN hiddenPaths ELSE hiddenPaths \cup {p}
    <2>1. paths \in SUBSET Paths
      BY DEF TypeOK
    <2>2. p \in reading /\ FinishModuleConfigItem(p, paths) /\ UNCHANGED <<known, hideModule, started>>
      BY <1>3 DEF PathRead
    <2>3. QED
      BY <2>1, <2>2
  <1>4. QED
    BY <1>1, <1>2, <1>3

\* A change of the list is an update to other urls.
LEMMA ListCases ==
  ASSUME TypeOK, ListChanges
  PROVE  \E urls \in SUBSET Urls : UpdateModuleConfig(urls)
  <1>1. PICK u \in Urls : UpdateModuleConfig(hideModule \cup {u}) \/ UpdateModuleConfig(hideModule \ {u})
    BY DEF ListChanges
  <1>2. hideModule \cup {u} \in SUBSET Urls /\ hideModule \ {u} \in SUBSET Urls
    BY DEF TypeOK
  <1>3. QED
    BY <1>1, <1>2

-----------------------------------------------------------------------------
(* Type correctness. *)

LEMMA InitTypeOK == Init => TypeOK
  BY DEF Init, TypeOK

LEMMA NextTypeOK == TypeOK /\ [Next]_vars => TypeOK'
  <1> SUFFICES ASSUME TypeOK, [Next]_vars PROVE TypeOK'
    OBVIOUS
  <1>1. ASSUME LoadModuleConfigs PROVE TypeOK'
    BY <1>1 DEF LoadModuleConfigs, TypeOK
  <1>2. ASSUME PathAnswers PROVE TypeOK'
    <2>1. PICK p \in reading, paths \in SUBSET Paths :
            FinishModuleConfigItem(p, paths) /\ UNCHANGED <<known, hideModule, started>>
      BY <1>2, AnswerCases
    <2>2. /\ hiddenPaths' = paths /\ reading' = reading \ {p}
          /\ ready' \in {ready, TRUE} /\ flagged' \subseteq known
      BY <2>1, FinishCases
    <2>3. QED
      BY <2>1, <2>2 DEF TypeOK
  <1>3. ASSUME ListChanges PROVE TypeOK'
    <2>1. PICK urls \in SUBSET Urls : UpdateModuleConfig(urls)
      BY <1>3, ListCases
    <2> DEFINE changed == UNION {FindObjects(u) : u \in (urls \ hideModule) \cup (hideModule \ urls)}
    <2>2. changed \subseteq known
      BY FoundIsKnown
    <2>3. /\ hideModule' = urls /\ flagged' = Updated(changed, urls)
          /\ UNCHANGED <<known, hiddenPaths, reading, started, ready>>
      BY <2>1 DEF UpdateModuleConfig
    <2> HIDE DEF changed
    <2>4. QED
      BY <2>2, <2>3 DEF TypeOK, Updated
  <1>4. ASSUME NEW o \in Objects, AddObject(o) PROVE TypeOK'
    BY <1>4 DEF AddObject, Updated, TypeOK
  <1>5. ASSUME NEW o \in Objects, ObjectDestroyed(o) PROVE TypeOK'
    BY <1>5 DEF ObjectDestroyed, TypeOK
  <1>6. CASE UNCHANGED vars
    BY <1>6 DEF vars, TypeOK
  <1>7. QED
    BY <1>1, <1>2, <1>3, <1>4, <1>5, <1>6 DEF Next

\* Every reachable state is well typed: no flag is kept for an object that has gone.
THEOREM TypeCorrect == Spec => []TypeOK
  BY InitTypeOK, NextTypeOK, PTL DEF Spec

-----------------------------------------------------------------------------
(* What holds of matching in every state. *)

\* What a url of the list means when an object is asked, a search by that url finds,
\* and a search by a path finds nothing else: for urls with any wildcards and slashes.
THEOREM SearchAlwaysFinds == PlacesAreWhole => (Spec => []SearchFinds)
  <1> SUFFICES ASSUME PlacesAreWhole PROVE Spec => []SearchFinds
    OBVIOUS
  <1>1. TypeOK => SearchFinds
    BY SearchIsRight
  <1>2. QED
    BY <1>1, TypeCorrect, PTL

\* A url without wildcards leads to the same objects while plugins load (findObjects) and
\* afterwards (findObject), whatever its slashes and whatever the places are.
THEOREM PagesAlwaysFound == Spec => []PagesFound
  BY PagesAreFound, TypeCorrect, PTL

\* A url never matches a place its parts do not match.
THEOREM MatchesAlwaysParts == PlacesAreWhole => (Spec => []MatchesAreParts)
  <1> SUFFICES ASSUME PlacesAreWhole PROVE Spec => []MatchesAreParts
    OBVIOUS
  <1>1. TypeOK => MatchesAreParts
    BY PartsAreMatched
  <1>2. QED
    BY <1>1, TypeCorrect, PTL

\* A url whose wildcards stand for whole parts matches every place its parts match.
THEOREM WholePartsAlwaysMatch == PlacesAreWhole /\ PlacesArePlain => (Spec => []WholePartsMatch)
  <1> SUFFICES ASSUME PlacesAreWhole, PlacesArePlain PROVE Spec => []WholePartsMatch
    OBVIOUS
  <1>1. TypeOK => WholePartsMatch
    BY WholePartsAreMatched
  <1>2. QED
    BY <1>1, TypeCorrect, PTL

-----------------------------------------------------------------------------
(* The flags are what the two sources ask for. *)

\* What is effective has been read to the end, and nothing is collected before the
\* start.
ReadyInv ==
  /\ ready => reading = {}
  /\ ~started => reading = {} /\ hiddenPaths = {} /\ ~ready

FlagsInv == FlagsFollowConfig /\ ReadyInv

LEMMA InitFlagsInv == Init => FlagsInv
  BY DEF Init, FlagsInv, ReadyInv, FlagsFollowConfig

\* A step keeps the flags right where searches find what is meant, before and after it.
LEMMA NextFlagsInv ==
  TypeOK /\ SearchFinds /\ SearchFinds' /\ FlagsInv /\ [Next]_vars => FlagsInv'
  <1> SUFFICES ASSUME TypeOK, SearchFinds, SearchFinds', FlagsInv, [Next]_vars PROVE FlagsInv'
    OBVIOUS
  <1>0. FlagsFollowConfig /\ ReadyInv
    BY DEF FlagsInv
  <1>1. ASSUME LoadModuleConfigs PROVE FlagsInv'
    <2>1. /\ hiddenPaths = {} /\ UNCHANGED <<known, flagged, hideModule, hiddenPaths>>
          /\ started' = TRUE /\ (ready' => reading' = {})
      BY <1>0, <1>1 DEF LoadModuleConfigs, ReadyInv
    <2>2. \A o \in known : Asked(o, hideModule', hiddenPaths', ready') = Asked(o, hideModule, hiddenPaths, ready)
      BY <2>1 DEF Asked, Contains
    <2>3. FlagsFollowConfig'
      BY <2>1, <2>2, <1>0 DEF FlagsFollowConfig
    <2>4. QED
      BY <2>1, <2>3 DEF FlagsInv, ReadyInv
  <1>2. ASSUME PathAnswers PROVE FlagsInv'
    <2>1. PICK p \in reading, paths \in SUBSET Paths :
            FinishModuleConfigItem(p, paths) /\ UNCHANGED <<known, hideModule, started>>
      BY <1>2, AnswerCases
    <2>2. ~ready /\ started
      BY <2>1, <1>0 DEF ReadyInv
    <2>3. /\ hiddenPaths' = paths
          /\ \/ /\ reading' = {} /\ ready' = TRUE
                /\ flagged' = flagged \cup UNION {FindObjects(u) : u \in paths}
             \/ reading' # {} /\ ready' = ready /\ flagged' = flagged
      BY <2>1, FinishCases
    <2>4. ReadyInv'
      BY <2>1, <2>2, <2>3 DEF ReadyInv
    <2>5. CASE reading' # {}
      <3>1. \A o \in known : Asked(o, hideModule', hiddenPaths', ready') = Asked(o, hideModule, hiddenPaths, ready)
        BY <2>1, <2>2, <2>3, <2>5 DEF Asked
      <3>2. FlagsFollowConfig'
        BY <2>1, <2>3, <2>5, <3>1, <1>0 DEF FlagsFollowConfig
      <3>3. QED
        BY <2>4, <3>2 DEF FlagsInv
    <2>6. CASE reading' = {}
      <3>1. \A u : FindObjects(u)' = FindObjects(u)
        BY <2>1, Zenon DEF FindObjects
      <3>2. \A o \in known, u \in paths : Means(u, o) <=> o \in FindObjects(u)
        BY <2>1, <2>3, <3>1 DEF SearchFinds
      <3>3. \A o \in known : Contains(paths, o) <=> \E u \in paths : o \in FindObjects(u)
        BY <3>2 DEF Contains
      <3>4. \A o \in known : o \in flagged <=> Contains(hideModule, o)
        BY <2>2, <1>0 DEF FlagsFollowConfig, Asked
      <3>5. \A o \in known : o \in flagged' <=> Contains(hideModule, o) \/ Contains(paths, o)
        BY <2>3, <2>6, <3>3, <3>4
      <3>6. FlagsFollowConfig'
        BY <2>1, <2>3, <2>6, <3>5 DEF FlagsFollowConfig, Asked
      <3>7. QED
        BY <2>4, <3>6 DEF FlagsInv
    <2>7. QED
      BY <2>5, <2>6
  <1>3. ASSUME ListChanges PROVE FlagsInv'
    <2>1. PICK urls \in SUBSET Urls : UpdateModuleConfig(urls)
      BY <1>3, ListCases
    <2> DEFINE changed == UNION {FindObjects(u) : u \in (urls \ hideModule) \cup (hideModule \ urls)}
    <2>2. /\ hideModule' = urls /\ flagged' = Updated(changed, urls)
          /\ UNCHANGED <<known, hiddenPaths, reading, started, ready>>
      BY <2>1 DEF UpdateModuleConfig
    <2>3. \A u : FindObjects(u)' = FindObjects(u)
      BY <2>2, Zenon DEF FindObjects
    <2>4. \A o \in known, u \in urls \cup hideModule : Means(u, o) => o \in FindObjects(u)
      BY <2>2, <2>3 DEF SearchFinds
    <2>5. \A o \in known \ changed : Contains(urls, o) <=> Contains(hideModule, o)
      BY <2>4 DEF Contains
    <2> HIDE DEF changed
    <2>6. \A o \in known \ changed : Asked(o, urls, hiddenPaths, ready) <=> Asked(o, hideModule, hiddenPaths, ready)
      BY <2>5 DEF Asked
    <2>7. \A o \in known : o \in flagged' <=> Asked(o, urls, hiddenPaths, ready)
      BY <2>2, <2>6, <1>0 DEF Updated, FlagsFollowConfig
    <2>8. FlagsFollowConfig'
      BY <2>2, <2>7 DEF FlagsFollowConfig, Asked, Contains, Means, Place
    <2>9. QED
      BY <2>2, <2>8, <1>0 DEF FlagsInv, ReadyInv
  <1>4. ASSUME NEW o \in Objects, AddObject(o) PROVE FlagsInv'
    <2>1. /\ known' = known \cup {o} /\ flagged' = Updated({o}, hideModule)
          /\ UNCHANGED <<hideModule, hiddenPaths, reading, started, ready>>
      BY <1>4 DEF AddObject
    <2>2. \A x \in known' : x \in flagged' <=> Asked(x, hideModule, hiddenPaths, ready)
      BY <2>1, <1>0 DEF Updated, FlagsFollowConfig
    <2>3. FlagsFollowConfig'
      BY <2>1, <2>2 DEF FlagsFollowConfig
    <2>4. QED
      BY <2>1, <2>3, <1>0 DEF FlagsInv, ReadyInv
  <1>5. ASSUME NEW o \in Objects, ObjectDestroyed(o) PROVE FlagsInv'
    <2>1. /\ known' = known \ {o} /\ flagged' = flagged \ {o}
          /\ UNCHANGED <<hideModule, hiddenPaths, reading, started, ready>>
      BY <1>5 DEF ObjectDestroyed
    <2>2. FlagsFollowConfig'
      BY <2>1, <1>0 DEF FlagsFollowConfig
    <2>3. QED
      BY <2>1, <2>2, <1>0 DEF FlagsInv, ReadyInv
  <1>6. CASE UNCHANGED vars
    BY <1>0, <1>6 DEF vars, FlagsInv, ReadyInv, FlagsFollowConfig
  <1>7. QED
    BY <1>1, <1>2, <1>3, <1>4, <1>5, <1>6 DEF Next

\* Every object has the flag exactly if one of the sources asks for it, in whatever
\* order the list changes, the small configurations answer or fail, and objects come
\* and go.
THEOREM FlagsAreRight == PlacesAreWhole => (Spec => []FlagsFollowConfig)
  <1> SUFFICES ASSUME PlacesAreWhole PROVE Spec => []FlagsFollowConfig
    OBVIOUS
  <1>1. FlagsInv => FlagsFollowConfig
    BY DEF FlagsInv
  <1>2. TypeOK => SearchFinds
    BY SearchIsRight
  <1>3. QED
    BY <1>1, <1>2, TypeCorrect, InitFlagsInv, NextFlagsInv, PTL DEF Spec
=============================================================================
