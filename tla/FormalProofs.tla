---------------------------- MODULE FormalProofs ----------------------------
(***************************************************************************)
(* Proofs about the tools of formal/ that judge the repository, for every  *)
(* list of statements, every edit and save, every Lean development and     *)
(* every campaign; and, at the end, of what the suite judges: the          *)
(* obligations of formal/z3/verify_all.py and kernel_obligations.py, for   *)
(* every value they range over.                                            *)
(***************************************************************************)
EXTENDS MCFormalChecks, SequenceTheorems, FiniteSetTheorems, WellFoundedInduction, TLAPS

(* Induction over the numbers, from the library's minima of well-founded   *)
(* relations.                                                              *)
LEMMA Induction ==
  ASSUME NEW S, 0 \in S, \A n \in Nat : n \in S => n + 1 \in S
  PROVE  Nat \subseteq S
<1> SUFFICES ASSUME Nat \ S # {} PROVE FALSE
  OBVIOUS
<1>1. PICK x \in Nat \ S : \A n \in Nat \ S : ~ <<n, x>> \in OpToRel(<, Nat)
  BY NatLessThanWellFounded, WFMin, Zenon
<1>2. \A n \in Nat \ S : <<n, x>> \in OpToRel(<, Nat) <=> n < x
  BY DEF OpToRel
<1>3. \A n \in Nat \ S : ~ n < x
  BY <1>1, <1>2, Zenon
<1>4. x - 1 \in Nat /\ (x - 1) + 1 = x
  OBVIOUS
<1>5. x - 1 \in S
  BY <1>3, <1>4
<1> QED BY <1>4, <1>5


(* A function defined by recursion over 1 .. n has the values its           *)
(* definition says, when each of them is in a set.                         *)
LEMMA FlattenValues ==
  ASSUME NEW S, NEW n \in Nat, n >= 1, NEW ss, \A x \in 1 .. n : ss[x] \in Seq(S),
         NEW F, F = CHOOSE g : g = [x \in 1 .. n |-> IF x = 1 THEN ss[x] ELSE g[x - 1] \o ss[x]]
  PROVE  /\ F = [x \in 1 .. n |-> IF x = 1 THEN ss[x] ELSE F[x - 1] \o ss[x]]
         /\ \A x \in 1 .. n : F[x] \in Seq(S)
<1> DEFINE Solves(g, k) == /\ g \in [1 .. k -> Seq(S)]
                         /\ \A x \in 1 .. k : g[x] = IF x = 1 THEN ss[x] ELSE g[x - 1] \o ss[x]
           Done(k) == 1 <= k /\ k <= n => \E g : Solves(g, k)
           T == {k \in Nat : Done(k)}
<1>1. ASSUME NEW k \in Nat, Done(k) PROVE Done(k + 1)
  <2> SUFFICES ASSUME k + 1 <= n PROVE \E g : Solves(g, k + 1)
    OBVIOUS
  <2>1. CASE k = 0
    <3> DEFINE g == [x \in 1 .. 1 |-> ss[1]]
    <3>1. g \in [1 .. 1 -> Seq(S)] /\ \A x \in 1 .. 1 : x = 1 /\ g[x] = ss[x]
      OBVIOUS
    <3>2. Solves(g, 1)
      BY <3>1
    <3>3. \E h : Solves(h, 1)
      BY <3>2
    <3>4. k + 1 = 1
      BY <2>1
    <3> QED BY <3>3, <3>4
  <2>2. CASE k # 0
    <3>0. \E g : Solves(g, k)
      <4>1. 1 <= k /\ k <= n
        BY <2>2
      <4> HIDE DEF Solves
      <4> QED BY <1>1, <4>1
    <3>1. PICK g : Solves(g, k)
      BY <3>0
    <3> DEFINE new == g[k] \o ss[k + 1]
               h   == [x \in 1 .. k + 1 |-> IF x = k + 1 THEN new ELSE g[x]]
    <3>2. new \in Seq(S)
      <4>1. g[k] \in Seq(S) /\ ss[k + 1] \in Seq(S)
        BY <2>2, <3>1
      <4> QED BY <4>1, ConcatProperties
    <3> HIDE DEF new
    <3>3. h \in [1 .. k + 1 -> Seq(S)]
      <4>1. ASSUME NEW x \in 1 .. k + 1 PROVE h[x] \in Seq(S)
        BY <3>1, <3>2
      <4> QED BY <4>1
    <3>4. ASSUME NEW x \in 1 .. k + 1
          PROVE  h[x] = IF x = 1 THEN ss[x] ELSE h[x - 1] \o ss[x]
      <4>1. CASE x = k + 1
        <5>1. h[x] = new /\ x # 1 /\ x - 1 = k /\ h[k] = g[k]
          BY <2>2, <4>1
        <5> QED BY <4>1, <5>1 DEF new
      <4>2. CASE x # k + 1
        <5>1. x \in 1 .. k /\ h[x] = g[x] /\ (x # 1 => h[x - 1] = g[x - 1])
          BY <4>2
        <5> QED BY <3>1, <5>1
      <4> QED BY <4>1, <4>2
    <3>5. Solves(h, k + 1)
      BY <3>3, <3>4
    <3> HIDE DEF h, Solves
    <3> QED BY <3>5
  <2> QED BY <2>1, <2>2
<1>2. Done(0)
  OBVIOUS
<1> HIDE DEF Done
<1>3. 0 \in T /\ \A k \in Nat : k \in T => k + 1 \in T
  BY <1>1, <1>2
<1>4. n \in T
  <2> HIDE DEF T
  <2> QED BY <1>3, Induction
<1>5. PICK f : Solves(f, n)
  BY <1>4 DEF Done
<1>6. f = [x \in 1 .. n |-> IF x = 1 THEN ss[x] ELSE f[x - 1] \o ss[x]]
  BY <1>5
<1> HIDE DEF Solves
<1>7. F = [x \in 1 .. n |-> IF x = 1 THEN ss[x] ELSE F[x - 1] \o ss[x]]
  BY <1>6, Zenon
<1> DEFINE In(k) == 1 <= k /\ k <= n => F[k] \in Seq(S)
           U == {k \in Nat : In(k)}
<1>8. ASSUME NEW k \in Nat, In(k) PROVE In(k + 1)
  <2> SUFFICES ASSUME k + 1 <= n PROVE F[k + 1] \in Seq(S)
    OBVIOUS
  <2>1. CASE k = 0
    <3>1. 1 \in 1 .. n /\ k + 1 = 1 /\ ss[1] \in Seq(S)
      BY <2>1
    <3>2. F[1] = ss[1]
      BY <1>7, <3>1
    <3> QED BY <3>1, <3>2
  <2>2. CASE k # 0
    <3>1. F[k] \in Seq(S) /\ ss[k + 1] \in Seq(S) /\ k + 1 \in 1 .. n /\ k + 1 # 1 /\ (k + 1) - 1 = k
      BY <1>8, <2>2
    <3>2. F[k + 1] = F[k] \o ss[k + 1]
      BY <1>7, <3>1
    <3>3. F[k] \o ss[k + 1] \in Seq(S)
      BY ONLY <3>1, ConcatProperties
    <3> QED BY ONLY <3>2, <3>3
  <2> QED BY <2>1, <2>2
<1>9. In(0)
  OBVIOUS
<1> HIDE DEF In
<1>10. 0 \in U /\ \A k \in Nat : k \in U => k + 1 \in U
  BY <1>8, <1>9
<1>11. Nat \subseteq U
  <2> HIDE DEF U
  <2> QED BY <1>10, Induction
<1>12. \A x \in 1 .. n : F[x] \in Seq(S)
  <2> SUFFICES ASSUME NEW x \in 1 .. n PROVE F[x] \in Seq(S)
    OBVIOUS
  <2>1. x \in U /\ 1 <= x /\ x <= n
    BY <1>11
  <2> QED BY <2>1 DEF In
<1> QED BY <1>7, <1>12

LEMMA FlattenType ==
  ASSUME NEW S, NEW ss \in Seq(Seq(S))
  PROVE  FlattenSeq(ss) \in Seq(S)
<1> DEFINE n == Len(ss)
           F == CHOOSE g : g = [x \in 1 .. n |-> IF x = 1 THEN ss[x] ELSE g[x - 1] \o ss[x]]
<1>1. CASE n = 0
  <2>1. ss = <<>>
    BY <1>1, EmptySeq
  <2>2. <<>> \in Seq(S)
    BY EmptySeq
  <2> QED BY <1>1, <2>1, <2>2 DEF FlattenSeq
<1>2. CASE n # 0
  <2>1. n \in Nat /\ n >= 1 /\ \A x \in 1 .. n : ss[x] \in Seq(S)
    BY <1>2, ElementOfSeq, LenProperties
  <2>2. FlattenSeq(ss) = F[n]
    BY <1>2 DEF FlattenSeq
  <2>3. \A G : G = F => \A x \in 1 .. n : G[x] \in Seq(S)
    <3> HIDE DEF n
    <3> QED BY <2>1, FlattenValues
  <2>4. F[n] \in Seq(S)
    <3>1. n \in 1 .. n
      BY <2>1
    <3> HIDE DEF F, n
    <3> QED BY <2>3, <3>1
  <2> QED BY <2>2, <2>4
<1> QED BY <1>1, <1>2

-----------------------------------------------------------------------------
(* Sequences of whatever they hold. *)
IsSeq(s) == s \in Seq(ToSet(s))

LEMMA SeqInto ==
  ASSUME NEW s, IsSeq(s), NEW T, ToSet(s) \subseteq T
  PROVE  s \in Seq(T)
  BY SeqMonotonic DEF IsSeq

LEMMA SeqDomain ==
  ASSUME NEW s, IsSeq(s)
  PROVE  Len(s) \in Nat /\ DOMAIN s = 1 .. Len(s)
  BY LenProperties DEF IsSeq

LEMMA IntoSeq ==
  ASSUME NEW S, NEW s \in Seq(S)
  PROVE  IsSeq(s) /\ ToSet(s) \subseteq S
<1>1. Len(s) \in Nat /\ DOMAIN s = 1 .. Len(s) /\ s \in [1 .. Len(s) -> S]
  BY LenProperties
<1>2. ToSet(s) \subseteq S /\ s \in [1 .. Len(s) -> ToSet(s)]
  BY <1>1 DEF ToSet
<1>3. s \in Seq(ToSet(s))
  BY <1>1, <1>2, SeqDef
<1> QED BY <1>2, <1>3 DEF IsSeq

LEMMA AppendIs ==
  ASSUME NEW s, IsSeq(s), NEW e
  PROVE  /\ IsSeq(Append(s, e))
         /\ Len(Append(s, e)) = Len(s) + 1
         /\ DOMAIN Append(s, e) = 1 .. Len(s) + 1
         /\ \A i \in 1 .. Len(s) : Append(s, e)[i] = s[i]
         /\ Append(s, e)[Len(s) + 1] = e
         /\ ToSet(Append(s, e)) = ToSet(s) \cup {e}
<1> DEFINE T == ToSet(s) \cup {e}
           a == Append(s, e)
<1>1. s \in Seq(T) /\ e \in T
  BY SeqInto
<1>2. Len(s) \in Nat /\ DOMAIN s = 1 .. Len(s)
  BY SeqDomain
<1>3. /\ a \in Seq(T) /\ Len(a) = Len(s) + 1
      /\ \A i \in 1 .. Len(s) : a[i] = s[i]
      /\ a[Len(s) + 1] = e
  BY <1>1, AppendProperties
<1>4. IsSeq(a) /\ ToSet(a) \subseteq T
  BY <1>3, IntoSeq
<1>5. DOMAIN a = 1 .. Len(s) + 1
  BY <1>3, <1>4, SeqDomain
<1> HIDE DEF a
<1>6. T \subseteq ToSet(a)
  <2>1. \A i \in 1 .. Len(s) : s[i] \in ToSet(a)
    BY <1>2, <1>3, <1>5 DEF ToSet
  <2>2. ToSet(s) \subseteq ToSet(a)
    BY <1>2, <2>1 DEF ToSet
  <2>3. e \in ToSet(a)
    BY <1>2, <1>3, <1>5 DEF ToSet
  <2> QED BY <2>2, <2>3
<1>7. ToSet(a) = T
  BY <1>4, <1>6
<1> QED BY <1>3, <1>4, <1>5, <1>7 DEF a

LEMMA ConcatIs ==
  ASSUME NEW s, IsSeq(s), NEW t, IsSeq(t)
  PROVE  /\ IsSeq(s \o t)
         /\ Len(s \o t) = Len(s) + Len(t)
         /\ DOMAIN (s \o t) = 1 .. Len(s) + Len(t)
         /\ \A i \in 1 .. Len(s) + Len(t) :
              (s \o t)[i] = IF i <= Len(s) THEN s[i] ELSE t[i - Len(s)]
         /\ ToSet(s \o t) = ToSet(s) \cup ToSet(t)
<1> DEFINE T == ToSet(s) \cup ToSet(t)
           a == s \o t
<1>1. s \in Seq(T) /\ t \in Seq(T)
  BY SeqInto
<1>2. Len(s) \in Nat /\ DOMAIN s = 1 .. Len(s) /\ Len(t) \in Nat /\ DOMAIN t = 1 .. Len(t)
  BY SeqDomain
<1>3. /\ a \in Seq(T) /\ Len(a) = Len(s) + Len(t)
      /\ \A i \in 1 .. Len(s) + Len(t) : a[i] = IF i <= Len(s) THEN s[i] ELSE t[i - Len(s)]
  BY <1>1, ConcatProperties
<1>4. IsSeq(a) /\ ToSet(a) \subseteq T
  BY <1>3, IntoSeq
<1>5. DOMAIN a = 1 .. Len(s) + Len(t)
  BY <1>3, <1>4, SeqDomain
<1> HIDE DEF a
<1>6. T \subseteq ToSet(a)
  <2>1. ASSUME NEW i \in 1 .. Len(s) PROVE s[i] \in ToSet(a)
    <3>1. i \in 1 .. Len(s) + Len(t) /\ i <= Len(s)
      BY <1>2
    <3> QED BY <1>3, <1>5, <3>1 DEF ToSet
  <2>2. ASSUME NEW i \in 1 .. Len(t) PROVE t[i] \in ToSet(a)
    <3> DEFINE k == Len(s) + i
    <3>1. k \in 1 .. Len(s) + Len(t) /\ ~ k <= Len(s) /\ k - Len(s) = i
      BY <1>2
    <3> HIDE DEF k
    <3> QED BY <1>3, <1>5, <3>1 DEF ToSet
  <2> QED BY <1>2, <2>1, <2>2 DEF ToSet
<1>7. ToSet(a) = T
  BY <1>4, <1>6
<1> QED BY <1>3, <1>4, <1>5, <1>7 DEF a

LEMMA TailIs ==
  ASSUME NEW s, IsSeq(s), s # <<>>
  PROVE  IsSeq(Tail(s)) /\ Head(s) \in ToSet(s) /\ ToSet(s) = {Head(s)} \cup ToSet(Tail(s))
<1> DEFINE t == Tail(s)
<1>1. /\ Head(s) \in ToSet(s) /\ t \in Seq(ToSet(s)) /\ Len(t) = Len(s) - 1
      /\ \A i \in 1 .. Len(t) : t[i] = s[i + 1]
  BY HeadTailProperties DEF IsSeq
<1>2. IsSeq(t) /\ ToSet(t) \subseteq ToSet(s)
  BY <1>1, IntoSeq
<1>3. Len(s) \in Nat /\ DOMAIN s = 1 .. Len(s) /\ DOMAIN t = 1 .. Len(t)
  BY <1>2, SeqDomain
<1>4. Head(s) = s[1]
  BY DEF IsSeq
<1> HIDE DEF t
<1>5. ASSUME NEW i \in 1 .. Len(s) PROVE s[i] \in {Head(s)} \cup ToSet(t)
  <2>1. CASE i = 1
    BY <1>4, <2>1
  <2>2. CASE i # 1
    <3> DEFINE k == i - 1
    <3>1. k \in 1 .. Len(t) /\ k + 1 = i
      BY <1>1, <1>3, <2>2
    <3> HIDE DEF k
    <3> QED BY <1>1, <1>3, <3>1 DEF ToSet
  <2> QED BY <2>1, <2>2
<1>6. ToSet(s) \subseteq {Head(s)} \cup ToSet(t)
  BY <1>3, <1>5 DEF ToSet
<1> QED BY <1>1, <1>2, <1>6 DEF t

LEMMA EmptyIs == IsSeq(<<>>) /\ Len(<<>>) = 0 /\ DOMAIN <<>> = {} /\ ToSet(<<>>) = {}
<1>1. \A S : <<>> \in Seq(S)
  BY EmptySeq
<1>2. IsSeq(<<>>) /\ Len(<<>>) = 0
  BY <1>1, EmptySeq DEF IsSeq
<1>3. DOMAIN <<>> = {}
  <2>1. DOMAIN <<>> = 1 .. 0
    BY <1>2, SeqDomain
  <2> QED BY <2>1
<1>4. ToSet(<<>>) = {}
  BY <1>3 DEF ToSet
<1> QED BY <1>2, <1>3, <1>4

(* A sequence built position by position. *)
LEMMA BuiltIs ==
  ASSUME NEW n \in Nat, NEW f, f = [i \in 1 .. n |-> f[i]]
  PROVE  IsSeq(f) /\ Len(f) = n
<1>1. f \in [1 .. n -> ToSet(f)]
  BY DEF ToSet
<1>2. f \in Seq(ToSet(f))
  BY <1>1, SeqDef
<1>3. Len(f) \in Nat /\ DOMAIN f = 1 .. Len(f) /\ DOMAIN f = 1 .. n
  BY <1>2, LenProperties
<1>4. Len(f) = n
  BY <1>3
<1> QED BY <1>2, <1>4 DEF IsSeq

-----------------------------------------------------------------------------
(* The lists of statements. *)

(* What a text makes of the reviewed statements. *)
Variants(txt) == {Statement(Reviewed[i], Kinds(txt, Reviewed[i])) : i \in DOMAIN Reviewed}

LEMMA StatementsType ==
  ASSUME NEW txt
  PROVE  Statements(txt, Reviewed) \in Seq(Variants(txt))
<1> DEFINE V == Variants(txt)
           each(i) == LET kinds == Kinds(txt, Reviewed[i])
                          s     == Statement(Reviewed[i], kinds)
                      IN  IF "drop" \in kinds THEN <<>>
                          ELSE IF "duplicate" \in kinds THEN <<s, s>> ELSE <<s>>
           f == [i \in DOMAIN Reviewed |-> each(i)]
<1>1. Len(Reviewed) \in Nat /\ DOMAIN Reviewed = 1 .. Len(Reviewed)
  BY SuiteAssumption, SeqDomain DEF IsSeq
<1>2. ASSUME NEW i \in DOMAIN Reviewed PROVE each(i) \in Seq(V)
  <2> DEFINE kinds == Kinds(txt, Reviewed[i])
             s     == Statement(Reviewed[i], kinds)
  <2>1. s \in V
    BY DEF Variants
  <2> HIDE DEF s, V
  <2>2. <<>> \in Seq(V) /\ <<s>> \in Seq(V) /\ <<s, s>> \in Seq(V)
    BY <2>1
  <2> QED BY <2>2 DEF s
<1> HIDE DEF V
<1>3. f \in [1 .. Len(Reviewed) -> Seq(V)]
  BY <1>1, <1>2
<1>4. f \in Seq(Seq(V))
  BY <1>1, <1>3, SeqDef
<1>5. Statements(txt, Reviewed) = FlattenSeq(f)
  BY DEF Statements
<1> QED BY <1>4, <1>5, FlattenType DEF V

LEMMA PhaseType ==
  ASSUME NEW V, NEW stmts \in Seq(V), NEW ph
  PROVE  Phase(stmts, ph) \in Seq(V)
<1> DEFINE f == [i \in DOMAIN stmts |-> IF stmts[i].phase = ph THEN <<stmts[i]>> ELSE <<>>]
<1>1. Len(stmts) \in Nat /\ DOMAIN stmts = 1 .. Len(stmts) /\ \A i \in DOMAIN stmts : stmts[i] \in V
  BY LenProperties, ElementOfSeq
<1>2. <<>> \in Seq(V) /\ \A e \in V : <<e>> \in Seq(V)
  OBVIOUS
<1>3. f \in [1 .. Len(stmts) -> Seq(V)]
  BY <1>1, <1>2
<1>4. f \in Seq(Seq(V))
  BY <1>1, <1>3, SeqDef
<1>5. Phase(stmts, ph) = FlattenSeq(f)
  BY DEF Phase, Only
<1> QED BY <1>4, <1>5, FlattenType

LEMMA PhasesType ==
  ASSUME NEW va, NEW ko
  PROVE  /\ IsSeq(Phases(va, ko))
         /\ ToSet(Phases(va, ko)) \subseteq Variants(va) \cup Variants(ko) \cup {NoSolver}
<1> DEFINE V == Variants(va) \cup Variants(ko) \cup {NoSolver}
           v == Statements(va, Reviewed)
           k == Statements(ko, Reviewed)
           smt == IF haveZ3 THEN Phase(v, "smt") ELSE <<NoSolver>>
<1>1. v \in Seq(V) /\ k \in Seq(V)
  BY StatementsType, SeqMonotonic
<1>2. <<NoSolver>> \in Seq(V)
  <2>1. NoSolver \in V
    OBVIOUS
  <2> HIDE DEF V
  <2> QED BY <2>1
<1> HIDE DEF V, v, k
<1>3. Phase(v, "calc") \in Seq(V) /\ Phase(v, "exh") \in Seq(V) /\ Phase(k, "kernel") \in Seq(V)
      /\ Phase(v, "smt") \in Seq(V)
  BY <1>1, PhaseType
<1>4. smt \in Seq(V)
  BY <1>2, <1>3
<1> HIDE DEF smt
<1>5. Phase(v, "calc") \o smt \o Phase(v, "exh") \o Phase(k, "kernel") \in Seq(V)
  BY <1>3, <1>4, ConcatProperties
<1>6. Phases(va, ko) = Phase(v, "calc") \o smt \o Phase(v, "exh") \o Phase(k, "kernel")
  BY DEF Phases, v, k, smt
<1>7. IsSeq(Phases(va, ko)) /\ ToSet(Phases(va, ko)) \subseteq V
  <2> DEFINE p == Phases(va, ko)
  <2>1. p \in Seq(V)
    BY ONLY <1>5, <1>6
  <2> HIDE DEF p
  <2>2. IsSeq(p) /\ ToSet(p) \subseteq V
    BY ONLY <2>1, IntoSeq
  <2> QED BY ONLY <2>2 DEF p
<1> QED BY ONLY <1>7 DEF V

(* A statement with contradictory premises has a conjunct to notice it.    *)
LEMMA PremisesGuarded ==
  ASSUME NEW va \in AllTexts, NEW ko \in AllTexts, NEW s \in ToSet(Phases(va, ko)),
         s.premises = "unsat"
  PROVE  \E i \in DOMAIN s.parts : s.parts[i].tells = "premises_sat"
<1>1. s \in Variants(va) \cup Variants(ko) \cup {NoSolver}
  BY PhasesType
<1>2. s # NoSolver
  BY DEF NoSolver, Statement
<1>3. PICK txt \in AllTexts, i \in DOMAIN Reviewed : s = Statement(Reviewed[i], Kinds(txt, Reviewed[i]))
  BY <1>1, <1>2 DEF Variants
<1>4. "contradict" \in Kinds(txt, Reviewed[i])
  BY <1>3 DEF Statement
<1>5. PICK j \in DOMAIN Reviewed[i].parts \ {1} : Reviewed[i].parts[j].tells = "premises_sat"
  BY <1>3, <1>4, ChecksAssumption
<1>6. j \in DOMAIN s.parts /\ s.parts[j] = Reviewed[i].parts[j]
  BY <1>3, <1>5 DEF Statement
<1> QED BY <1>5, <1>6

LEMMA PartsAreSeq ==
  ASSUME NEW va, NEW ko, NEW s \in ToSet(Phases(va, ko))
  PROVE  \E n \in Nat : DOMAIN s.parts = 1 .. n
<1>1. s \in Variants(va) \cup Variants(ko) \cup {NoSolver}
  BY PhasesType
<1>2. CASE s = NoSolver
  <2>1. s.parts = <<>>
    BY <1>2 DEF NoSolver, Statement
  <2> QED BY <2>1, EmptyIs
<1>3. ASSUME NEW txt, NEW i \in DOMAIN Reviewed, s = Statement(Reviewed[i], Kinds(txt, Reviewed[i]))
      PROVE  \E n \in Nat : DOMAIN s.parts = 1 .. n
  <2>1. Len(Reviewed[i].parts) \in Nat /\ DOMAIN Reviewed[i].parts = 1 .. Len(Reviewed[i].parts)
    BY SuiteAssumption, SeqDomain DEF IsSeq
  <2>2. DOMAIN s.parts = DOMAIN Reviewed[i].parts
    BY <1>3 DEF Statement
  <2> QED BY <2>1, <2>2
<1> QED BY <1>1, <1>2, <1>3 DEF Variants

-----------------------------------------------------------------------------
(* The suite. *)

InForce  == Phases(running.va, running.ko)
Sound(s) == Claim(s) /\ \A i \in DOMAIN s.parts : Tells(s, s.parts[i])
Passing  == /\ \A i \in DOMAIN results : results[i].pass
            /\ \A i \in DOMAIN conjuncts : conjuncts[i].pass
Exact    == /\ ToSet(ExpectedObligations) = ToSet(Ids(results)) /\ IsInjective(Ids(results))
            /\ ToSet(ExpectedConjuncts) = ToSet(Ids(conjuncts)) /\ IsInjective(Ids(conjuncts))
            /\ Len(results) = Len(ExpectedObligations) /\ Len(conjuncts) = Len(ExpectedConjuncts)
Named    == ToSet(ExpectedObligations) \subseteq ToSet(Ids(results)) \cup said

BeforeExec == {"bytecode", "script", "pins", "self", "kernel", "exec"}

RowsInv ==
  /\ IsSeq(results) /\ IsSeq(conjuncts) /\ IsSeq(next) /\ ok \in BOOLEAN
  /\ pc \in BeforeExec \cup {"record", "ids", "tally", "done"}
  /\ rc = -1 <=> pc # "done"
  /\ pc = "record" => ToSet(next) \subseteq ToSet(InForce)
  /\ ok => Passing

(* The text that is executed is the text that was digested.                *)
DigestInv ==
  /\ DOMAIN running = {"va", "ko", "table"}
  /\ pc \in BeforeExec => running.ko = Absent
  /\ pc = "exec" => Ast(text) = running.table.pins.ko
  /\ ExecutedWasDigested

TextInv ==
  /\ phase = "idle" => rc # 0
  /\ phase # "idle" =>
    /\ repo \in Trees /\ IsSeq(todo) /\ ToSet(todo) \subseteq ToSet(Catalogue)
    /\ phase = "mutation" => todo # <<>>
    /\ {"va", "ko"} \subseteq DOMAIN dir /\ dir.va \in AllTexts /\ dir.ko \in AllTexts
    /\ running.va \in AllTexts
    /\ pc = "exec" => text \in AllTexts
    /\ pc \in {"record", "ids", "tally"} \/ rc = 0 => running.ko \in AllTexts

(* While ok stands, every statement in force is still to come or was found *)
(* sound; later none is to come, and the ids are those pinned.             *)
GreenInv ==
  /\ pc = "record" /\ ok => \A s \in ToSet(InForce) : s \in ToSet(next) \/ Sound(s)
  /\ (pc \in {"ids", "tally"} \/ rc = 0) /\ ok => \A s \in ToSet(InForce) : Sound(s)
  /\ (pc = "tally" \/ rc = 0) /\ ok => Exact
  /\ rc = 0 => ok

NamedInv == pc = "tally" \/ rc \in {0, 1, 3} => Named

SuiteInv == RowsInv /\ DigestInv /\ TextInv /\ GreenInv /\ NamedInv

LEMMA IdsIs ==
  ASSUME NEW rows, IsSeq(rows)
  PROVE  IsSeq(Ids(rows)) /\ Len(Ids(rows)) = Len(rows) /\ DOMAIN Ids(rows) = 1 .. Len(rows)
         /\ \A i \in 1 .. Len(rows) : Ids(rows)[i] = rows[i].id
<1>1. Len(rows) \in Nat /\ DOMAIN rows = 1 .. Len(rows)
  BY SeqDomain
<1>2. Ids(rows) = [i \in 1 .. Len(rows) |-> rows[i].id]
  BY <1>1 DEF Ids
<1>3. IsSeq(Ids(rows)) /\ Len(Ids(rows)) = Len(rows)
  BY <1>1, <1>2, BuiltIs
<1> QED BY <1>2, <1>3

LEMMA SameSeq ==
  ASSUME NEW s, IsSeq(s), NEW t, IsSeq(t), Len(s) = Len(t), \A i \in 1 .. Len(s) : s[i] = t[i]
  PROVE  s = t
<1> DEFINE T == ToSet(s) \cup ToSet(t)
<1>1. s \in Seq(T) /\ t \in Seq(T)
  BY SeqInto
<1> HIDE DEF T
<1> QED BY <1>1, SeqEqual

(* One row with its conjuncts. *)
LEMMA RecordIs ==
  ASSUME NEW id, NEW claim \in BOOLEAN, NEW n \in Nat, NEW parts, DOMAIN parts = 1 .. n,
         RowsInv, Record(id, claim, parts)
  PROVE  /\ IsSeq(results') /\ IsSeq(conjuncts') /\ ok' \in BOOLEAN
         /\ ok' => ok /\ claim /\ Passing' /\ \A i \in 1 .. n : parts[i][2]
         /\ Ids(results)' = Append(Ids(results), id)
         /\ Ids(conjuncts)' = Ids(conjuncts) \o [i \in 1 .. n |-> <<id, parts[i][1]>>]
<1> DEFINE row  == [id |-> id, pass |-> claim /\ \A i \in 1 .. n : parts[i][2]]
           more == [i \in 1 .. n |-> [id |-> <<id, parts[i][1]>>, pass |-> parts[i][2]]]
<1>1. results' = Append(results, row) /\ conjuncts' = conjuncts \o more /\ ok' = (ok /\ row.pass)
  BY DEF Record
<1>2. IsSeq(results) /\ IsSeq(conjuncts) /\ ok \in BOOLEAN /\ (ok => Passing)
  BY DEF RowsInv
<1>3. IsSeq(more) /\ Len(more) = n
  <2>1. more = [i \in 1 .. n |-> more[i]]
    OBVIOUS
  <2> HIDE DEF more
  <2> QED BY <2>1, BuiltIs
<1>4. row.id = id /\ (row.pass <=> claim /\ \A i \in 1 .. n : parts[i][2])
  OBVIOUS
<1>5. \A i \in 1 .. n : more[i].id = <<id, parts[i][1]>> /\ more[i].pass = parts[i][2]
  OBVIOUS
<1> HIDE DEF row, more
<1>6. /\ IsSeq(results') /\ Len(results') = Len(results) + 1 /\ DOMAIN results' = 1 .. Len(results) + 1
      /\ \A i \in 1 .. Len(results) : results'[i] = results[i]
      /\ results'[Len(results) + 1] = row
  BY <1>1, <1>2, AppendIs
<1>7. /\ IsSeq(conjuncts') /\ Len(conjuncts') = Len(conjuncts) + n
      /\ DOMAIN conjuncts' = 1 .. Len(conjuncts) + n
      /\ \A i \in 1 .. Len(conjuncts) + n : conjuncts'[i] =
            IF i <= Len(conjuncts) THEN conjuncts[i] ELSE more[i - Len(conjuncts)]
  BY <1>1, <1>2, <1>3, ConcatIs
<1>8. Len(results) \in Nat /\ DOMAIN results = 1 .. Len(results)
      /\ Len(conjuncts) \in Nat /\ DOMAIN conjuncts = 1 .. Len(conjuncts)
  BY <1>2, SeqDomain
<1>9. ok' \in BOOLEAN /\ (ok' => ok /\ claim /\ \A i \in 1 .. n : parts[i][2])
  BY <1>1, <1>2, <1>4
<1>10. ASSUME ok' PROVE Passing'
  <2>1. Passing /\ row.pass /\ \A i \in 1 .. n : parts[i][2]
    BY <1>1, <1>2, <1>4, <1>10
  <2>2. ASSUME NEW i \in 1 .. Len(results) + 1 PROVE results'[i].pass
    <3>1. CASE i = Len(results) + 1
      BY <1>6, <2>1, <3>1
    <3>2. CASE i # Len(results) + 1
      <4>1. i \in 1 .. Len(results)
        BY <1>8, <3>2
      <4> QED BY <1>6, <1>8, <2>1, <4>1 DEF Passing
    <3> QED BY <3>1, <3>2
  <2>3. ASSUME NEW i \in 1 .. Len(conjuncts) + n PROVE conjuncts'[i].pass
    <3>1. CASE i <= Len(conjuncts)
      <4>1. i \in 1 .. Len(conjuncts)
        BY <1>8, <3>1
      <4> QED BY <1>7, <1>8, <2>1, <3>1, <4>1 DEF Passing
    <3>2. CASE ~ i <= Len(conjuncts)
      <4> DEFINE k == i - Len(conjuncts)
      <4>1. k \in 1 .. n
        BY <1>8, <3>2
      <4> HIDE DEF k
      <4>2. more[k].pass
        BY <1>5, <2>1, <4>1
      <4>3. conjuncts'[i] = more[k]
        BY <1>7, <3>2 DEF k
      <4> QED BY <4>2, <4>3
    <3> QED BY <3>1, <3>2
  <2> QED BY <1>6, <1>7, <2>2, <2>3 DEF Passing
<1>11. Ids(results)' = Append(Ids(results), id)
  <2> DEFINE s == Ids(results') 
             a == Append(Ids(results), id)
  <2>1. IsSeq(s) /\ Len(s) = Len(results) + 1 /\ \A i \in 1 .. Len(results) + 1 : s[i] = results'[i].id
    BY <1>6, IdsIs
  <2>2. IsSeq(Ids(results)) /\ Len(Ids(results)) = Len(results)
        /\ \A i \in 1 .. Len(results) : Ids(results)[i] = results[i].id
    BY <1>2, IdsIs
  <2>3. IsSeq(a) /\ Len(a) = Len(results) + 1
        /\ (\A i \in 1 .. Len(results) : a[i] = Ids(results)[i]) /\ a[Len(results) + 1] = id
    BY <2>2, AppendIs
  <2> HIDE DEF s, a
  <2>4. ASSUME NEW i \in 1 .. Len(results) + 1 PROVE s[i] = a[i]
    <3>1. CASE i = Len(results) + 1
      BY <1>4, <1>6, <2>1, <2>3, <3>1
    <3>2. CASE i # Len(results) + 1
      <4>1. i \in 1 .. Len(results)
        BY <1>8, <3>2
      <4> QED BY <1>6, <2>1, <2>2, <2>3, <4>1
    <3> QED BY <3>1, <3>2
  <2>5. s = a
    BY <2>1, <2>3, <2>4, SameSeq
  <2> QED BY <2>5 DEF s, a, Ids
<1>12. Ids(conjuncts)' = Ids(conjuncts) \o [i \in 1 .. n |-> <<id, parts[i][1]>>]
  <2> DEFINE s == Ids(conjuncts')
             b == [i \in 1 .. n |-> <<id, parts[i][1]>>]
             c == Ids(conjuncts)
             a == c \o b
  <2>1. IsSeq(s) /\ Len(s) = Len(conjuncts) + n
        /\ \A i \in 1 .. Len(conjuncts) + n : s[i] = conjuncts'[i].id
    BY <1>7, IdsIs
  <2>2. IsSeq(c) /\ Len(c) = Len(conjuncts)
        /\ \A i \in 1 .. Len(conjuncts) : c[i] = conjuncts[i].id
    BY <1>2, IdsIs
  <2>3. IsSeq(b) /\ Len(b) = n /\ \A i \in 1 .. n : b[i] = <<id, parts[i][1]>>
    <3>1. b = [i \in 1 .. n |-> b[i]] /\ \A i \in 1 .. n : b[i] = <<id, parts[i][1]>>
      OBVIOUS
    <3> HIDE DEF b
    <3> QED BY <3>1, BuiltIs
  <2> HIDE DEF b, c
  <2>4. IsSeq(a) /\ Len(a) = Len(conjuncts) + n
        /\ \A i \in 1 .. Len(conjuncts) + n :
             a[i] = IF i <= Len(conjuncts) THEN c[i] ELSE b[i - Len(conjuncts)]
    <3>1. IsSeq(c)
      BY <2>2
    <3>2. IsSeq(b)
      BY <2>3
    <3>3. IsSeq(a) /\ Len(a) = Len(c) + Len(b)
          /\ \A i \in 1 .. Len(c) + Len(b) : a[i] = IF i <= Len(c) THEN c[i] ELSE b[i - Len(c)]
      BY <3>1, <3>2, ConcatIs
    <3> HIDE DEF a
    <3> QED BY <3>3, <2>2, <2>3
  <2> HIDE DEF s, a
  <2>5. ASSUME NEW i \in 1 .. Len(conjuncts) + n PROVE s[i] = a[i]
    <3>1. CASE i <= Len(conjuncts)
      <4>1. i \in 1 .. Len(conjuncts)
        BY <1>8, <3>1
      <4> QED BY <1>7, <2>1, <2>2, <2>4, <3>1, <4>1
    <3>2. CASE ~ i <= Len(conjuncts)
      <4> DEFINE k == i - Len(conjuncts)
      <4>1. k \in 1 .. n
        BY <1>8, <3>2
      <4>2. conjuncts'[i] = more[k] /\ a[i] = b[k]
        BY <1>7, <2>4, <3>2
      <4> HIDE DEF k
      <4> QED BY <1>5, <2>1, <2>3, <4>1, <4>2
    <3> QED BY <3>1, <3>2
  <2>6. s = a
    BY <2>1, <2>4, <2>5, SameSeq
  <2> QED BY <2>6 DEF s, a, b, c, Ids
<1> QED BY <1>6, <1>7, <1>9, <1>10, <1>11, <1>12

LEMMA InForceSame ==
  ASSUME UNCHANGED <<haveZ3, running>>
  PROVE  InForce' = InForce
  BY DEF InForce, Phases

LEMMA InForceIs ==
  ASSUME NEW va, NEW ko, running'.va = va, running'.ko = ko, UNCHANGED haveZ3
  PROVE  InForce' = Phases(va, ko)
  BY DEF InForce, Phases

LEMMA SoundSame == UNCHANGED <<results, conjuncts, said>> => Passing' = Passing /\ Exact' = Exact /\ Named' = Named
  BY DEF Passing, Exact, Named, Ids

(* What a step of the suite leaves of the rows. *)
LEMMA RowsFrame ==
  ASSUME RowsInv, UNCHANGED <<results, conjuncts, ok>>, IsSeq(next'),
         pc' \in BeforeExec \cup {"record", "ids", "tally", "done"}, rc' = -1 <=> pc' # "done",
         pc' = "record" => ToSet(next') \subseteq ToSet(InForce')
  PROVE  RowsInv'
<1>1. Passing' <=> Passing
  BY DEF Passing
<1>2. /\ IsSeq(results') /\ IsSeq(conjuncts') /\ ok' \in BOOLEAN
      /\ ok' => Passing
  BY DEF RowsInv
<1> QED BY <1>1, <1>2 DEF RowsInv, BeforeExec

LEMMA AnchorStep ==
  ASSUME SuiteInv, phase # "idle", pc \in BeforeExec, rc' = -1 <=> pc' # "done",
         pc' \in BeforeExec \/ (pc' = "done" /\ rc' = 2),
         UNCHANGED <<dir, phase, repo, todo, next, results, conjuncts, ok, said>>,
         running'.va = running.va, running'.ko = running.ko, DOMAIN running' = DOMAIN running,
         pc' = "exec" => Ast(text') = running'.table.pins.ko /\ text' \in AllTexts
  PROVE  SuiteInv'
<1>1. pc # "done" /\ running.ko = Absent
  BY DEF SuiteInv, DigestInv, BeforeExec
<1>2. RowsInv'
  BY RowsFrame DEF SuiteInv, RowsInv, BeforeExec
<1>3. DigestInv'
  BY <1>1 DEF SuiteInv, DigestInv, ExecutedWasDigested
<1>4. TextInv'
  BY DEF SuiteInv, TextInv, BeforeExec
<1>5. GreenInv' /\ NamedInv'
  <2>1. pc' \notin {"record", "ids", "tally"} /\ rc' \notin {0, 1, 3}
    BY DEF BeforeExec
  <2> QED BY <2>1 DEF GreenInv, NamedInv
<1> QED BY <1>2, <1>3, <1>4, <1>5 DEF SuiteInv

LEMMA AnchorSteps ==
  ASSUME SuiteInv, phase # "idle", UNCHANGED auditVars,
         NoShadowingBytecode \/ CheckScript \/ ReadPins \/ ReadSelf \/ ReadKernel
  PROVE  SuiteInv'
<1>1. UNCHANGED <<phase, repo, todo>>
  BY DEF auditVars
<1>2. rc = -1 <=> pc # "done"
  BY DEF SuiteInv, RowsInv
<1>3. CASE NoShadowingBytecode
  BY <1>1, <1>2, <1>3, AnchorStep DEF NoShadowingBytecode, Refuse, BeforeExec, dirVars, anchorVars, suiteVars
<1>4. CASE CheckScript
  BY <1>1, <1>2, <1>4, AnchorStep DEF CheckScript, Refuse, BeforeExec, dirVars, anchorVars, suiteVars
<1>5. CASE ReadPins
  <2>1. DOMAIN running = {"va", "ko", "table"}
    BY DEF SuiteInv, DigestInv
  <2>2. CASE pc' = "done"
    BY <1>1, <1>2, <1>5, <2>2, AnchorStep DEF ReadPins, Refuse, BeforeExec, dirVars, anchorVars, suiteVars
  <2>3. CASE pc' # "done"
    <3>1. running' = [running EXCEPT !.table = dir.table] /\ pc' = "self" /\ pc = "pins"
          /\ UNCHANGED <<dir, rc, next, results, conjuncts, ok, said>>
      BY <1>5, <2>3 DEF ReadPins, Refuse, dirVars, anchorVars, suiteVars
    <3>2. running'.va = running.va /\ running'.ko = running.ko /\ DOMAIN running' = DOMAIN running
      BY <2>1, <3>1
    <3> QED BY <1>1, <1>2, <3>1, <3>2, AnchorStep DEF BeforeExec
  <2> QED BY <2>2, <2>3
<1>6. CASE ReadSelf
  BY <1>1, <1>2, <1>6, AnchorStep DEF ReadSelf, Refuse, BeforeExec, dirVars, anchorVars, suiteVars
<1>7. CASE ReadKernel
  <2>1. dir.ko \in AllTexts
    BY DEF SuiteInv, TextInv
  <2> QED BY <1>1, <1>2, <1>7, <2>1, AnchorStep DEF ReadKernel, Refuse, BeforeExec, dirVars, anchorVars, suiteVars
<1> QED BY <1>3, <1>4, <1>5, <1>6, <1>7

LEMMA ExecStep ==
  ASSUME SuiteInv, phase # "idle", UNCHANGED auditVars, ExecKernel
  PROVE  SuiteInv'
<1>1. /\ UNCHANGED <<phase, repo, todo, dir, haveZ3, results, conjuncts, ok, rc, said>>
      /\ pc = "exec" /\ pc' = "record" /\ rc = -1
      /\ running' = [running EXCEPT !.ko = text] /\ next' = Phases(running.va, text)
  BY DEF auditVars, ExecKernel, dirVars, SuiteInv, RowsInv
<1>2. running'.va = running.va /\ running'.ko = text /\ running'.table = running.table
      /\ DOMAIN running' = {"va", "ko", "table"}
  BY <1>1 DEF SuiteInv, DigestInv
<1>3. haveZ3' = haveZ3 /\ next' = Phases(running.va, text)
  BY <1>1
<1>4. InForce' = next'
  BY <1>2, <1>3, InForceIs
<1>5. IsSeq(next')
  BY <1>1, PhasesType
<1>6. RowsInv'
  BY <1>1, <1>4, <1>5, RowsFrame DEF SuiteInv
<1>7. DigestInv'
  BY <1>1, <1>2 DEF SuiteInv, DigestInv, BeforeExec, ExecutedWasDigested
<1>8. TextInv'
  BY <1>1, <1>2 DEF SuiteInv, TextInv
<1>9. GreenInv' /\ NamedInv'
  BY <1>1, <1>4 DEF GreenInv, NamedInv
<1> QED BY <1>6, <1>7, <1>8, <1>9 DEF SuiteInv

(* What a step after the kernels were executed leaves of the texts. *)
LEMMA TextsFrame ==
  ASSUME SuiteInv, phase # "idle", pc \notin BeforeExec, pc # "done", pc' \notin BeforeExec,
         UNCHANGED <<dir, running, text, phase, repo, todo>>
  PROVE  DigestInv' /\ TextInv'
<1>1. pc \in {"record", "ids", "tally"}
  BY DEF SuiteInv, RowsInv
<1>2. DigestInv'
  BY DEF BeforeExec, SuiteInv, DigestInv, ExecutedWasDigested
<1>3. TextInv'
  BY <1>1 DEF SuiteInv, TextInv, BeforeExec
<1> QED BY <1>2, <1>3

LEMMA RecordNextStep ==
  ASSUME SuiteInv, phase # "idle", UNCHANGED auditVars, RecordNext
  PROVE  SuiteInv'
<1> DEFINE s == Head(next)
<1>1. /\ UNCHANGED <<phase, repo, todo, dir, haveZ3, running, text, rc, said, pc>>
      /\ pc = "record" /\ next # <<>> /\ next' = Tail(next)
      /\ Record(s.id, Claim(s), Rows(s))
  BY DEF auditVars, RecordNext, dirVars, anchorVars
<1>2. RowsInv /\ IsSeq(next) /\ ToSet(next) \subseteq ToSet(InForce) /\ rc = -1
  BY <1>1 DEF SuiteInv, RowsInv
<1>3. s \in ToSet(next) /\ IsSeq(next') /\ ToSet(next) = {s} \cup ToSet(next')
  <2>1. IsSeq(Tail(next)) /\ Head(next) \in ToSet(next) /\ ToSet(next) = {Head(next)} \cup ToSet(Tail(next))
    BY <1>1, <1>2, TailIs
  <2> QED BY <1>1, <2>1
<1>4. PICK n \in Nat : DOMAIN s.parts = 1 .. n
  BY <1>2, <1>3, PartsAreSeq DEF InForce
<1>5. Claim(s) \in BOOLEAN
  BY DEF Claim
<1>6. DOMAIN Rows(s) = 1 .. n /\ \A i \in 1 .. n : Rows(s)[i][2] = Tells(s, s.parts[i])
  BY <1>4 DEF Rows
<1> HIDE DEF s
<1>7. /\ IsSeq(results') /\ IsSeq(conjuncts') /\ ok' \in BOOLEAN
      /\ ok' => ok /\ Claim(s) /\ Passing' /\ \A i \in 1 .. n : Rows(s)[i][2]
  BY <1>1, <1>2, <1>5, <1>6, RecordIs
<1>8. InForce' = InForce
  BY <1>1, InForceSame
<1>9. ok' => Sound(s)
  BY <1>4, <1>6, <1>7 DEF Sound
<1>10. RowsInv'
  BY <1>1, <1>2, <1>3, <1>7, <1>8 DEF RowsInv
<1>11. DigestInv' /\ TextInv'
  BY <1>1, TextsFrame DEF BeforeExec
<1>12. GreenInv'
  BY <1>1, <1>2, <1>3, <1>7, <1>8, <1>9 DEF GreenInv, SuiteInv
<1>13. NamedInv'
  BY <1>1, <1>2 DEF NamedInv
<1> QED BY <1>10, <1>11, <1>12, <1>13 DEF SuiteInv

LEMMA AbortStep ==
  ASSUME SuiteInv, phase # "idle", UNCHANGED auditVars, Abort
  PROVE  SuiteInv'
<1>1. /\ UNCHANGED <<phase, repo, todo, dir, haveZ3, running, text, next, results, conjuncts, ok>>
      /\ pc = "record" /\ pc' = "done" /\ rc' = 3 /\ said' = said \cup Missing(Ids(results))
  BY DEF auditVars, Abort, dirVars, anchorVars
<1>2. RowsInv'
  BY <1>1, RowsFrame DEF SuiteInv, RowsInv
<1>3. DigestInv' /\ TextInv'
  BY <1>1, TextsFrame DEF BeforeExec
<1>4. GreenInv'
  BY <1>1 DEF GreenInv
<1>5. NamedInv'
  BY <1>1 DEF NamedInv, Named, Missing, ExpectedObligations, Ids
<1> QED BY <1>2, <1>3, <1>4, <1>5 DEF SuiteInv

LEMMA PinRowStep ==
  ASSUME SuiteInv, phase # "idle", UNCHANGED auditVars, PinRow
  PROVE  SuiteInv'
<1> DEFINE parts == [i \in DOMAIN PinParts |-> <<PinParts[i], PinsHold>>]
           n == Len(PinParts)
<1>1. /\ UNCHANGED <<phase, repo, todo, dir, haveZ3, running, text, next, rc, said>>
      /\ pc = "record" /\ next = <<>> /\ pc' = "ids" /\ Record("META-PINS", TRUE, parts)
  BY DEF auditVars, PinRow, dirVars, anchorVars
<1>2. n \in Nat /\ DOMAIN parts = 1 .. n
  BY SuiteAssumption, SeqDomain DEF IsSeq
<1>3. RowsInv /\ rc = -1
  BY <1>1 DEF SuiteInv, RowsInv
<1> HIDE DEF parts, n
<1>4. IsSeq(results') /\ IsSeq(conjuncts') /\ ok' \in BOOLEAN /\ (ok' => ok /\ Passing')
  BY <1>1, <1>2, <1>3, RecordIs
<1>5. InForce' = InForce
  BY <1>1, InForceSame
<1>6. RowsInv'
  BY <1>1, <1>3, <1>4 DEF RowsInv
<1>7. DigestInv' /\ TextInv'
  BY <1>1, TextsFrame DEF BeforeExec
<1>8. ToSet(next) = {}
  BY <1>1, EmptyIs
<1>9. GreenInv'
  BY <1>1, <1>3, <1>4, <1>5, <1>8 DEF GreenInv, SuiteInv
<1>10. NamedInv'
  BY <1>1, <1>3 DEF NamedInv
<1> QED BY <1>6, <1>7, <1>9, <1>10 DEF SuiteInv

LEMMA IdRowStep ==
  ASSUME SuiteInv, phase # "idle", UNCHANGED auditVars, IdRow
  PROVE  SuiteInv'
<1> DEFINE obls  == Append(Ids(results), "META-IDS")
           conjs == Ids(conjuncts) \o [i \in DOMAIN IdParts |-> <<"META-IDS", IdParts[i]>>]
           exact == IdsExact(obls, conjs)
           parts == [i \in DOMAIN IdParts |-> <<IdParts[i], exact[i]>>]
<1>1. /\ UNCHANGED <<phase, repo, todo, dir, haveZ3, running, text, next, rc>>
      /\ pc = "ids" /\ pc' = "tally" /\ said' = said \cup Missing(obls)
      /\ Record("META-IDS", TRUE, parts)
  BY DEF auditVars, IdRow, dirVars, anchorVars
<1>2. DOMAIN IdParts = 1 .. 6
  BY SuiteAssumption, SeqDomain DEF IsSeq
<1>3. DOMAIN parts = 1 .. 6 /\ \A i \in 1 .. 6 : parts[i][1] = IdParts[i] /\ parts[i][2] = exact[i]
  BY <1>2
<1>4. RowsInv /\ rc = -1
  BY <1>1 DEF SuiteInv, RowsInv
<1>5. conjs = Ids(conjuncts) \o [i \in 1 .. 6 |-> <<"META-IDS", parts[i][1]>>]
  BY <1>2
<1> HIDE DEF parts, exact, obls, conjs
<1>6. /\ IsSeq(results') /\ IsSeq(conjuncts') /\ ok' \in BOOLEAN
      /\ ok' => ok /\ Passing' /\ \A i \in 1 .. 6 : parts[i][2]
      /\ Ids(results)' = Append(Ids(results), "META-IDS")
      /\ Ids(conjuncts)' = Ids(conjuncts) \o [i \in 1 .. 6 |-> <<"META-IDS", parts[i][1]>>]
  <2>1. 6 \in Nat
    OBVIOUS
  <2>2. Record("META-IDS", TRUE, parts) /\ DOMAIN parts = 1 .. 6 /\ RowsInv /\ TRUE \in BOOLEAN
    BY <1>1, <1>3, <1>4
  <2> QED BY ONLY <2>1, <2>2, RecordIs
<1>7. Ids(results)' = obls /\ Ids(conjuncts)' = conjs
  BY <1>5, <1>6 DEF obls
<1>8. ASSUME ok' PROVE Exact'
  <2>1. exact[1] /\ exact[2] /\ exact[3] /\ exact[4] /\ exact[5] /\ exact[6]
    BY <1>3, <1>6, <1>8
  <2>2. /\ ToSet(obls) = ToSet(ExpectedObligations) /\ IsInjective(obls)
        /\ ToSet(conjs) = ToSet(ExpectedConjuncts) /\ IsInjective(conjs)
        /\ Len(obls) = Len(ExpectedObligations) /\ Len(conjs) = Len(ExpectedConjuncts)
    BY <2>1 DEF exact, IdsExact
  <2>3. /\ IsSeq(results') /\ IsSeq(conjuncts')
        /\ ExpectedObligations' = ExpectedObligations /\ ExpectedConjuncts' = ExpectedConjuncts
    BY <1>6 DEF ExpectedObligations, ExpectedConjuncts
  <2>4. Len(results') = Len(obls) /\ Len(conjuncts') = Len(conjs)
    BY <1>7, <2>3, IdsIs DEF Ids
  <2> QED BY <1>7, <2>2, <2>3, <2>4 DEF Exact
<1>9. InForce' = InForce
  BY <1>1, InForceSame
<1>10. RowsInv'
  BY <1>1, <1>4, <1>6 DEF RowsInv
<1>11. DigestInv' /\ TextInv'
  BY <1>1, TextsFrame DEF BeforeExec
<1>12. GreenInv'
  BY <1>1, <1>4, <1>6, <1>8, <1>9 DEF GreenInv, SuiteInv
<1>13. NamedInv'
  BY <1>1, <1>7 DEF NamedInv, Named, Missing, ExpectedObligations
<1> QED BY <1>10, <1>11, <1>12, <1>13 DEF SuiteInv

LEMMA TallyStep ==
  ASSUME SuiteInv, phase # "idle", UNCHANGED auditVars, Tally
  PROVE  SuiteInv'
<1>1. /\ UNCHANGED <<phase, repo, todo, dir, haveZ3, running, text, next, results, conjuncts, said>>
      /\ pc = "tally" /\ pc' = "done" /\ rc' = IF ok' THEN 0 ELSE 1
      /\ ok' \in BOOLEAN /\ (ok' => ok)
  BY DEF auditVars, Tally, dirVars, anchorVars
<1>2. Passing' = Passing /\ Exact' = Exact /\ Named' = Named
  BY <1>1, SoundSame
<1>3. InForce' = InForce
  BY <1>1, InForceSame
<1>4. RowsInv'
  BY <1>1, <1>2 DEF SuiteInv, RowsInv
<1>5. DigestInv' /\ TextInv'
  BY <1>1, TextsFrame DEF BeforeExec
<1>6. GreenInv'
  BY <1>1, <1>2, <1>3 DEF GreenInv, SuiteInv
<1>7. NamedInv'
  BY <1>1, <1>2 DEF NamedInv, SuiteInv
<1> QED BY <1>4, <1>5, <1>6, <1>7 DEF SuiteInv

LEMMA SaveStep ==
  ASSUME SuiteInv, phase # "idle", UNCHANGED auditVars, Save
  PROVE  SuiteInv'
<1>1. PICK f \in {"va", "ko"}, t \in SavedTexts : dir' = [dir EXCEPT ![f] = t]
  BY DEF Save
<1>2. UNCHANGED <<haveZ3, pc, text, running, next, results, conjuncts, ok, rc, said, phase, repo, todo>>
  BY DEF Save, auditVars, anchorVars, suiteVars
<1>3. {"va", "ko"} \subseteq DOMAIN dir' /\ dir'.va \in AllTexts /\ dir'.ko \in AllTexts
  BY <1>1 DEF SuiteInv, TextInv, AllTexts
<1>4. Passing' = Passing /\ Exact' = Exact /\ Named' = Named
  BY <1>2, SoundSame
<1>5. InForce' = InForce
  BY <1>2, InForceSame
<1>6. RowsInv'
  BY <1>2, <1>4, <1>5 DEF SuiteInv, RowsInv
<1>7. DigestInv'
  BY <1>2 DEF SuiteInv, DigestInv, ExecutedWasDigested
<1>8. TextInv'
  BY <1>2, <1>3 DEF SuiteInv, TextInv
<1>9. GreenInv' /\ NamedInv'
  BY <1>2, <1>4, <1>5 DEF SuiteInv, GreenInv, NamedInv
<1> QED BY <1>6, <1>7, <1>8, <1>9 DEF SuiteInv

(* The audit between two runs of the suite, and the other two tools. *)
LEMMA SuiteFrame ==
  ASSUME SuiteInv, UNCHANGED vars,
         phase' # "idle" => /\ phase # "idle" /\ repo' = repo
                            /\ IsSeq(todo') /\ ToSet(todo') \subseteq ToSet(Catalogue),
         phase' = "idle" => phase = "idle", phase' = "mutation" => todo' # <<>>
  PROVE  SuiteInv'
<1>1. UNCHANGED <<dir, haveZ3, pc, text, running, next, results, conjuncts, ok, rc, said>>
  BY DEF vars, dirVars, anchorVars, suiteVars
<1>2. Passing' = Passing /\ Exact' = Exact /\ Named' = Named
  BY <1>1, SoundSame
<1>3. InForce' = InForce
  BY <1>1, InForceSame
<1>4. RowsInv'
  BY <1>1, <1>2, <1>3 DEF SuiteInv, RowsInv
<1>5. DigestInv'
  BY <1>1 DEF SuiteInv, DigestInv, ExecutedWasDigested
<1>6. TextInv'
  BY <1>1 DEF SuiteInv, TextInv
<1>7. GreenInv' /\ NamedInv'
  BY <1>1, <1>2, <1>3 DEF SuiteInv, GreenInv, NamedInv
<1> QED BY <1>4, <1>5, <1>6, <1>7 DEF SuiteInv

LEMMA MutateStep ==
  ASSUME SuiteInv, phase # "idle", Mutate
  PROVE  SuiteInv'
<1> DEFINE m == Head(todo)
           d == Sandbox(m)
<1>1. /\ todo # <<>> /\ Run(d) /\ phase' = "mutation" /\ UNCHANGED <<repo, todo>>
  BY DEF Mutate
<1>2. IsSeq(todo) /\ ToSet(todo) \subseteq ToSet(Catalogue) /\ repo \in Trees
  BY DEF SuiteInv, TextInv
<1>3. m \in ToSet(Catalogue)
  BY <1>1, <1>2, TailIs
<1> HIDE DEF m
<1>4. repo.va \in TreeTexts /\ repo.ko \in TreeTexts
  BY <1>2 DEF TreeTexts
<1>5. \A t \in TreeTexts : t \in AllTexts /\ t \cup {m.edit} \in AllTexts
  BY <1>3 DEF AllTexts
<1>6. d.va \in {repo.va, repo.va \cup {m.edit}} /\ d.ko \in {repo.ko, repo.ko \cup {m.edit}}
      /\ {"va", "ko"} \subseteq DOMAIN d
  BY DEF Sandbox
<1>7. d.va \in AllTexts /\ d.ko \in AllTexts
  BY <1>4, <1>5, <1>6
<1> HIDE DEF d
<1>8. /\ dir' = d /\ pc' = "bytecode" /\ running' = Started(d) /\ rc' = -1 /\ ok' = TRUE
      /\ next' = <<>> /\ results' = <<>> /\ conjuncts' = <<>> /\ said' = {}
  BY <1>1 DEF Run
<1>9. running'.va = d.va /\ running'.ko = Absent /\ DOMAIN running' = {"va", "ko", "table"}
  BY <1>8 DEF Started
<1>10. IsSeq(next') /\ IsSeq(results') /\ IsSeq(conjuncts') /\ Passing'
  BY <1>8, EmptyIs DEF Passing
<1>11. RowsInv'
  BY <1>8, <1>10 DEF RowsInv, BeforeExec
<1>12. DigestInv'
  BY <1>8, <1>9 DEF DigestInv, BeforeExec, ExecutedWasDigested
<1>13. TextInv'
  BY <1>1, <1>2, <1>6, <1>7, <1>8, <1>9 DEF TextInv
<1>14. GreenInv' /\ NamedInv'
  BY <1>8 DEF GreenInv, NamedInv
<1> QED BY <1>11, <1>12, <1>13, <1>14 DEF SuiteInv

LEMMA SelectedType ==
  ASSUME NEW ids, NEW chosen, chosen = Only(Catalogue, LAMBDA m : ids = {} \/ m.id \in ids)
  PROVE  IsSeq(chosen) /\ ToSet(chosen) \subseteq ToSet(Catalogue)
<1> DEFINE C == ToSet(Catalogue)
           f == [i \in DOMAIN Catalogue |->
                   IF ids = {} \/ Catalogue[i].id \in ids THEN <<Catalogue[i]>> ELSE <<>>]
<1>1. Len(Catalogue) \in Nat /\ DOMAIN Catalogue = 1 .. Len(Catalogue)
      /\ \A i \in DOMAIN Catalogue : Catalogue[i] \in C
  BY ChecksAssumption, SeqDomain DEF IsSeq, ToSet
<1>2. <<>> \in Seq(C) /\ \A e \in C : <<e>> \in Seq(C)
  <2> HIDE DEF C
  <2> QED OBVIOUS
<1>3. f \in [1 .. Len(Catalogue) -> Seq(C)]
  BY <1>1, <1>2
<1>4. f \in Seq(Seq(C))
  BY <1>1, <1>3, SeqDef
<1>5. chosen = FlattenSeq(f)
  BY DEF Only
<1> QED BY <1>4, <1>5, FlattenType, IntoSeq

LEMMA SuiteStarts ==
  ASSUME NEW d, SuiteInit(d),
         phase # "idle" => /\ phase # "mutation" /\ d \in Trees /\ repo = d
                           /\ IsSeq(todo) /\ ToSet(todo) \subseteq ToSet(Catalogue)
  PROVE  SuiteInv
<1>1. /\ dir = d /\ pc = "bytecode" /\ running = Started(d) /\ rc = -1 /\ ok = TRUE
      /\ next = <<>> /\ results = <<>> /\ conjuncts = <<>> /\ said = {}
  BY DEF SuiteInit
<1>2. running.va = d.va /\ running.ko = Absent /\ DOMAIN running = {"va", "ko", "table"}
  BY <1>1 DEF Started
<1>3. IsSeq(next) /\ IsSeq(results) /\ IsSeq(conjuncts) /\ Passing
  BY <1>1, EmptyIs DEF Passing
<1>4. RowsInv
  BY <1>1, <1>3 DEF RowsInv, BeforeExec
<1>5. DigestInv
  BY <1>1, <1>2 DEF DigestInv, BeforeExec, ExecutedWasDigested
<1>6. TextInv
  <2>1. d \in Trees => d.va \in AllTexts /\ d.ko \in AllTexts /\ {"va", "ko"} \subseteq DOMAIN d
    BY ChecksAssumption DEF AllTexts, TreeTexts
  <2> QED BY <1>1, <1>2, <2>1 DEF TextInv
<1>7. GreenInv /\ NamedInv
  BY <1>1 DEF GreenInv, NamedInv
<1> QED BY <1>4, <1>5, <1>6, <1>7 DEF SuiteInv

LEMMA SuiteInvInit == ToolsInit => SuiteInv
<1>1. ASSUME AuditInit PROVE SuiteInv
  <2>1. phase # "mutation" /\ repo \in Trees /\ SuiteInit(repo) /\ todo = Only(Catalogue, LAMBDA m : sel = {} \/ m.id \in sel)
    BY <1>1 DEF AuditInit
  <2>2. IsSeq(todo) /\ ToSet(todo) \subseteq ToSet(Catalogue)
    BY <2>1, SelectedType DEF Only
  <2> QED BY <2>1, <2>2, SuiteStarts
<1>2. SuiteIdle => SuiteInv
  <2> SUFFICES ASSUME SuiteIdle PROVE SuiteInv
    OBVIOUS
  <2>1. SuiteInit(repo) /\ phase = "idle"
    BY DEF SuiteIdle
  <2> HIDE DEF SuiteIdle
  <2> QED BY <2>1, SuiteStarts, SMT
<1> QED BY <1>1, <1>2 DEF ToolsInit

LEMMA SuiteInvStep ==
  SuiteInv /\ [ToolsNext]_<<vars, auditVars, leanVars, hypVars>> => SuiteInv'
<1> SUFFICES ASSUME SuiteInv, [ToolsNext]_<<vars, auditVars, leanVars, hypVars>> PROVE SuiteInv'
  OBVIOUS
<1>1. \/ IsSeq(todo) /\ ToSet(todo) \subseteq ToSet(Catalogue)
      \/ phase = "idle"
  BY DEF SuiteInv, TextInv
<1>2. ASSUME UNCHANGED <<vars, auditVars>> PROVE SuiteInv'
  <2>1. UNCHANGED <<vars, phase, repo, todo>>
    BY <1>2 DEF auditVars
  <2>2. phase = "mutation" => todo # <<>>
    BY DEF SuiteInv, TextInv
  <2> QED BY <1>1, <2>1, <2>2, SuiteFrame
<1>3. ASSUME phase # "idle", AuditNext PROVE SuiteInv'
  <2>1. CASE Suite
    <3>1. UNCHANGED auditVars /\ SuiteStep
      BY <2>1 DEF Suite
    <3> QED BY <1>3, <3>1, AnchorSteps, ExecStep, RecordNextStep, AbortStep, PinRowStep, IdRowStep,
               TallyStep DEF SuiteStep
  <2>2. CASE SaveWhileAlone
    BY <1>3, <2>2, SaveStep DEF SaveWhileAlone
  <2>3. CASE Baseline
    <3>1. UNCHANGED <<vars, repo, todo>> /\ phase' \notin {"idle", "mutation"}
      BY <2>3 DEF Baseline
    <3> QED BY <1>1, <1>3, <3>1, SuiteFrame
  <2>4. ASSUME StalePattern \/ Judged PROVE SuiteInv'
    <3>1. UNCHANGED <<vars, repo>> /\ phase' \notin {"idle", "mutation"} /\ todo' = Tail(todo)
      BY <1>3, <2>4 DEF StalePattern, Judged
    <3>2. todo # <<>>
      BY <2>4 DEF StalePattern, Judged, SuiteInv, TextInv
    <3>3. IsSeq(todo') /\ ToSet(todo') \subseteq ToSet(Catalogue)
      BY <1>1, <1>3, <3>1, <3>2, TailIs
    <3> QED BY <1>3, <3>1, <3>3, SuiteFrame
  <2>5. CASE Mutate
    BY <1>3, <2>5, MutateStep
  <2>6. CASE Verdict
    <3>1. UNCHANGED <<vars, repo, todo>> /\ phase' \notin {"idle", "mutation"}
      BY <2>6 DEF Verdict
    <3> QED BY <1>1, <1>3, <3>1, SuiteFrame
  <2> QED BY <1>3, <2>1, <2>2, <2>3, <2>4, <2>5, <2>6 DEF AuditNext
<1> QED BY <1>2, <1>3 DEF ToolsNext

LEMMA SuiteInvariant == ToolsSpec => []SuiteInv
  BY SuiteInvInit, SuiteInvStep, PTL DEF ToolsSpec

(* The kernel obligations that run are those whose digest the anchor       *)
(* compared, whatever is saved meanwhile.                                  *)
THEOREM SuiteExecutesTheDigested == ToolsSpec => []ExecutedWasDigested
<1>1. SuiteInv => ExecutedWasDigested
  BY DEF SuiteInv, DigestInv
<1> QED BY <1>1, SuiteInvariant, PTL

(* Every pinned obligation is a row or is named as missing, after an       *)
(* exception as well, whatever the pins, the edits and the order of the    *)
(* statements.                                                             *)
THEOREM SuiteNamesEveryObligation == ToolsSpec => []NoneSilent
<1>1. SuiteInv => NoneSilent
  BY DEF SuiteInv, NamedInv, NoneSilent, Named
<1> QED BY <1>1, SuiteInvariant, PTL

(* Exit 0 is the pinned ids, each once, and no broken kernel or idle       *)
(* statement that a conjunct guards, for every suite.                      *)
THEOREM SuiteGreenIsSound == ToolsSpec => []GreenIsSound
<1>1. ASSUME SuiteInv PROVE GreenIsSound
  <2> SUFFICES ASSUME rc = 0 PROVE GreenIsSound
    BY DEF GreenIsSound
  <2>1. ok /\ Passing /\ Exact /\ \A s \in ToSet(InForce) : Sound(s)
    BY <1>1 DEF SuiteInv, RowsInv, GreenInv
  <2>2. running.va \in AllTexts /\ running.ko \in AllTexts
    BY <1>1 DEF SuiteInv, TextInv
  <2>3. ASSUME NEW s \in ToSet(Phases(running.va, running.ko)),
               s.kernel = "broken" \/ s.premises = "unsat" \/ s.predicate # "right"
        PROVE  s.predicate = "true" /\ ~Guarded(s)
    <3>1. Claim(s) /\ \A i \in DOMAIN s.parts : Tells(s, s.parts[i])
      BY <2>1 DEF Sound, InForce
    <3>2. s.premises # "unsat"
      <4> SUFFICES ASSUME s.premises = "unsat" PROVE FALSE
        OBVIOUS
      <4>1. PICK i \in DOMAIN s.parts : s.parts[i].tells = "premises_sat"
        BY <2>2, PremisesGuarded
      <4> QED BY <3>1, <4>1 DEF Tells
    <3>3. s.predicate = "true"
      BY <2>3, <3>1, <3>2 DEF Claim
    <3>4. ASSUME NEW i \in DOMAIN s.parts, s.parts[i].tells \in {"rejects", "discriminate"} PROVE FALSE
      <4>1. Tells(s, s.parts[i])
        BY <3>1
      <4> QED BY <3>3, <3>4, <4>1 DEF Tells
    <3> QED BY <3>3, <3>4 DEF Guarded
  <2> QED BY <2>1, <2>3 DEF GreenIsSound, Passing, Exact
<1> QED BY <1>1, SuiteInvariant, PTL

-----------------------------------------------------------------------------
(* The audit. *)

(* The text a reviewed statement is taken from, and what is done to it.    *)
KindsIn(va, ko, i) ==
  Kinds(IF Reviewed[i].phase = "kernel" THEN ko ELSE va, Reviewed[i])

LEMMA PhaseOf ==
  ASSUME NEW V, NEW stmts \in Seq(V), NEW ph
  PROVE  ToSet(Phase(stmts, ph)) \subseteq {v \in V : v.phase = ph}
<1> DEFINE W == {v \in V : v.phase = ph}
           f == [i \in DOMAIN stmts |-> IF stmts[i].phase = ph THEN <<stmts[i]>> ELSE <<>>]
<1>1. Len(stmts) \in Nat /\ DOMAIN stmts = 1 .. Len(stmts) /\ \A i \in DOMAIN stmts : stmts[i] \in V
  BY LenProperties, ElementOfSeq
<1>2. \A i \in DOMAIN stmts : stmts[i].phase = ph => stmts[i] \in W
  BY <1>1
<1> HIDE DEF W
<1>3. <<>> \in Seq(W) /\ \A e \in W : <<e>> \in Seq(W)
  OBVIOUS
<1>4. f \in [1 .. Len(stmts) -> Seq(W)]
  BY <1>1, <1>2, <1>3
<1>5. f \in Seq(Seq(W))
  BY <1>1, <1>4, SeqDef
<1>6. Phase(stmts, ph) = FlattenSeq(f)
  BY DEF Phase, Only
<1> QED BY <1>5, <1>6, FlattenType, IntoSeq DEF W

(* A statement that runs is a reviewed one, changed by the edits in the    *)
(* text of its phase.                                                      *)
LEMMA RunIsReviewed ==
  ASSUME NEW va, NEW ko, NEW s \in ToSet(Phases(va, ko)), s # NoSolver
  PROVE  \E i \in DOMAIN Reviewed : s = Statement(Reviewed[i], KindsIn(va, ko, i))
<1> DEFINE v == Statements(va, Reviewed)
           k == Statements(ko, Reviewed)
           smt == IF haveZ3 THEN Phase(v, "smt") ELSE <<NoSolver>>
<1>1. v \in Seq(Variants(va)) /\ k \in Seq(Variants(ko))
  BY StatementsType
<1>2. <<NoSolver>> \in Seq({NoSolver})
  OBVIOUS
<1> HIDE DEF v, k
<1>3. /\ IsSeq(Phase(v, "calc")) /\ IsSeq(Phase(v, "smt")) /\ IsSeq(Phase(v, "exh"))
      /\ IsSeq(Phase(k, "kernel")) /\ IsSeq(<<NoSolver>>) /\ ToSet(<<NoSolver>>) \subseteq {NoSolver}
  BY <1>1, <1>2, PhaseType, IntoSeq
<1>4. IsSeq(smt) /\ ToSet(smt) \subseteq ToSet(Phase(v, "smt")) \cup {NoSolver}
  BY <1>3
<1> HIDE DEF smt
<1>5. ToSet(Phases(va, ko)) =
        ToSet(Phase(v, "calc")) \cup ToSet(smt) \cup ToSet(Phase(v, "exh")) \cup ToSet(Phase(k, "kernel"))
  <2>1. Phases(va, ko) = ((Phase(v, "calc") \o smt) \o Phase(v, "exh")) \o Phase(k, "kernel")
    BY DEF Phases, v, k, smt
  <2>2. IsSeq(Phase(v, "calc") \o smt)
        /\ ToSet(Phase(v, "calc") \o smt) = ToSet(Phase(v, "calc")) \cup ToSet(smt)
    BY <1>3, <1>4, ConcatIs
  <2>3. IsSeq((Phase(v, "calc") \o smt) \o Phase(v, "exh"))
        /\ ToSet((Phase(v, "calc") \o smt) \o Phase(v, "exh")) =
             ToSet(Phase(v, "calc")) \cup ToSet(smt) \cup ToSet(Phase(v, "exh"))
    BY <1>3, <2>2, ConcatIs
  <2> QED BY <1>3, <2>1, <2>3, ConcatIs
<1>6. \/ s \in Variants(va) /\ s.phase \in {"calc", "smt", "exh"}
      \/ s \in Variants(ko) /\ s.phase = "kernel"
  <2>1. /\ ToSet(Phase(v, "calc")) \subseteq {x \in Variants(va) : x.phase = "calc"}
        /\ ToSet(Phase(v, "smt")) \subseteq {x \in Variants(va) : x.phase = "smt"}
        /\ ToSet(Phase(v, "exh")) \subseteq {x \in Variants(va) : x.phase = "exh"}
        /\ ToSet(Phase(k, "kernel")) \subseteq {x \in Variants(ko) : x.phase = "kernel"}
    BY <1>1, PhaseOf
  <2>2. s \in ToSet(Phase(v, "calc")) \cup ToSet(Phase(v, "smt")) \cup ToSet(Phase(v, "exh"))
             \cup ToSet(Phase(k, "kernel"))
    BY <1>4, <1>5
  <2> QED BY <2>1, <2>2
<1>7. ASSUME NEW txt, NEW i \in DOMAIN Reviewed, s = Statement(Reviewed[i], Kinds(txt, Reviewed[i]))
      PROVE  s.phase = Reviewed[i].phase
  BY <1>7 DEF Statement
<1>8. CASE s \in Variants(va) /\ s.phase \in {"calc", "smt", "exh"}
  <2>1. PICK i \in DOMAIN Reviewed : s = Statement(Reviewed[i], Kinds(va, Reviewed[i]))
    BY <1>8 DEF Variants
  <2>2. Reviewed[i].phase # "kernel"
    BY <1>7, <1>8, <2>1
  <2> QED BY <2>1, <2>2 DEF KindsIn
<1>9. CASE s \in Variants(ko) /\ s.phase = "kernel"
  <2>1. PICK i \in DOMAIN Reviewed : s = Statement(Reviewed[i], Kinds(ko, Reviewed[i]))
    BY <1>9 DEF Variants
  <2>2. Reviewed[i].phase = "kernel"
    BY <1>7, <1>9, <2>1
  <2> QED BY <2>1, <2>2 DEF KindsIn
<1> QED BY <1>6, <1>8, <1>9

(* What the rest needs of a statement as it runs. *)
LEMMA StatementIs ==
  ASSUME NEW i \in DOMAIN Reviewed, NEW kinds
  PROVE  LET s == Statement(Reviewed[i], kinds)
         IN  /\ s.id = IF "rename" \in kinds THEN "renamed" ELSE Reviewed[i].id
             /\ DOMAIN s.parts = DOMAIN Reviewed[i].parts
             /\ \A j \in DOMAIN s.parts :
                  /\ s.parts[j].name = Reviewed[i].parts[j].name
                  /\ s.parts[j].tells = IF "gutpart" \in kinds /\ j = 1 THEN "nothing"
                                        ELSE Reviewed[i].parts[j].tells
             /\ "gut" \in kinds <=> s.predicate = "true"
             /\ "contradict" \in kinds <=> s.premises = "unsat"
  BY DEF Statement

(* A row about an idle statement or conjunct of the audited tree that      *)
(* passes because of it.                                                   *)
Idles(i) == KindsIn(repo.va, repo.ko, i)
IdlePart(i, j) ==
  \/ "gutpart" \in Idles(i) /\ j = 1
  \/ "gut" \in Idles(i) /\ Reviewed[i].parts[j].tells \in {"claim", "accepts"}
IdleRow(row) ==
  \E i \in DOMAIN Reviewed :
    \/ row = <<Reviewed[i].id>> /\ Reviewed[i].parts = <<>> /\ "gut" \in Idles(i)
    \/ \E j \in DOMAIN Reviewed[i].parts :
         row = <<Reviewed[i].id, Reviewed[i].parts[j].name>> /\ IdlePart(i, j)

(* More edits do not make it fail. *)
LEMMA IdleStaysIdle ==
  ASSUME NEW i \in DOMAIN Reviewed, NEW kinds, Idles(i) \subseteq kinds
  PROVE  LET s == Statement(Reviewed[i], kinds)
         IN  /\ \A j \in DOMAIN s.parts : IdlePart(i, j) => Tells(s, s.parts[j])
             /\ "gut" \in Idles(i) => Claim(s)
<1> DEFINE s == Statement(Reviewed[i], kinds)
<1>1. "gut" \in Idles(i) => s.predicate = "true" /\ Claim(s)
  BY StatementIs DEF Claim
<1>2. ASSUME NEW j \in DOMAIN s.parts, IdlePart(i, j) PROVE Tells(s, s.parts[j])
  <2>1. s.parts[j].tells = IF "gutpart" \in kinds /\ j = 1 THEN "nothing"
                           ELSE Reviewed[i].parts[j].tells
    BY StatementIs
  <2> HIDE DEF s
  <2>2. \/ s.parts[j].tells = "nothing"
        \/ s.parts[j].tells = "claim" /\ s.predicate = "true" /\ Claim(s)
        \/ s.parts[j].tells = "accepts" /\ s.predicate = "true"
    BY <1>1, <1>2, <2>1 DEF IdlePart
  <2>3. CASE s.parts[j].tells = "nothing"
    BY <2>3 DEF Tells
  <2>4. CASE s.parts[j].tells = "claim" /\ Claim(s)
    BY <2>4 DEF Tells
  <2>5. CASE s.parts[j].tells = "accepts" /\ s.predicate = "true"
    BY <2>5 DEF Tells
  <2> QED BY <2>2, <2>3, <2>4, <2>5
<1> QED BY <1>1, <1>2

(* What the rows of a run say, and of whom.                                *)
OwnRows == {"META-PINS", "META-IDS"}
AllPass == \A x \in ToSet(results) : x.pass
Shown(s) ==
  /\ \E x \in ToSet(results) : x.id = s.id
  /\ \A j \in DOMAIN s.parts : \E x \in ToSet(conjuncts) : x.id = <<s.id, s.parts[j].name>>
RowBlames(x) ==
  x.pass \/ x.id \in OwnRows \/ \E s \in ToSet(InForce) : x.id = s.id /\ ~Sound(s)
PartBlames(x) ==
  \/ x.pass \/ x.id[1] \in OwnRows
  \/ \E s \in ToSet(InForce) : \E j \in DOMAIN s.parts :
       x.id = <<s.id, s.parts[j].name>> /\ ~Tells(s, s.parts[j])

Recorded ==
  /\ \A x \in ToSet(results) : RowBlames(x)
  /\ \A x \in ToSet(conjuncts) : PartBlames(x)

(* Every statement in force is still to come or has its row and one of each*)
(* conjunct, a failing row is of what is not so, and ok is lost with a row.*)
RecordInv ==
  /\ pc \in BeforeExec \/ rc = 2 => results = <<>> /\ conjuncts = <<>> /\ said = {}
  /\ pc = "done" => rc \in {0, 1, 2, 3}
  /\ pc # "done" /\ AllPass => ok
  /\ rc = 1 => ~AllPass
  /\ rc = 3 => said # {}
  /\ pc = "record" => \A x \in ToSet(results) : x.id # "META-PINS"
  /\ Recorded
  /\ pc = "record" => \A s \in ToSet(InForce) : s \in ToSet(next) \/ Shown(s)
  /\ pc \in {"ids", "tally"} \/ rc \in {0, 1} => \A s \in ToSet(InForce) : Shown(s)

(* x is the row of one conjunct of an obligation. *)
IsPart(x, oid, part) == x.id = <<oid, part[1]>> /\ (x.pass <=> part[2])

LEMMA RecordSets ==
  ASSUME NEW oid, NEW claim \in BOOLEAN, NEW n \in Nat, NEW parts, DOMAIN parts = 1 .. n,
         RowsInv, Record(oid, claim, parts)
  PROVE  \E row :
           /\ row.id = oid /\ (row.pass <=> claim /\ \A i \in 1 .. n : parts[i][2])
           /\ ToSet(results') = ToSet(results) \cup {row}
           /\ ToSet(conjuncts) \subseteq ToSet(conjuncts')
           /\ \A i \in 1 .. n : \E x \in ToSet(conjuncts') : IsPart(x, oid, parts[i])
           /\ \A x \in ToSet(conjuncts') :
                \/ x \in ToSet(conjuncts)
                \/ \E i \in 1 .. n : IsPart(x, oid, parts[i])
           /\ ok' <=> ok /\ row.pass
<1> DEFINE row  == [id |-> oid, pass |-> claim /\ \A i \in 1 .. n : parts[i][2]]
           more == [i \in 1 .. n |-> [id |-> <<oid, parts[i][1]>>, pass |-> parts[i][2]]]
<1>1. results' = Append(results, row) /\ conjuncts' = conjuncts \o more /\ ok' = (ok /\ row.pass)
  BY DEF Record
<1>2. IsSeq(results) /\ IsSeq(conjuncts)
  BY DEF RowsInv
<1>3. /\ \A x \in ToSet(more) : \E i \in 1 .. n : IsPart(x, oid, parts[i])
      /\ \A i \in 1 .. n : \E x \in ToSet(more) : IsPart(x, oid, parts[i])
  <2>1. \A i \in 1 .. n : IsPart(more[i], oid, parts[i])
    BY DEF IsPart
  <2>2. DOMAIN more = 1 .. n
    OBVIOUS
  <2> HIDE DEF more
  <2> QED BY <2>1, <2>2 DEF ToSet
<1>7. row.id = oid /\ (row.pass <=> claim /\ \A i \in 1 .. n : parts[i][2])
  OBVIOUS
<1>4. IsSeq(more)
  <2>1. more = [i \in 1 .. n |-> more[i]]
    OBVIOUS
  <2> HIDE DEF more
  <2> QED BY <2>1, BuiltIs
<1> HIDE DEF row, more
<1>5. ToSet(results') = ToSet(results) \cup {row}
  BY <1>1, <1>2, AppendIs
<1>6. ToSet(conjuncts') = ToSet(conjuncts) \cup ToSet(more)
  BY <1>1, <1>2, <1>4, ConcatIs
<1> QED BY <1>1, <1>3, <1>5, <1>6, <1>7

(* A statement's own rows, and those of the suite.                         *)
LEMMA RecordBlames ==
  ASSUME NEW s \in ToSet(InForce), NEW n \in Nat, DOMAIN s.parts = 1 .. n, RowsInv,
         Recorded, Record(s.id, Claim(s), Rows(s)), UNCHANGED <<haveZ3, running>>
  PROVE  /\ Recorded' /\ Shown(s)'
         /\ \A x \in ToSet(results') : x \in ToSet(results) \/ x.id = s.id
         /\ (AllPass => ok) => (AllPass' => ok')
<1>0. PICK oid, rows, claim :
           claim \in BOOLEAN /\ oid = s.id /\ rows = Rows(s) /\ claim = Claim(s) /\ Record(oid, claim, rows)
  <2>1. Claim(s) \in BOOLEAN
    BY DEF Claim
  <2> QED BY <2>1
<1>1. DOMAIN rows = 1 .. n /\ \A i \in 1 .. n : rows[i] = <<s.parts[i].name, Tells(s, s.parts[i])>>
  BY <1>0 DEF Rows
<1>2. PICK row :
           /\ row.id = oid /\ (row.pass <=> claim /\ \A i \in 1 .. n : rows[i][2])
           /\ ToSet(results') = ToSet(results) \cup {row}
           /\ ToSet(conjuncts) \subseteq ToSet(conjuncts')
           /\ \A i \in 1 .. n : \E x \in ToSet(conjuncts') : IsPart(x, oid, rows[i])
           /\ \A x \in ToSet(conjuncts') :
                \/ x \in ToSet(conjuncts)
                \/ \E i \in 1 .. n : IsPart(x, oid, rows[i])
           /\ ok' <=> ok /\ row.pass
  <2>1. claim \in BOOLEAN /\ Record(oid, claim, rows) /\ DOMAIN rows = 1 .. n
    BY <1>0, <1>1
  <2> QED BY ONLY <2>1, RecordSets, RowsInv, n \in Nat
<1>3. InForce' = InForce
  BY InForceSame
<1>4. row.id = s.id /\ (row.pass <=> Sound(s))
  BY <1>0, <1>1, <1>2 DEF Sound
<1>5. \A x \in ToSet(results') : RowBlames(x)'
  BY <1>2, <1>3, <1>4 DEF Recorded, RowBlames
<1>6. ASSUME NEW x \in ToSet(conjuncts') PROVE PartBlames(x)'
  <2>1. CASE x \in ToSet(conjuncts)
    BY <1>3, <2>1 DEF Recorded, PartBlames
  <2>2. CASE x \notin ToSet(conjuncts)
    <3>1. PICK i \in 1 .. n : IsPart(x, oid, rows[i])
      BY <1>2, <1>6, <2>2
    <3>2. x.id = <<s.id, s.parts[i].name>> /\ (x.pass <=> Tells(s, s.parts[i])) /\ i \in DOMAIN s.parts
      BY <1>0, <1>1, <3>1 DEF IsPart
    <3> QED BY <1>3, <3>2 DEF PartBlames
  <2> QED BY <2>1, <2>2
<1>7. Shown(s)'
  <2>1. ASSUME NEW j \in DOMAIN s.parts
        PROVE  \E x \in ToSet(conjuncts') : x.id = <<s.id, s.parts[j].name>>
    <3>1. PICK x \in ToSet(conjuncts') : IsPart(x, oid, rows[j])
      BY <1>2
    <3> QED BY <1>0, <1>1, <3>1 DEF IsPart
  <2> QED BY <1>2, <1>4, <2>1 DEF Shown
<1>8. AllPass' => AllPass /\ row.pass
  BY <1>2 DEF AllPass
<1> QED BY <1>2, <1>4, <1>5, <1>6, <1>7, <1>8 DEF Recorded

LEMMA OwnRecordBlames ==
  ASSUME NEW oid \in OwnRows, NEW n \in Nat, NEW parts, DOMAIN parts = 1 .. n, RowsInv,
         Recorded, Record(oid, TRUE, parts), UNCHANGED <<haveZ3, running>>
  PROVE  /\ Recorded'
         /\ \A s : Shown(s) => Shown(s)'
         /\ (AllPass => ok) => (AllPass' => ok')
<1>1. PICK row :
           /\ row.id = oid
           /\ ToSet(results') = ToSet(results) \cup {row}
           /\ ToSet(conjuncts) \subseteq ToSet(conjuncts')
           /\ \A i \in 1 .. n : \E x \in ToSet(conjuncts') : IsPart(x, oid, parts[i])
           /\ \A x \in ToSet(conjuncts') :
                \/ x \in ToSet(conjuncts)
                \/ \E i \in 1 .. n : IsPart(x, oid, parts[i])
           /\ ok' <=> ok /\ row.pass
  BY RecordSets
<1>2. InForce' = InForce
  BY InForceSame
<1>3. \A x \in ToSet(conjuncts') : x \in ToSet(conjuncts) \/ x.id[1] \in OwnRows
  BY <1>1 DEF IsPart
<1>4. \A x \in ToSet(results') : RowBlames(x)'
  BY <1>1, <1>2 DEF Recorded, RowBlames
<1>5. \A x \in ToSet(conjuncts') : PartBlames(x)'
  BY <1>2, <1>3 DEF Recorded, PartBlames
<1>6. ToSet(results) \subseteq ToSet(results') /\ ToSet(conjuncts) \subseteq ToSet(conjuncts')
  BY <1>1
<1>7. \A s : Shown(s) => Shown(s)'
  BY <1>6 DEF Shown
<1>8. AllPass' => AllPass /\ row.pass
  BY <1>1 DEF AllPass
<1> QED BY <1>1, <1>4, <1>5, <1>7, <1>8 DEF Recorded

LEMMA RecordedFrame ==
  ASSUME Recorded, UNCHANGED <<results, conjuncts>>, InForce' = InForce \/ (results = <<>> /\ conjuncts = <<>>)
  PROVE  Recorded'
<1>1. CASE InForce' = InForce
  BY <1>1 DEF Recorded, RowBlames, PartBlames
<1>2. CASE results = <<>> /\ conjuncts = <<>>
  <2>1. ToSet(results') = {} /\ ToSet(conjuncts') = {}
    BY <1>2, EmptyIs
  <2> QED BY <2>1 DEF Recorded
<1> QED BY <1>1, <1>2

LEMMA RecordInvAnchor ==
  ASSUME SuiteInv, RecordInv, phase # "idle",
         NoShadowingBytecode \/ CheckScript \/ ReadPins \/ ReadSelf \/ ReadKernel
  PROVE  RecordInv'
<1> DEFINE Goes == /\ pc \in BeforeExec /\ UNCHANGED <<results, conjuncts, said, ok, haveZ3, next>>
                   /\ \/ pc' \in BeforeExec /\ rc' = rc
                      \/ pc' = "done" /\ rc' = 2
<1>1. Goes
  <2>1. Refuse => pc' = "done" /\ rc' = 2 /\ UNCHANGED <<results, conjuncts, said, ok, haveZ3, next>>
    BY DEF Refuse, dirVars
  <2>2. NoShadowingBytecode \/ CheckScript => Goes
    BY <2>1 DEF NoShadowingBytecode, CheckScript, BeforeExec, dirVars, suiteVars
  <2>3. ReadPins => Goes
    BY <2>1 DEF ReadPins, BeforeExec, dirVars, suiteVars
  <2>4. ReadSelf => Goes
    BY <2>1 DEF ReadSelf, BeforeExec, dirVars, suiteVars
  <2>5. ReadKernel => Goes
    BY <2>1 DEF ReadKernel, BeforeExec, dirVars, suiteVars
  <2> QED BY <2>2, <2>3, <2>4, <2>5
<1>2. rc = -1
  BY <1>1 DEF SuiteInv, RowsInv, BeforeExec
<1>3. results = <<>> /\ conjuncts = <<>> /\ said = {} /\ Recorded
  BY <1>1 DEF RecordInv
<1>4. Recorded'
  BY <1>1, <1>3, RecordedFrame
<1>5. AllPass' = AllPass
  BY <1>1 DEF AllPass
<1>6. pc # "done" /\ pc' \notin {"record", "ids", "tally"} /\ rc' \notin {0, 1, 3}
  BY <1>1, <1>2 DEF BeforeExec
<1>7. AllPass => ok
  BY <1>6 DEF RecordInv
<1>8. /\ results' = <<>> /\ conjuncts' = <<>> /\ said' = {} /\ (AllPass' => ok')
      /\ pc' = "done" => rc' = 2
  BY <1>1, <1>3, <1>5, <1>7 DEF BeforeExec
<1> HIDE DEF Goes
<1> QED BY <1>4, <1>6, <1>8 DEF RecordInv

LEMMA RecordInvExec ==
  ASSUME SuiteInv, RecordInv, phase # "idle", ExecKernel
  PROVE  RecordInv'
<1>1. /\ pc = "exec" /\ pc' = "record" /\ UNCHANGED <<results, conjuncts, said, ok, rc, haveZ3>>
      /\ running' = [running EXCEPT !.ko = text] /\ next' = Phases(running.va, text)
  BY DEF ExecKernel, dirVars
<1>2. rc = -1 /\ DOMAIN running = {"va", "ko", "table"}
  BY <1>1 DEF SuiteInv, RowsInv, DigestInv
<1>3. results = <<>> /\ conjuncts = <<>> /\ Recorded /\ (AllPass => ok)
  BY <1>1 DEF RecordInv, BeforeExec
<1>4. Recorded'
  BY <1>1, <1>3, RecordedFrame
<1>5. AllPass' = AllPass
  BY <1>1 DEF AllPass
<1>6. InForce' = next'
  <2>1. running'.va = running.va /\ running'.ko = text
    BY <1>1, <1>2
  <2>2. InForce' = Phases(running.va, text)
    BY <1>1, <2>1, InForceIs
  <2> QED BY <1>1, <2>2
<1>7. ToSet(results') = {}
  BY <1>1, <1>3, EmptyIs
<1> QED BY <1>1, <1>2, <1>3, <1>4, <1>5, <1>6, <1>7 DEF RecordInv, BeforeExec

(* No statement has an id of the suite's own rows. *)
LEMMA NotOwnRow ==
  ASSUME NEW va, NEW ko, NEW s \in ToSet(Phases(va, ko))
  PROVE  s.id \notin OwnRows
<1>1. CASE s = NoSolver
  <2>1. s.id \in {"S*", "renamed"}
    BY <1>1 DEF NoSolver, Statement
  <2> QED BY <2>1 DEF OwnRows
<1>2. CASE s # NoSolver
  <2>1. PICK i \in DOMAIN Reviewed : s = Statement(Reviewed[i], KindsIn(va, ko, i))
    BY <1>2, RunIsReviewed
  <2>2. s.id \in {Reviewed[i].id, "renamed"}
    BY <2>1, StatementIs
  <2>3. Reviewed[i].id \notin {"renamed", "S*", "META-PINS", "META-IDS"}
    BY AuditAssumption
  <2> QED BY <2>2, <2>3 DEF OwnRows
<1> QED BY <1>1, <1>2

LEMMA RecordInvNext ==
  ASSUME SuiteInv, RecordInv, phase # "idle", RecordNext
  PROVE  RecordInv'
<1>0. PICK s : s = Head(next)
  OBVIOUS
<1>1. /\ UNCHANGED <<haveZ3, running, rc, said, pc>>
      /\ pc = "record" /\ next # <<>> /\ next' = Tail(next)
      /\ Record(s.id, Claim(s), Rows(s))
  BY <1>0 DEF RecordNext, dirVars, anchorVars
<1>2. RowsInv /\ IsSeq(next) /\ ToSet(next) \subseteq ToSet(InForce) /\ rc = -1
  BY <1>1 DEF SuiteInv, RowsInv
<1>3. s \in ToSet(InForce) /\ ToSet(next) = {s} \cup ToSet(next')
  <2>1. Head(next) \in ToSet(next) /\ ToSet(next) = {Head(next)} \cup ToSet(Tail(next))
    BY <1>1, <1>2, TailIs
  <2> QED BY <1>0, <1>1, <1>2, <2>1
<1>4. PICK n \in Nat : DOMAIN s.parts = 1 .. n
  BY <1>3, PartsAreSeq DEF InForce
<1>5. s.id # "META-PINS"
  BY <1>3, NotOwnRow DEF InForce, OwnRows
<1>6. Recorded /\ (AllPass => ok)
  BY <1>1 DEF RecordInv
<1>7. /\ Recorded' /\ Shown(s)'
      /\ \A x \in ToSet(results') : x \in ToSet(results) \/ x.id = s.id
      /\ AllPass' => ok'
  BY <1>1, <1>2, <1>3, <1>4, <1>6, RecordBlames
<1>8. \A t : Shown(t) => Shown(t)'
  <2>1. ToSet(results) \subseteq ToSet(results') /\ ToSet(conjuncts) \subseteq ToSet(conjuncts')
    <3>1. DOMAIN Rows(s) = 1 .. n
      BY <1>4 DEF Rows
    <3>2. \E row : /\ ToSet(results') = ToSet(results) \cup {row}
                   /\ ToSet(conjuncts) \subseteq ToSet(conjuncts')
      <4>1. Claim(s) \in BOOLEAN
        BY DEF Claim
      <4> QED BY <1>1, <1>2, <1>4, <3>1, <4>1, RecordSets
    <3> QED BY <3>2
  <2> QED BY <2>1 DEF Shown
<1>9. InForce' = InForce
  BY <1>1, InForceSame
<1>10. \A t \in ToSet(InForce') : t \in ToSet(next') \/ Shown(t)'
  BY <1>1, <1>3, <1>7, <1>8, <1>9 DEF RecordInv
<1>11. \A x \in ToSet(results') : x.id # "META-PINS"
  BY <1>1, <1>5, <1>7 DEF RecordInv
<1> QED BY <1>1, <1>2, <1>7, <1>10, <1>11 DEF RecordInv, BeforeExec

(* The pinned obligations are the reviewed ones and the suite's own. *)
LEMMA ExpectedIs ==
  ToSet(ExpectedObligations) = {Reviewed[i].id : i \in DOMAIN Reviewed} \cup OwnRows
<1> DEFINE f == [i \in DOMAIN Reviewed |-> Reviewed[i].id]
           t == <<"META-PINS", "META-IDS">>
<1>1. IsSeq(f)
  <2>1. Len(Reviewed) \in Nat /\ DOMAIN Reviewed = 1 .. Len(Reviewed)
    BY SuiteAssumption, SeqDomain DEF IsSeq
  <2>2. f = [i \in 1 .. Len(Reviewed) |-> f[i]]
    BY <2>1
  <2> HIDE DEF f
  <2> QED BY <2>1, <2>2, BuiltIs
<1>2. t \in Seq(OwnRows) /\ ToSet(t) = OwnRows
  BY DEF OwnRows, ToSet
<1>3. ToSet(f) = {Reviewed[i].id : i \in DOMAIN Reviewed}
  BY DEF ToSet
<1> HIDE DEF f, t
<1>4. IsSeq(t)
  BY <1>2, IntoSeq
<1>5. ToSet(f \o t) = ToSet(f) \cup ToSet(t)
  BY <1>1, <1>4, ConcatIs
<1> QED BY <1>2, <1>3, <1>5 DEF ExpectedObligations, f, t

LEMMA RecordInvAbort ==
  ASSUME SuiteInv, RecordInv, phase # "idle", Abort
  PROVE  RecordInv'
<1>1. /\ UNCHANGED <<haveZ3, running, next, results, conjuncts, ok>>
      /\ pc = "record" /\ pc' = "done" /\ rc' = 3 /\ said' = said \cup Missing(Ids(results))
  BY DEF Abort, dirVars, anchorVars
<1>2. "META-PINS" \in Missing(Ids(results))
  <2>1. "META-PINS" \notin ToSet(Ids(results))
    BY <1>1 DEF RecordInv, Ids, ToSet
  <2>2. "META-PINS" \in ToSet(ExpectedObligations)
    BY ExpectedIs DEF OwnRows
  <2> QED BY <2>1, <2>2 DEF Missing
<1>3. InForce' = InForce
  BY <1>1, InForceSame
<1>4. Recorded'
  BY <1>1, <1>3, RecordedFrame DEF RecordInv
<1> QED BY <1>1, <1>2, <1>4 DEF RecordInv, BeforeExec

LEMMA RecordInvPinRow ==
  ASSUME SuiteInv, RecordInv, phase # "idle", PinRow
  PROVE  RecordInv'
<1> DEFINE parts == [i \in DOMAIN PinParts |-> <<PinParts[i], PinsHold>>]
           n == Len(PinParts)
<1>1. /\ UNCHANGED <<haveZ3, running, next, rc, said>>
      /\ pc = "record" /\ next = <<>> /\ pc' = "ids" /\ Record("META-PINS", TRUE, parts)
  BY DEF PinRow, dirVars, anchorVars
<1>2. n \in Nat /\ DOMAIN parts = 1 .. n
  BY SuiteAssumption, SeqDomain DEF IsSeq
<1>3. RowsInv /\ rc = -1 /\ Recorded /\ (AllPass => ok)
  BY <1>1 DEF SuiteInv, RowsInv, RecordInv
<1> HIDE DEF parts, n
<1>4. Recorded' /\ (\A s : Shown(s) => Shown(s)') /\ (AllPass' => ok')
  <2>1. "META-PINS" \in OwnRows
    BY DEF OwnRows
  <2> QED BY <1>1, <1>2, <1>3, <2>1, OwnRecordBlames
<1>5. InForce' = InForce /\ ToSet(next) = {}
  BY <1>1, InForceSame, EmptyIs
<1>6. \A s \in ToSet(InForce') : Shown(s)'
  BY <1>1, <1>4, <1>5 DEF RecordInv
<1> QED BY <1>1, <1>3, <1>4, <1>6 DEF RecordInv, BeforeExec

LEMMA RecordInvIdRow ==
  ASSUME SuiteInv, RecordInv, phase # "idle", IdRow
  PROVE  RecordInv'
<1> DEFINE obls  == Append(Ids(results), "META-IDS")
           conjs == Ids(conjuncts) \o [i \in DOMAIN IdParts |-> <<"META-IDS", IdParts[i]>>]
           exact == IdsExact(obls, conjs)
           parts == [i \in DOMAIN IdParts |-> <<IdParts[i], exact[i]>>]
<1>1. /\ UNCHANGED <<haveZ3, running, next, rc>>
      /\ pc = "ids" /\ pc' = "tally" /\ Record("META-IDS", TRUE, parts)
  BY DEF IdRow, dirVars, anchorVars
<1>2. DOMAIN parts = 1 .. 6
  BY SuiteAssumption, SeqDomain DEF IsSeq
<1>3. RowsInv /\ rc = -1 /\ Recorded /\ (AllPass => ok)
  BY <1>1 DEF SuiteInv, RowsInv, RecordInv
<1> HIDE DEF parts
<1>4. Recorded' /\ (\A s : Shown(s) => Shown(s)') /\ (AllPass' => ok')
  <2>1. "META-IDS" \in OwnRows /\ 6 \in Nat
    BY DEF OwnRows
  <2> QED BY <1>1, <1>2, <1>3, <2>1, OwnRecordBlames
<1>5. InForce' = InForce
  BY <1>1, InForceSame
<1>6. \A s \in ToSet(InForce') : Shown(s)'
  BY <1>1, <1>4, <1>5 DEF RecordInv
<1> QED BY <1>1, <1>3, <1>4, <1>6 DEF RecordInv, BeforeExec

LEMMA RecordInvTally ==
  ASSUME SuiteInv, RecordInv, phase # "idle", Tally
  PROVE  RecordInv'
<1>1. /\ UNCHANGED <<haveZ3, running, next, results, conjuncts, said>>
      /\ pc = "tally" /\ pc' = "done" /\ rc' = IF ok' THEN 0 ELSE 1
      /\ ok' = (ok /\ Len(results) = Len(ExpectedObligations)
                   /\ Len(conjuncts) = Len(ExpectedConjuncts))
  BY DEF Tally, dirVars, anchorVars
<1>2. AllPass => ok
  BY <1>1 DEF RecordInv
<1>3. ok => Exact
  BY <1>1 DEF SuiteInv, GreenInv
<1>4. AllPass => ok'
  BY <1>1, <1>2, <1>3 DEF Exact
<1>5. AllPass' = AllPass
  BY <1>1 DEF AllPass
<1>6. InForce' = InForce /\ \A s : Shown(s)' = Shown(s)
  BY <1>1, InForceSame DEF Shown
<1>7. Recorded'
  BY <1>1, <1>6, RecordedFrame DEF RecordInv
<1>8. rc' \in {0, 1} /\ (rc' = 1 => ~AllPass')
  BY <1>1, <1>4, <1>5
<1> QED BY <1>1, <1>6, <1>7, <1>8 DEF RecordInv, BeforeExec

LEMMA RecordInvFrame ==
  ASSUME RecordInv, UNCHANGED <<haveZ3, pc, running, next, results, conjuncts, ok, rc, said>>
  PROVE  RecordInv'
<1>1. InForce' = InForce /\ AllPass' = AllPass /\ \A s : Shown(s)' = Shown(s)
  BY InForceSame DEF Shown, AllPass
<1>2. Recorded'
  BY <1>1, RecordedFrame DEF RecordInv
<1> QED BY <1>1, <1>2 DEF RecordInv

-----------------------------------------------------------------------------
(* The directory in use is the repository or the copy of the mutation at   *)
(* hand, and what runs is what lies there.                                 *)
TreeInv ==
  /\ phase = "baseline" => dir = repo
  /\ phase = "mutation" => dir = Sandbox(Head(todo))
  /\ phase \in {"baseline", "mutation"} =>
       /\ running.va = dir.va
       /\ pc = "exec" => text = dir.ko
       /\ pc \in {"record", "ids", "tally"} \/ rc \in {0, 1, 3} => running.ko = dir.ko

(* A baseline with rows is of statements that were all found sound.        *)
BaseInv ==
  phase \in {"next", "mutation"} /\ base # {} =>
    \A s \in ToSet(Phases(repo.va, repo.ko)) :
      /\ Sound(s) /\ s.id \in ToSet(ExpectedObligations)
      /\ <<s.id>> \in base
      /\ \A j \in DOMAIN s.parts : <<s.id, s.parts[j].name>> \in base

(* No mutation that is judged fails the row of what is idle.               *)
OutcomeInv ==
  /\ IsSeq(outcomes)
  /\ \A o \in ToSet(outcomes) : Took(o) => \A row \in o.failed : ~IdleRow(row)

ExitInv ==
  /\ phase # "done" => exit = -1
  /\ AuditFindsIdle

AuditInv == TreeInv /\ RecordInv /\ BaseInv /\ OutcomeInv /\ ExitInv

(* The suite's steps. *)
LEMMA TreeSteps ==
  ASSUME SuiteInv, TreeInv, phase # "idle", UNCHANGED <<phase, repo, todo>>, SuiteStep
  PROVE  TreeInv'
<1>1. dir' = dir /\ DOMAIN running = {"va", "ko", "table"}
  BY DEF SuiteInv, DigestInv, SuiteStep, NoShadowingBytecode, CheckScript, ReadPins, ReadSelf,
         ReadKernel, ExecKernel, RecordNext, Abort, PinRow, IdRow, Tally, Refuse, dirVars
<1>2. Sandbox(Head(todo))' = Sandbox(Head(todo))
  BY DEF Sandbox, RewriteTables
<1>3. phase \in {"baseline", "mutation"} =>
        /\ running.va = dir.va
        /\ pc = "exec" => text = dir.ko
        /\ pc \in {"record", "ids", "tally"} \/ rc \in {0, 1, 3} => running.ko = dir.ko
  BY DEF TreeInv
<1>4. rc = -1 <=> pc # "done"
  BY DEF SuiteInv, RowsInv
<1> DEFINE Rest == phase \in {"baseline", "mutation"} =>
             /\ running'.va = dir.va
             /\ pc' = "exec" => text' = dir.ko
             /\ pc' \in {"record", "ids", "tally"} \/ rc' \in {0, 1, 3} => running'.ko = dir.ko
<1>5. ASSUME NoShadowingBytecode \/ CheckScript \/ ReadPins \/ ReadSelf \/ ReadKernel PROVE Rest
  <2>1. running'.va = running.va
    BY <1>1, <1>5 DEF NoShadowingBytecode, CheckScript, ReadPins, ReadSelf, ReadKernel, Refuse,
                      anchorVars
  <2>2. pc' \notin {"record", "ids", "tally"} /\ rc' \notin {0, 1, 3}
    BY <1>4, <1>5 DEF NoShadowingBytecode, CheckScript, ReadPins, ReadSelf, ReadKernel, Refuse,
                      suiteVars
  <2>3. pc' = "exec" => text' = dir.ko
    BY <1>5 DEF NoShadowingBytecode, CheckScript, ReadPins, ReadSelf, ReadKernel, Refuse
  <2> QED BY <1>3, <2>1, <2>2, <2>3
<1>6. ASSUME ExecKernel PROVE Rest
  <2>1. running' = [running EXCEPT !.ko = text] /\ pc = "exec" /\ pc' = "record"
    BY <1>6 DEF ExecKernel
  <2>2. running'.va = running.va /\ running'.ko = text
    BY <1>1, <2>1
  <2> QED BY <1>3, <2>1, <2>2
<1>7. ASSUME RecordNext \/ Abort \/ PinRow \/ IdRow \/ Tally PROVE Rest
  <2>1. /\ UNCHANGED <<running, text>> /\ pc \in {"record", "ids", "tally"} /\ pc' # "exec"
    BY <1>7 DEF RecordNext, Abort, PinRow, IdRow, Tally, anchorVars
  <2> QED BY <1>3, <2>1
<1>8. Rest
  BY <1>5, <1>6, <1>7 DEF SuiteStep
<1> HIDE DEF Rest
<1>9. dir = repo \/ phase # "baseline"
  BY DEF TreeInv
<1>10. dir = Sandbox(Head(todo)) \/ phase # "mutation"
  BY DEF TreeInv
<1> QED BY <1>1, <1>2, <1>8, <1>9, <1>10 DEF TreeInv, Rest

LEMMA RecordSteps ==
  ASSUME SuiteInv, RecordInv, phase # "idle", SuiteStep
  PROVE  RecordInv'
  BY RecordInvAnchor, RecordInvExec, RecordInvNext, RecordInvAbort, RecordInvPinRow, RecordInvIdRow,
     RecordInvTally DEF SuiteStep

(* What the audit keeps does not depend on where its suite is. *)
LEMMA AuditFrame ==
  ASSUME UNCHANGED <<haveZ3, phase, repo, sel, todo, base, outcomes, exit>>,
         BaseInv, OutcomeInv, ExitInv
  PROVE  BaseInv' /\ OutcomeInv' /\ ExitInv'
<1>1. Phases(repo.va, repo.ko)' = Phases(repo.va, repo.ko)
  BY DEF Phases
<1>2. BaseInv'
  BY <1>1 DEF BaseInv
<1>3. \A row : IdleRow(row)' <=> IdleRow(row)
  BY DEF IdleRow, IdlePart, Idles
<1>4. OutcomeInv'
  BY <1>3 DEF OutcomeInv
<1>5. ExitInv'
  BY <1>1 DEF ExitInv, AuditFindsIdle, LoadBearing
<1> QED BY <1>2, <1>4, <1>5

(* A run that starts. *)
LEMMA RecordStarts ==
  ASSUME NEW d, SuiteInit(d)
  PROVE  RecordInv
<1>1. /\ pc = "bytecode" /\ rc = -1 /\ ok = TRUE
      /\ results = <<>> /\ conjuncts = <<>> /\ said = {}
  BY DEF SuiteInit
<1>2. ToSet(results) = {} /\ ToSet(conjuncts) = {}
  BY <1>1, EmptyIs
<1>3. Recorded
  BY <1>2 DEF Recorded
<1> QED BY <1>1, <1>3 DEF RecordInv, BeforeExec

LEMMA RecordRuns ==
  ASSUME NEW d, Run(d)
  PROVE  RecordInv'
<1>1. /\ pc' = "bytecode" /\ rc' = -1 /\ ok' = TRUE
      /\ results' = <<>> /\ conjuncts' = <<>> /\ said' = {}
  BY DEF Run
<1>2. ToSet(results') = {} /\ ToSet(conjuncts') = {}
  BY <1>1, EmptyIs
<1>3. Recorded'
  BY <1>2 DEF Recorded
<1> QED BY <1>1, <1>3 DEF RecordInv, BeforeExec

(* A copy with a mutation holds the edits of the repository.               *)
LEMMA SandboxGrows ==
  ASSUME NEW m, NEW i \in DOMAIN Reviewed
  PROVE  Idles(i) \subseteq KindsIn(Sandbox(m).va, Sandbox(m).ko, i)
<1>1. repo.va \subseteq Sandbox(m).va /\ repo.ko \subseteq Sandbox(m).ko
  BY DEF Sandbox
<1> QED BY <1>1 DEF Idles, KindsIn, Kinds

LEMMA OneIsNotTwo == ASSUME NEW a, NEW b, NEW c PROVE <<a>> # <<b, c>>
<1>1. Len(<<a>>) # Len(<<b, c>>)
  OBVIOUS
<1> QED BY <1>1

(* With more edits, what an idle row is about is so. *)
LEMMA IdleRowPasses ==
  ASSUME NEW va, NEW ko, \A i \in DOMAIN Reviewed : Idles(i) \subseteq KindsIn(va, ko, i),
         NEW s \in ToSet(Phases(va, ko)), NEW row, IdleRow(row)
  PROVE  /\ row = <<s.id>> => Sound(s)
         /\ \A j \in DOMAIN s.parts : row = <<s.id, s.parts[j].name>> => Tells(s, s.parts[j])
<1>1. PICK i \in DOMAIN Reviewed :
        \/ row = <<Reviewed[i].id>> /\ Reviewed[i].parts = <<>> /\ "gut" \in Idles(i)
        \/ \E j \in DOMAIN Reviewed[i].parts :
             row = <<Reviewed[i].id, Reviewed[i].parts[j].name>> /\ IdlePart(i, j)
  BY DEF IdleRow
<1>2. Reviewed[i].id \notin {"renamed", "S*"}
  BY AuditAssumption
<1>3. CASE s.id # Reviewed[i].id
  BY <1>1, <1>3
<1>4. CASE s.id = Reviewed[i].id
  <2>1. s # NoSolver
    BY <1>2, <1>4 DEF NoSolver, Statement
  <2>2. PICK k \in DOMAIN Reviewed : s = Statement(Reviewed[k], KindsIn(va, ko, k))
    BY <2>1, RunIsReviewed
  <2>3. k = i
    <3>1. s.id \in {"renamed", Reviewed[k].id}
      BY <2>2, StatementIs
    <3> QED BY <1>2, <1>4, <3>1, AuditAssumption
  <2>4. s = Statement(Reviewed[i], KindsIn(va, ko, i)) /\ Idles(i) \subseteq KindsIn(va, ko, i)
    BY <2>2, <2>3
  <2>5. /\ \A j \in DOMAIN s.parts : IdlePart(i, j) => Tells(s, s.parts[j])
        /\ "gut" \in Idles(i) => Claim(s)
    BY <2>4, IdleStaysIdle
  <2>6. /\ DOMAIN s.parts = DOMAIN Reviewed[i].parts
        /\ \A j \in DOMAIN s.parts : s.parts[j].name = Reviewed[i].parts[j].name
    BY <2>4, StatementIs
  <2>7. CASE row = <<Reviewed[i].id>> /\ Reviewed[i].parts = <<>> /\ "gut" \in Idles(i)
    <3>1. DOMAIN s.parts = {}
      BY <2>6, <2>7, EmptyIs
    <3> QED BY <2>5, <2>7, <3>1 DEF Sound
  <2>8. ASSUME NEW j \in DOMAIN Reviewed[i].parts,
               row = <<Reviewed[i].id, Reviewed[i].parts[j].name>>, IdlePart(i, j)
        PROVE  /\ row # <<s.id>>
               /\ \A k1 \in DOMAIN s.parts :
                    row = <<s.id, s.parts[k1].name>> => Tells(s, s.parts[k1])
    <3>1. row # <<s.id>>
      BY <2>8, OneIsNotTwo
    <3>2. ASSUME NEW k1 \in DOMAIN s.parts, row = <<s.id, s.parts[k1].name>>
          PROVE  Tells(s, s.parts[k1])
      <4>1. Reviewed[i].parts[k1].name = Reviewed[i].parts[j].name
        BY <2>6, <2>8, <3>2
      <4>2. k1 = j
        BY <2>6, <2>8, <4>1, AuditAssumption
      <4> QED BY <2>5, <2>8, <4>2
    <3> QED BY <3>1, <3>2
  <2> QED BY <1>1, <2>7, <2>8
<1> QED BY <1>3, <1>4

LEMMA IdleRowIsReviewed ==
  ASSUME NEW row, IdleRow(row)
  PROVE  row[1] \notin OwnRows
<1>1. PICK i \in DOMAIN Reviewed : row[1] = Reviewed[i].id
  BY DEF IdleRow
<1> QED BY <1>1, AuditAssumption DEF OwnRows

LEMMA JudgedOutcomes ==
  ASSUME SuiteInv, TreeInv, RecordInv, OutcomeInv, Judged
  PROVE  OutcomeInv'
<1>0. PICK m : m = Head(todo)
  OBVIOUS
<1> DEFINE failed == {row \in RowsThat(FALSE) : row[1] # "META-PINS"}
           o == Outcome(m, failed, rc \notin {0, 1}, FALSE)
<1>1. /\ phase = "mutation" /\ pc = "done" /\ outcomes' = Append(outcomes, o)
      /\ UNCHANGED <<repo>>
  BY <1>0 DEF Judged
<1>2. (Took(o) => rc \in {0, 1}) /\ o.failed = failed
  BY DEF Took, Outcome
<1>3. ASSUME rc \in {0, 1}, NEW row \in failed, IdleRow(row) PROVE FALSE
  <2>1. running.va = Sandbox(m).va /\ running.ko = Sandbox(m).ko
    BY <1>0, <1>1, <1>3 DEF TreeInv
  <2>2. \A i \in DOMAIN Reviewed : Idles(i) \subseteq KindsIn(running.va, running.ko, i)
    BY <2>1, SandboxGrows
  <2>3. ASSUME NEW s \in ToSet(InForce)
        PROVE  /\ row = <<s.id>> => Sound(s)
               /\ \A j \in DOMAIN s.parts : row = <<s.id, s.parts[j].name>> => Tells(s, s.parts[j])
    BY <1>3, <2>2, IdleRowPasses DEF InForce
  <2>4. row[1] \notin OwnRows
    BY <1>3, IdleRowIsReviewed
  <2>5. \/ \E x \in ToSet(results) : row = <<x.id>> /\ ~x.pass
        \/ \E x \in ToSet(conjuncts) : row = x.id /\ ~x.pass
    BY <1>3 DEF RowsThat, ToSet
  <2>6. Recorded
    BY DEF RecordInv
  <2>7. ASSUME NEW x \in ToSet(results), row = <<x.id>>, ~x.pass PROVE FALSE
    <3>1. row[1] = x.id
      BY <2>7
    <3>2. RowBlames(x)
      BY <2>6 DEF Recorded
    <3> QED BY <2>3, <2>4, <2>7, <3>1, <3>2 DEF RowBlames
  <2>8. ASSUME NEW x \in ToSet(conjuncts), row = x.id, ~x.pass PROVE FALSE
    <3>1. PartBlames(x)
      BY <2>6 DEF Recorded
    <3> QED BY <2>3, <2>4, <2>8, <3>1 DEF PartBlames
  <2> QED BY <2>5, <2>7, <2>8
<1>4. Took(o) => \A row \in o.failed : ~IdleRow(row)
  BY <1>2, <1>3
<1> HIDE DEF o
<1>5. IsSeq(outcomes') /\ ToSet(outcomes') = ToSet(outcomes) \cup {o}
  BY <1>1, AppendIs DEF OutcomeInv
<1>6. \A row : IdleRow(row)' <=> IdleRow(row)
  BY <1>1 DEF IdleRow, IdlePart, Idles
<1>7. \A p : Took(p)' <=> Took(p)
  OBVIOUS
<1> QED BY <1>4, <1>5, <1>6, <1>7 DEF OutcomeInv

(* What the baseline keeps is of statements found sound.                   *)
LEMMA BaselineRows ==
  ASSUME SuiteInv, TreeInv, RecordInv, Baseline
  PROVE  BaseInv'
<1>1. /\ phase = "baseline" /\ pc = "done" /\ base' = RowsThat(TRUE)
      /\ RowsThat(FALSE) = {} \/ phase' = "done"
      /\ UNCHANGED <<haveZ3, repo>>
  BY DEF Baseline, vars, dirVars
<1> SUFFICES ASSUME RowsThat(FALSE) = {}, RowsThat(TRUE) # {} PROVE BaseInv'
  BY <1>1 DEF BaseInv
<1>2. rc \in {0, 1, 2, 3}
  BY <1>1 DEF RecordInv
<1>3. rc # 2
  <2> SUFFICES ASSUME rc = 2 PROVE FALSE
    OBVIOUS
  <2>1. DOMAIN results = {} /\ DOMAIN conjuncts = {}
    BY EmptyIs DEF RecordInv
  <2> QED BY <2>1 DEF RowsThat
<1>4. rc # 3
  <2> SUFFICES ASSUME rc = 3 PROVE FALSE
    OBVIOUS
  <2>1. PICK id : id \in said
    BY DEF RecordInv
  <2>2. <<id>> \in {<<i>> : i \in said}
    BY <2>1
  <2>3. {<<i>> : i \in said} \subseteq RowsThat(FALSE)
    BY DEF RowsThat
  <2> QED BY <2>2, <2>3
<1>5. rc # 1
  <2> SUFFICES ASSUME rc = 1 PROVE FALSE
    OBVIOUS
  <2>1. PICK x \in ToSet(results) : ~x.pass
    BY DEF RecordInv, AllPass
  <2>2. <<x.id>> \in RowsThat(FALSE)
    BY <2>1 DEF RowsThat, ToSet
  <2> QED BY <2>2
<1>6. rc = 0 /\ ok
  BY <1>2, <1>3, <1>4, <1>5 DEF SuiteInv, GreenInv
<1>7. running.va = repo.va /\ running.ko = repo.ko
  BY <1>1, <1>6 DEF TreeInv
<1>8. Phases(repo.va, repo.ko)' = InForce
  BY <1>1, <1>7 DEF InForce, Phases
<1>9. Passing /\ Exact
  BY <1>6 DEF SuiteInv, RowsInv, GreenInv
<1>10. ASSUME NEW s \in ToSet(InForce)
       PROVE  /\ Sound(s) /\ s.id \in ToSet(ExpectedObligations)
              /\ <<s.id>> \in base'
              /\ \A j \in DOMAIN s.parts : <<s.id, s.parts[j].name>> \in base'
  <2>1. Sound(s) /\ Shown(s)
    BY <1>6 DEF SuiteInv, GreenInv, RecordInv
  <2>2. PICK x \in ToSet(results) : x.id = s.id
    BY <2>1 DEF Shown
  <2>3. x.id \in ToSet(Ids(results)) /\ x.pass
    BY <1>9, <2>2 DEF Passing, Ids, ToSet
  <2>4. <<x.id>> \in RowsThat(TRUE)
    BY <2>2, <2>3 DEF RowsThat, ToSet
  <2>5. ASSUME NEW j \in DOMAIN s.parts PROVE <<s.id, s.parts[j].name>> \in RowsThat(TRUE)
    <3>1. PICK y \in ToSet(conjuncts) : y.id = <<s.id, s.parts[j].name>>
      BY <2>1 DEF Shown
    <3>2. y.pass
      BY <1>9 DEF Passing, ToSet
    <3>3. y.id \in RowsThat(TRUE)
      BY <3>1, <3>2 DEF RowsThat, ToSet
    <3> QED BY <3>1, <3>3
  <2> QED BY <1>1, <1>9, <2>1, <2>2, <2>3, <2>4, <2>5 DEF Exact
<1> QED BY <1>8, <1>10 DEF BaseInv

(* Why exit 0 is only after every row of the baseline was killed, and what *)
(* that leaves of an idle statement.                                       *)
LEMMA KilledIsNotIdle ==
  ASSUME OutcomeInv, NeverKilled = {}, NEW row \in base, IdleRow(row)
  PROVE  FALSE
<1>1. row[1] # "META-PINS"
  BY IdleRowIsReviewed DEF OwnRows
<1>2. PICK i \in DOMAIN outcomes : Took(outcomes[i]) /\ row \in outcomes[i].failed
  BY <1>1 DEF NeverKilled, Killed
<1> QED BY <1>2 DEF OutcomeInv, ToSet

LEMMA NothingIdle ==
  ASSUME TextInv, phase = "next", BaseInv, OutcomeInv, NeverKilled = {}, base # {}
  PROVE  LoadBearing
<1>1. SUFFICES ASSUME NEW s \in ToSet(Phases(repo.va, repo.ko))
              PROVE  ~Idle(s) /\ \A j \in DOMAIN s.parts : s.parts[j].tells # "nothing"
  BY DEF LoadBearing
<1>2. /\ Sound(s) /\ s.id \in ToSet(ExpectedObligations)
      /\ <<s.id>> \in base
      /\ \A j \in DOMAIN s.parts : <<s.id, s.parts[j].name>> \in base
  BY <1>1 DEF BaseInv
<1>3. s # NoSolver
  <2>1. ~Claim(NoSolver)
    BY DEF Claim, NoSolver, Statement
  <2> QED BY <1>2, <2>1 DEF Sound
<1>4. PICK i \in DOMAIN Reviewed : s = Statement(Reviewed[i], KindsIn(repo.va, repo.ko, i))
  BY <1>3, RunIsReviewed
<1>5. s = Statement(Reviewed[i], Idles(i))
  BY <1>4 DEF Idles
<1>6. /\ s.id = IF "rename" \in Idles(i) THEN "renamed" ELSE Reviewed[i].id
      /\ DOMAIN s.parts = DOMAIN Reviewed[i].parts
      /\ \A j \in DOMAIN s.parts :
           /\ s.parts[j].name = Reviewed[i].parts[j].name
           /\ s.parts[j].tells = IF "gutpart" \in Idles(i) /\ j = 1 THEN "nothing"
                                 ELSE Reviewed[i].parts[j].tells
      /\ "gut" \in Idles(i) <=> s.predicate = "true"
  BY <1>5, StatementIs
<1>7. s.id = Reviewed[i].id
  <2>1. "renamed" \notin ToSet(ExpectedObligations)
    BY ExpectedIs, AuditAssumption DEF OwnRows
  <2> QED BY <1>2, <1>6, <2>1
<1>8. /\ \A j \in DOMAIN s.parts : ~IdlePart(i, j)
      /\ ~(Reviewed[i].parts = <<>> /\ "gut" \in Idles(i))
  <2>1. ASSUME NEW j \in DOMAIN s.parts, IdlePart(i, j) PROVE FALSE
    <3>1. IdleRow(<<s.id, s.parts[j].name>>)
      BY <1>6, <1>7, <2>1 DEF IdleRow
    <3> QED BY <1>2, <3>1, KilledIsNotIdle
  <2>2. ASSUME Reviewed[i].parts = <<>>, "gut" \in Idles(i) PROVE FALSE
    <3>1. IdleRow(<<s.id>>)
      BY <1>7, <2>2 DEF IdleRow
    <3> QED BY <1>2, <3>1, KilledIsNotIdle
  <2> QED BY <2>1, <2>2
<1>9. \A j \in DOMAIN s.parts : s.parts[j].tells = Reviewed[i].parts[j].tells
  BY <1>6, <1>8 DEF IdlePart
<1>10. \A j \in DOMAIN s.parts :
         s.parts[j].tells \in {"claim", "accepts", "rejects", "premises_sat", "discriminate"}
  BY <1>6, <1>9, AuditAssumption
<1>11. \A j \in DOMAIN s.parts : Tells(s, s.parts[j])
  BY <1>2 DEF Sound
<1>12. s.predicate # "true"
  <2> SUFFICES ASSUME s.predicate = "true" PROVE FALSE
    OBVIOUS
  <2>1. "gut" \in Idles(i) /\ Reviewed[i].parts # <<>>
    BY <1>6, <1>8
  <2>2. PICK j \in DOMAIN Reviewed[i].parts : Reviewed[i].parts[j].tells # "premises_sat"
    BY <2>1, AuditAssumption
  <2>3. j \in DOMAIN s.parts /\ s.parts[j].tells \in {"rejects", "discriminate"}
    BY <1>6, <1>8, <1>9, <1>10, <2>1, <2>2 DEF IdlePart
  <2> QED BY <1>11, <2>3 DEF Tells
<1>13. s.premises # "unsat"
  <2> SUFFICES ASSUME s.premises = "unsat" PROVE FALSE
    OBVIOUS
  <2>1. repo.va \in AllTexts /\ repo.ko \in AllTexts
    BY DEF TextInv, TreeTexts, AllTexts
  <2>2. PICK j \in DOMAIN s.parts : s.parts[j].tells = "premises_sat"
    BY <1>1, <2>1, PremisesGuarded
  <2> QED BY <1>11, <2>2 DEF Tells
<1> QED BY <1>10, <1>12, <1>13 DEF Idle

LEMMA AuditInvInit == ToolsInit => AuditInv
<1> SUFFICES ASSUME ToolsInit PROVE AuditInv
  OBVIOUS
<1>1. /\ SuiteInit(repo) /\ phase \in {"alone", "baseline", "idle"}
      /\ base = {} /\ outcomes = <<>> /\ exit = -1
  BY DEF ToolsInit, AuditInit, SuiteIdle
<1>2. TreeInv
  BY <1>1 DEF TreeInv, SuiteInit, Started
<1>3. RecordInv
  BY <1>1, RecordStarts
<1>4. BaseInv
  BY <1>1 DEF BaseInv
<1>5. OutcomeInv
  BY <1>1, EmptyIs DEF OutcomeInv
<1>6. ExitInv
  BY <1>1 DEF ExitInv, AuditFindsIdle
<1> QED BY <1>2, <1>3, <1>4, <1>5, <1>6 DEF AuditInv

LEMMA AuditSteps ==
  ASSUME SuiteInv, AuditInv, phase # "idle", AuditNext
  PROVE  AuditInv'
<1>1. TreeInv /\ RecordInv /\ BaseInv /\ OutcomeInv /\ ExitInv /\ TextInv
  BY DEF AuditInv, SuiteInv
<1>2. CASE Suite
  <2>1. SuiteStep /\ UNCHANGED <<phase, repo, sel, todo, base, outcomes, exit>>
    BY <1>2 DEF Suite, auditVars
  <2>2. UNCHANGED haveZ3
    BY <2>1 DEF SuiteStep, NoShadowingBytecode, CheckScript, ReadPins, ReadSelf, ReadKernel,
                ExecKernel, RecordNext, Abort, PinRow, IdRow, Tally, Refuse, dirVars
  <2>3. TreeInv'
    BY <1>1, <2>1, TreeSteps
  <2>4. RecordInv'
    BY <1>1, <2>1, RecordSteps
  <2>5. BaseInv' /\ OutcomeInv' /\ ExitInv'
    BY <1>1, <2>1, <2>2, AuditFrame
  <2> QED BY <2>3, <2>4, <2>5 DEF AuditInv
<1>3. CASE SaveWhileAlone
  <2>1. /\ phase = "alone" /\ UNCHANGED <<phase, repo, sel, todo, base, outcomes, exit>>
        /\ UNCHANGED <<haveZ3, pc, running, next, results, conjuncts, ok, rc, said>>
    BY <1>3 DEF SaveWhileAlone, Save, auditVars, anchorVars, suiteVars
  <2>2. TreeInv'
    BY <2>1 DEF TreeInv
  <2>3. RecordInv'
    BY <1>1, <2>1, RecordInvFrame
  <2>4. BaseInv' /\ OutcomeInv' /\ ExitInv'
    BY <1>1, <2>1, AuditFrame
  <2> QED BY <2>2, <2>3, <2>4 DEF AuditInv
<1>4. ASSUME Baseline \/ StalePattern \/ Judged \/ Verdict PROVE RecordInv' /\ TreeInv'
  <2>1. UNCHANGED <<haveZ3, pc, running, next, results, conjuncts, ok, rc, said>>
    BY <1>4 DEF Baseline, StalePattern, Judged, Verdict, vars, dirVars, anchorVars, suiteVars
  <2>2. phase' \in {"next", "done"}
    BY <1>4 DEF Baseline, StalePattern, Judged, Verdict
  <2> QED BY <1>1, <2>1, <2>2, RecordInvFrame DEF TreeInv
<1>5. ASSUME UNCHANGED <<haveZ3, repo, base>>, phase \in {"next", "mutation"} PROVE BaseInv'
  <2>1. Phases(repo.va, repo.ko)' = Phases(repo.va, repo.ko)
    BY <1>5 DEF Phases
  <2> QED BY <1>1, <1>5, <2>1 DEF BaseInv
<1>6. ASSUME UNCHANGED <<repo, outcomes>> PROVE OutcomeInv'
  <2>1. \A row : IdleRow(row)' <=> IdleRow(row)
    BY <1>6 DEF IdleRow, IdlePart, Idles
  <2> QED BY <1>1, <1>6, <2>1 DEF OutcomeInv
<1>7. CASE Baseline
  <2>1. BaseInv'
    BY <1>1, <1>7, BaselineRows
  <2>2. OutcomeInv'
    BY <1>6, <1>7 DEF Baseline
  <2>3. ExitInv'
    <3>1. exit = -1
      BY <1>1, <1>7 DEF Baseline, ExitInv
    <3>2. (exit' = 2 /\ phase' = "done") \/ exit' = -1
      BY <1>7, <3>1 DEF Baseline
    <3> QED BY <3>2 DEF ExitInv, AuditFindsIdle
  <2> QED BY <1>4, <1>7, <2>1, <2>2, <2>3 DEF AuditInv
<1>8. CASE StalePattern
  <2>1. /\ phase = "next" /\ UNCHANGED <<haveZ3, repo, base, phase, exit>>
        /\ outcomes' = Append(outcomes, Outcome(Head(todo), {}, FALSE, TRUE))
    BY <1>8 DEF StalePattern, vars, dirVars
  <2>2. PICK o : o = Outcome(Head(todo), {}, FALSE, TRUE)
    OBVIOUS
  <2>3. o.failed = {}
    BY <2>2 DEF Outcome
  <2>4. IsSeq(outcomes') /\ ToSet(outcomes') = ToSet(outcomes) \cup {o}
    BY <1>1, <2>1, <2>2, AppendIs DEF OutcomeInv
  <2>5. \A row : IdleRow(row)' <=> IdleRow(row)
    BY <2>1 DEF IdleRow, IdlePart, Idles
  <2>6. OutcomeInv'
    BY <1>1, <2>3, <2>4, <2>5 DEF OutcomeInv
  <2>7. ExitInv'
    BY <1>1, <2>1 DEF ExitInv, AuditFindsIdle
  <2> QED BY <1>4, <1>5, <1>8, <2>1, <2>6, <2>7 DEF AuditInv
<1>9. CASE Mutate
  <2>1. PICK m, d : m = Head(todo) /\ d = Sandbox(m)
    OBVIOUS
  <2>2. /\ phase = "next" /\ phase' = "mutation" /\ Run(d)
        /\ UNCHANGED <<haveZ3, repo, sel, todo, base, outcomes, exit>>
    BY <1>9, <2>1 DEF Mutate, Run
  <2>3. RecordInv'
    BY <2>2, RecordRuns
  <2>4. Sandbox(Head(todo))' = d
    BY <2>1, <2>2 DEF Sandbox, RewriteTables
  <2>5. TreeInv'
    BY <2>2, <2>4 DEF TreeInv, Run, Started
  <2>6. ExitInv'
    BY <1>1, <2>2 DEF ExitInv, AuditFindsIdle
  <2> QED BY <1>5, <1>6, <2>2, <2>3, <2>5, <2>6 DEF AuditInv
<1>10. CASE Judged
  <2>1. /\ phase = "mutation" /\ phase' = "next" /\ UNCHANGED <<haveZ3, repo, base, exit>>
    BY <1>10 DEF Judged, vars, dirVars
  <2>2. OutcomeInv'
    BY <1>1, <1>10, JudgedOutcomes
  <2>3. ExitInv'
    BY <1>1, <2>1 DEF ExitInv, AuditFindsIdle
  <2> QED BY <1>4, <1>5, <1>10, <2>1, <2>2, <2>3 DEF AuditInv
<1>11. CASE Verdict
  <2>1. /\ phase = "next" /\ phase' = "done" /\ UNCHANGED <<haveZ3, repo, sel, base, outcomes>>
        /\ exit' = 0 /\ sel = {} => NeverKilled = {}
    BY <1>11 DEF Verdict, vars, dirVars
  <2>2. exit' = 0 /\ sel = {} /\ base # {} => LoadBearing
    BY <1>1, <2>1, NothingIdle
  <2>3. LoadBearing' = LoadBearing
    BY <2>1 DEF LoadBearing, Phases
  <2>4. ExitInv'
    BY <2>1, <2>2, <2>3 DEF ExitInv, AuditFindsIdle
  <2>5. BaseInv'
    BY <2>1 DEF BaseInv
  <2> QED BY <1>4, <1>6, <1>11, <2>1, <2>4, <2>5 DEF AuditInv
<1> QED BY <1>2, <1>3, <1>7, <1>8, <1>9, <1>10, <1>11 DEF AuditNext

LEMMA AuditInvStep ==
  SuiteInv /\ AuditInv /\ [ToolsNext]_<<vars, auditVars, leanVars, hypVars>> => AuditInv'
<1> SUFFICES ASSUME SuiteInv, AuditInv, [ToolsNext]_<<vars, auditVars, leanVars, hypVars>>
             PROVE  AuditInv'
  OBVIOUS
<1>1. ASSUME UNCHANGED <<vars, auditVars>> PROVE AuditInv'
  <2>1. UNCHANGED <<dir, text, haveZ3, pc, running, next, results, conjuncts, ok, rc, said,
                    phase, repo, sel, todo, base, outcomes, exit>>
    BY <1>1 DEF vars, dirVars, anchorVars, suiteVars, auditVars
  <2>2. TreeInv'
    <3>1. Sandbox(Head(todo))' = Sandbox(Head(todo))
      BY <2>1 DEF Sandbox, RewriteTables
    <3> QED BY <2>1, <3>1 DEF AuditInv, TreeInv
  <2>3. RecordInv'
    BY <2>1, RecordInvFrame DEF AuditInv
  <2>4. BaseInv' /\ OutcomeInv' /\ ExitInv'
    BY <2>1, AuditFrame DEF AuditInv
  <2> QED BY <2>2, <2>3, <2>4 DEF AuditInv
<1> QED BY <1>1, AuditSteps DEF ToolsNext

(* Exit 0 of a full audit whose baseline reached its tally means that no   *)
(* statement the suite runs and none of its conjuncts is idle, also those  *)
(* no control guards, whatever the tree, the statements and the catalogue: *)
(* a row that an idle statement passes passes under every mutation, so     *)
(* that none can be its killer (vacuity_audit.py, run_one and main).       *)
THEOREM AuditFindsEveryIdleStatement == ToolsSpec => []AuditFindsIdle
<1>1. AuditInv => AuditFindsIdle
  BY DEF AuditInv, ExitInv
<1> QED BY <1>1, SuiteInvariant, AuditInvInit, AuditInvStep, PTL DEF ToolsSpec

-----------------------------------------------------------------------------
(* The check of the campaign's results. *)

Whole(a) == ArtefactProblems(a) = {} /\ ClaimProblems(a) = {} /\ SoleProblems(a) = {}

(* The rows of a campaign, and of the file, are verdicts about the sources *)
(* that were copied; a green answer is about the file that is there.       *)
HypInv ==
  /\ campaign # Off => \A m \in DOMAIN campaign.rows : campaign.rows[m] \in Verdicts(campaign, m)
  /\ artefact # Off => \A m \in DOMAIN artefact.rows : artefact.rows[m] \in
       Verdicts([copied |-> origin, fail_fast |-> artefact.fail_fast], m)
  /\ answer = "green" => artefact # Off /\ Whole(artefact)

LEMMA VerdictsAlike ==
  ASSUME NEW c, NEW d, c.copied = d.copied, c.fail_fast = d.fail_fast, NEW m
  PROVE  Verdicts(c, m) = Verdicts(d, m)
  BY DEF Verdicts, KillersSeen

LEMMA WholeSame ==
  ASSUME UNCHANGED <<sources, artefact>>
  PROVE  Whole(artefact)' = Whole(artefact)
  BY DEF Whole, ArtefactProblems, ClaimProblems, SoleProblems, SourceDigests, Sole

LEMMA HypInvInit == ToolsInit => HypInv
  BY DEF ToolsInit, HypInit, HypIdle, HypInv

LEMMA JudgeStep ==
  ASSUME HypInv, Judge
  PROVE  HypInv'
<1>1. PICK m : \E row \in Verdicts(campaign, m) :
        LET rows == [x \in DOMAIN campaign.rows \cup {m} |-> IF x = m THEN row ELSE campaign.rows[x]]
        IN  /\ campaign' = [campaign EXCEPT !.rows = rows]
            /\ artefact' = [mode |-> campaign.mode, fail_fast |-> campaign.fail_fast,
                            complete |-> campaign.mode = "FULL" /\ DOMAIN rows = PinnedMutants,
                            source_sha256 |-> SourceDigests(sources), rows |-> rows]
  BY DEF Judge
<1>0. PICK row \in Verdicts(campaign, m) :
        LET rows == [x \in DOMAIN campaign.rows \cup {m} |-> IF x = m THEN row ELSE campaign.rows[x]]
        IN  /\ campaign' = [campaign EXCEPT !.rows = rows]
            /\ artefact' = [mode |-> campaign.mode, fail_fast |-> campaign.fail_fast,
                            complete |-> campaign.mode = "FULL" /\ DOMAIN rows = PinnedMutants,
                            source_sha256 |-> SourceDigests(sources), rows |-> rows]
  BY <1>1
<1> DEFINE rows == [x \in DOMAIN campaign.rows \cup {m} |-> IF x = m THEN row ELSE campaign.rows[x]]
<1>2. campaign # Off /\ origin' = campaign.copied /\ answer' = "none"
  BY DEF Judge
<1>3. \A x \in DOMAIN campaign.rows : campaign.rows[x] \in Verdicts(campaign, x)
  BY <1>2 DEF HypInv
<1>4. \A x \in DOMAIN rows : rows[x] \in Verdicts(campaign, x)
  BY <1>3
<1>5. artefact'.rows = rows /\ artefact'.fail_fast = campaign.fail_fast
  BY <1>0
<1>6. campaign' = [campaign EXCEPT !.rows = rows]
  BY <1>0
<1> HIDE DEF rows
<1>7. campaign'.copied = campaign.copied /\ campaign'.fail_fast = campaign.fail_fast
      /\ campaign'.rows \in {rows, campaign.rows}
  BY <1>6
<1>8. \A x : Verdicts(campaign', x) = Verdicts(campaign, x)
  BY <1>7, VerdictsAlike
<1>9. \A x : Verdicts([copied |-> origin', fail_fast |-> artefact'.fail_fast], x) = Verdicts(campaign, x)
  <2> DEFINE c == [copied |-> origin', fail_fast |-> artefact'.fail_fast]
  <2>1. c.copied = campaign.copied /\ c.fail_fast = campaign.fail_fast
    BY <1>2, <1>5
  <2> HIDE DEF c
  <2>2. \A x : Verdicts(c, x) = Verdicts(campaign, x)
    BY <2>1, VerdictsAlike
  <2> QED BY <2>2 DEF c
<1> QED BY <1>2, <1>3, <1>4, <1>5, <1>7, <1>8, <1>9 DEF HypInv

LEMMA HypInvStep ==
  HypInv /\ [ToolsNext]_<<vars, auditVars, leanVars, hypVars>> => HypInv'
<1> SUFFICES ASSUME HypInv, [ToolsNext]_<<vars, auditVars, leanVars, hypVars>> PROVE HypInv'
  OBVIOUS
<1>1. ASSUME UNCHANGED <<campaign, artefact, origin>>, (answer' = answer /\ sources' = sources) \/ answer' # "green"
      PROVE  HypInv'
  <2>1. sources' = sources => Whole(artefact)' = Whole(artefact)
    BY <1>1, WholeSame
  <2> QED BY <1>1, <2>1 DEF HypInv, Verdicts, KillersSeen
<1>2. CASE UNCHANGED hypVars
  BY <1>1, <1>2 DEF hypVars
<1>3. ASSUME HypNext PROVE HypInv'
  <2>1. CASE StartCampaign
    <3>1. DOMAIN campaign'.rows = {}
      BY <2>1 DEF StartCampaign
    <3>2. UNCHANGED <<sources, artefact, origin, answer>>
      BY <2>1 DEF StartCampaign
    <3>3. Whole(artefact)' = Whole(artefact)
      BY <3>2, WholeSame
    <3> QED BY <3>1, <3>2, <3>3 DEF HypInv, Verdicts, KillersSeen
  <2>2. CASE Judge
    BY <2>2, JudgeStep
  <2>3. CASE EndCampaign
    <3>1. UNCHANGED <<sources, artefact, origin, answer>> /\ campaign' = Off
      BY <2>3 DEF EndCampaign
    <3>2. Whole(artefact)' = Whole(artefact)
      BY <3>1, WholeSame
    <3> QED BY <3>1, <3>2 DEF HypInv, Verdicts, KillersSeen
  <2>4. CASE EditSource
    BY <1>1, <2>4 DEF EditSource
  <2>5. CASE Check
    <3>1. UNCHANGED <<sources, campaign, artefact, origin>>
          /\ (answer' = "green" => artefact # Off /\ Whole(artefact))
      BY <2>5 DEF Check, Whole
    <3>2. Whole(artefact)' = Whole(artefact)
      BY <3>1, WholeSame
    <3> QED BY <3>1, <3>2 DEF HypInv, Verdicts, KillersSeen
  <2> QED BY <1>3, <2>1, <2>2, <2>3, <2>4, <2>5 DEF HypNext
<1> QED BY <1>2, <1>3 DEF ToolsNext

(* A green answer: every named test does fail on its mutant, an argued     *)
(* equivalent failed nothing, and the single killers are those pinned,     *)
(* for every mutant table, claim and corpus.                               *)
THEOREM GreenAttributionsHold == ToolsSpec => []AttributionsHold
<1>1. ASSUME HypInv PROVE AttributionsHold
  <2> DEFINE a == artefact
  <2> SUFFICES ASSUME answer = "green" PROVE AttributionsHold
    BY DEF AttributionsHold
  <2>1. a # Off /\ Whole(a)
    BY <1>1 DEF HypInv
  <2>2. ~a.fail_fast /\ DOMAIN a.rows = PinnedMutants
    BY <2>1 DEF Whole, ArtefactProblems
  <2>3. ASSUME NEW m \in PinnedMutants
        PROVE  \/ /\ a.rows[m].killers = Kills(origin, m)
                  /\ a.rows[m].verdict = IF Kills(origin, m) = {} THEN "SURVIVED" ELSE "KILLED"
               \/ a.rows[m].killers = {} /\ a.rows[m].verdict = "TIMEOUT"
    <3>1. a.rows[m] \in Verdicts([copied |-> origin, fail_fast |-> a.fail_fast], m)
      BY <1>1, <2>1, <2>2 DEF HypInv
    <3> QED BY <2>2, <3>1 DEF Verdicts, KillersSeen, Row
  <2>4. ASSUME NEW cl \in Claims(sources.gaps)
        PROVE  IF cl.kind = "kill"
               THEN cl.mutant \in PinnedMutants /\ cl.test \in a.rows[cl.mutant].killers
               ELSE cl.mutant \in PinnedMutants /\ a.rows[cl.mutant].verdict = "SURVIVED"
    BY <2>1, <2>2 DEF Whole, ClaimProblems
  <2>5. ASSUME NEW cl \in Claims(sources.gaps)
        PROVE  IF cl.kind = "kill" THEN cl.test \in Kills(origin, cl.mutant)
               ELSE Kills(origin, cl.mutant) = {}
    BY <2>3, <2>4
  <2>6. ASSUME NEW m \in NonEquivalent, a.rows[m].verdict = "KILLED", NEW t \in Kills(origin, m)
        PROVE  Kills(origin, m) = {t} <=> m \in DOMAIN SolePins /\ SolePins[m] = t
    <3>1. m \in PinnedMutants \ PinnedEquivalent /\ a.rows[m].killers = Kills(origin, m)
      BY <2>3, <2>6 DEF NonEquivalent
    <3>2. Cardinality({t}) = 1
      BY FS_Singleton
    <3>3. m \in DOMAIN SolePins => m \in Sole(a)
      BY <2>1 DEF Whole, SoleProblems
    <3>4. m \in Sole(a) => m \in DOMAIN SolePins /\ a.rows[m].killers = {SolePins[m]}
      BY <2>1 DEF Whole, SoleProblems
    <3>5. Kills(origin, m) = {t} => m \in Sole(a)
      BY <2>2, <3>1, <3>2 DEF Sole
    <3> QED BY <3>1, <3>3, <3>4, <3>5
  <2> QED BY <2>5, <2>6 DEF AttributionsHold
<1>2. ToolsSpec => []HypInv
  BY HypInvInit, HypInvStep, PTL DEF ToolsSpec
<1> QED BY <1>1, <1>2, PTL

-----------------------------------------------------------------------------
(* The check of the Lean development. *)

LEMMA GreatestOf ==
  ASSUME NEW n \in Nat, NEW I \in SUBSET (1 .. n), I # {}
  PROVE  Max(I) \in I
<1> DEFINE Greatest(J) == \E x \in J : \A y \in J : x >= y
           T == {k \in Nat : \A J \in SUBSET (1 .. k) : J = {} \/ Greatest(J)}
<1>1. 0 \in T
  <2>1. 1 .. 0 = {}
    OBVIOUS
  <2> QED BY <2>1
<1>2. ASSUME NEW k \in Nat, k \in T PROVE k + 1 \in T
  <2> SUFFICES ASSUME NEW J \in SUBSET (1 .. k + 1), J # {} PROVE Greatest(J)
    OBVIOUS
  <2>1. CASE k + 1 \in J
    <3>1. \A y \in J : k + 1 >= y
      OBVIOUS
    <3> QED BY <2>1, <3>1
  <2>2. CASE k + 1 \notin J
    <3>1. J \in SUBSET (1 .. k)
      <4>1. \A y \in 1 .. k + 1 : y # k + 1 => y \in 1 .. k
        OBVIOUS
      <4> QED BY <2>2, <4>1
    <3> HIDE DEF Greatest
    <3> QED BY <1>2, <3>1
  <2> QED BY <2>1, <2>2
<1>3. n \in T
  <2> HIDE DEF T
  <2> QED BY <1>1, <1>2, Induction
<1>4. \E x \in I : \A y \in I : x >= y
  BY <1>3
<1> QED BY <1>4, Zenon DEF Max

(* The declaration that counts for a name is one of those of the files.    *)
LEMMA StatementIsDeclared ==
  ASSUME NEW files, \A p \in Everywhere : IsSeq(files[p]), NEW n \in DOMAIN TheoremStatements(files)
  PROVE  \E d \in AllOf(files, Everywhere) : d.name = n /\ TheoremStatements(files)[n] = d.stmt
<1> DEFINE S     == AllOf(files, Everywhere)
           ss    == [i \in DOMAIN Walk |-> files[Walk[i]]]
           decls == FlattenSeq(ss)
           I     == {i \in 1 .. Len(decls) : decls[i].name = n}
<1>1. Len(Walk) \in Nat /\ DOMAIN Walk = 1 .. Len(Walk) /\ \A i \in DOMAIN Walk : Walk[i] \in Everywhere
  BY LeanAssumption, SeqDomain DEF IsSeq, Everywhere, ToSet
<1>2. ASSUME NEW p \in Everywhere PROVE files[p] \in Seq(S)
  BY SeqInto DEF AllOf
<1> HIDE DEF S
<1>3. ss \in [1 .. Len(Walk) -> Seq(S)]
  BY <1>1, <1>2
<1>4. decls \in Seq(S)
  BY <1>1, <1>3, SeqDef, FlattenType
<1>5. TheoremStatements(files) =
        [m \in {decls[i].name : i \in DOMAIN decls} |->
           decls[SelectLastInSeq(decls, LAMBDA d : d.name = m)].stmt]
  BY DEF TheoremStatements
<1> HIDE DEF ss, decls
<1>6. Len(decls) \in Nat /\ DOMAIN decls = 1 .. Len(decls) /\ \A i \in DOMAIN decls : decls[i] \in S
  BY <1>4, LenProperties, ElementOfSeq
<1>7. PICK i \in DOMAIN decls : decls[i].name = n
  BY <1>5
<1>8. I # {} /\ I \in SUBSET (1 .. Len(decls))
  BY <1>6, <1>7
<1>9. SelectLastInSeq(decls, LAMBDA d : d.name = n) = Max(I)
  BY <1>8 DEF SelectLastInSeq
<1>10. TheoremStatements(files)[n] = decls[SelectLastInSeq(decls, LAMBDA d : d.name = n)].stmt
  BY <1>5, <1>7
<1>11. Max(I) \in I
  <2> HIDE DEF I
  <2> QED BY <1>6, <1>8, GreatestOf
<1> QED BY <1>6, <1>9, <1>10, <1>11 DEF S

Unsaved       == leanSaves = MaxLeanSaves
Elaborates(t) == elaborated = t.files /\ log = Elaboration(t) /\ (Unsaved => t = tree)

(* What the steps so far have established, when they found no problem.  A  *)
(* save spoils what was read of the tree, and not what was elaborated.     *)
LeanControl ==
  /\ step \in {"idle", "scan", "build", "directives", "audit", "statements", "report", "done"}
  /\ step # "idle" => tree \in LeanTrees \cup LeanSaves /\ leanSaves \in 0 .. MaxLeanSaves
  /\ status = 0 => step = "done" /\ problems = {}
Scanned ==
  step \notin {"idle", "scan"} /\ Unsaved /\ problems = {} =>
    \A d \in AllOf(tree.files, Everywhere) : d.proof \notin Forbidden
Built ==
  step \in {"directives", "audit", "statements", "report"} \/ status = 0 =>
    \E t \in LeanTrees \cup LeanSaves : Elaborates(t)
Audited ==
  (step \in {"statements", "report"} \/ status = 0) /\ problems = {} =>
    \A n \in ExpectedTheorems : n \in DOMAIN log.audited /\ log.audited[n] \subseteq AllowedAxioms
Compared ==
  (step = "report" \/ status = 0) /\ Unsaved /\ problems = {} =>
    \A n \in ExpectedTheorems : /\ n \in DOMAIN TheoremStatements(tree.files)
                                /\ TheoremStatements(tree.files)[n] = Pinned[n]

LeanInv == LeanControl /\ Scanned /\ Built /\ Audited /\ Compared

LEMMA LeanInvInit == ToolsInit => LeanInv
<1>1. ASSUME LeanInit PROVE LeanInv
  <2>1. step = "scan" /\ status = -1 /\ tree \in LeanTrees /\ leanSaves = MaxLeanSaves
    BY <1>1 DEF LeanInit
  <2>2. MaxLeanSaves \in 0 .. MaxLeanSaves
    BY LeanAssumption
  <2> QED BY <2>1, <2>2 DEF LeanInv, LeanControl, Scanned, Built, Audited, Compared
<1>2. ASSUME LeanIdle PROVE LeanInv
  <2>1. step = "idle" /\ status = -1
    BY <1>2 DEF LeanIdle
  <2> QED BY <2>1 DEF LeanInv, LeanControl, Scanned, Built, Audited, Compared
<1> QED BY <1>1, <1>2 DEF ToolsInit

LEMMA LeanSteps ==
  ASSUME LeanInv, step # "idle", LeanNext
  PROVE  LeanInv'
<1>1. CASE ScanSources
  <2>1. /\ step = "scan" /\ UNCHANGED <<tree, log, elaborated, leanSaves>>
        /\ problems' = {<<"token", d.name>> : d \in {e \in AllOf(tree.files, Everywhere) : e.proof \in Forbidden}}
        /\ step' \in {"build", "done"} /\ (status' = status \/ status' = 2)
    BY <1>1 DEF ScanSources
  <2>2. problems' = {} => \A d \in AllOf(tree.files, Everywhere) : d.proof \notin Forbidden
    BY <2>1
  <2>3. status' # 0
    BY <2>1 DEF LeanInv, LeanControl
  <2> QED BY <2>1, <2>2, <2>3 DEF LeanInv, LeanControl, Scanned, Built, Audited, Compared, Unsaved
<1>2. CASE RunLake
  <2>1. /\ step = "build" /\ step' = "directives" /\ UNCHANGED <<tree, status, leanSaves>>
        /\ elaborated' = tree.files /\ log' = Elaboration(tree)
        /\ problems' = problems \cup BuildFailed(log')
    BY <1>2 DEF RunLake
  <2>2. status # 0 /\ tree \in LeanTrees \cup LeanSaves
    BY <2>1 DEF LeanInv, LeanControl
  <2>3. LeanControl' /\ Scanned' /\ Audited' /\ Compared'
    BY <2>1, <2>2 DEF LeanInv, LeanControl, Scanned, Audited, Compared, Unsaved
  <2>4. Elaborates(tree)'
    BY <2>1 DEF Elaborates, Elaboration
  <2>5. Built'
    BY <2>1, <2>2 DEF Built, Elaborates
  <2> QED BY <2>3, <2>5 DEF LeanInv
<1>3. ASSUME CountDirectives \/ AuditAxioms \/ CompareStatements \/ Report PROVE LeanInv'
  <2>1. UNCHANGED <<tree, log, elaborated, leanSaves>>
    BY <1>3 DEF CountDirectives, AuditAxioms, CompareStatements, Report
  <2>2. status # 0 /\ step \in {"directives", "audit", "statements", "report"}
        /\ step' \in {"audit", "statements", "report", "done"}
    BY <1>3 DEF LeanInv, LeanControl, CountDirectives, AuditAxioms, CompareStatements, Report
  <2>3. problems' = {} => problems = {}
    BY <1>3 DEF CountDirectives, AuditAxioms, CompareStatements, Report
  <2>4. LeanControl'
    BY <1>3, <2>1, <2>2 DEF LeanInv, LeanControl, CountDirectives, AuditAxioms, CompareStatements, Report
  <2>5. Scanned'
    BY <2>1, <2>2, <2>3 DEF LeanInv, Scanned, Unsaved
  <2>6. Built'
    BY <2>1, <2>2 DEF LeanInv, Built, Elaborates, Unsaved
  <2>7. Audited'
    <3>1. CASE AuditAxioms
      <4>1. problems' = {} =>
              /\ {<<"missing", n>> : n \in ExpectedTheorems \ DOMAIN log.audited} = {}
              /\ {<<"depends", n>> : n \in {m \in DOMAIN log.audited : ~log.audited[m] \subseteq AllowedAxioms}} = {}
        BY <3>1 DEF AuditAxioms
      <4> QED BY <2>1, <4>1 DEF Audited, ExpectedTheorems
    <3>2. CASE CountDirectives
      BY <2>2, <3>2 DEF Audited, CountDirectives
    <3>3. CASE CompareStatements \/ Report
      <4>1. step \in {"statements", "report"}
        BY <3>3 DEF CompareStatements, Report
      <4> QED BY <2>1, <2>3, <4>1 DEF LeanInv, Audited, ExpectedTheorems
    <3> QED BY <1>3, <3>1, <3>2, <3>3
  <2>8. Compared'
    <3>1. CASE CompareStatements
      <4>1. problems' = {} =>
              /\ {<<"absent", n>> : n \in ExpectedTheorems \ DOMAIN TheoremStatements(tree.files)} = {}
              /\ {<<"changed", n>> : n \in {m \in ExpectedTheorems \cap DOMAIN TheoremStatements(tree.files) :
                                      TheoremStatements(tree.files)[m] # ExpectedStatement(m)}} = {}
        BY <3>1 DEF CompareStatements
      <4>2. TheoremStatements(tree.files)' = TheoremStatements(tree.files)
        BY <2>1
      <4> QED BY <4>1, <4>2 DEF Compared, ExpectedTheorems, ExpectedStatement
    <3>2. CASE CountDirectives \/ AuditAxioms
      BY <2>2, <3>2 DEF Compared, CountDirectives, AuditAxioms
    <3>3. CASE Report
      <4>1. TheoremStatements(tree.files)' = TheoremStatements(tree.files) /\ step = "report"
        BY <2>1, <3>3 DEF Report
      <4> QED BY <2>1, <2>3, <4>1 DEF LeanInv, Compared, Unsaved, ExpectedTheorems
    <3> QED BY <1>3, <3>1, <3>2, <3>3
  <2> QED BY <2>4, <2>5, <2>6, <2>7, <2>8 DEF LeanInv
<1>4. CASE LeanSave
  <2>1. /\ step # "done" /\ leanSaves > 0 /\ leanSaves' = leanSaves - 1 /\ tree' \in LeanSaves
        /\ UNCHANGED <<step, problems, log, elaborated, status>>
    BY <1>4 DEF LeanSave
  <2>2. leanSaves \in 0 .. MaxLeanSaves /\ MaxLeanSaves \in Nat /\ status # 0
    BY <2>1, LeanAssumption DEF LeanInv, LeanControl
  <2>3. ~Unsaved' /\ leanSaves' \in 0 .. MaxLeanSaves
    BY <2>1, <2>2 DEF Unsaved
  <2>4. Built'
    BY <2>1, <2>3 DEF LeanInv, Built, Elaborates
  <2> QED BY <2>1, <2>2, <2>3, <2>4 DEF LeanInv, LeanControl, Scanned, Audited, Compared, ExpectedTheorems
<1> QED BY <1>1, <1>2, <1>3, <1>4 DEF LeanNext

LEMMA LeanInvStep ==
  LeanInv /\ [ToolsNext]_<<vars, auditVars, leanVars, hypVars>> => LeanInv'
<1> SUFFICES ASSUME LeanInv, [ToolsNext]_<<vars, auditVars, leanVars, hypVars>> PROVE LeanInv'
  OBVIOUS
<1>1. CASE UNCHANGED leanVars
  <2>1. UNCHANGED <<tree, step, problems, log, elaborated, status, leanSaves>>
    BY <1>1 DEF leanVars
  <2>2. TheoremStatements(tree.files)' = TheoremStatements(tree.files)
    BY <2>1
  <2>3. LeanControl' /\ Scanned'
    BY <2>1 DEF LeanInv, LeanControl, Scanned, Unsaved
  <2>4. Built'
    BY <2>1 DEF LeanInv, Built, Elaborates, Unsaved
  <2>5. Audited' /\ Compared'
    BY <2>1, <2>2 DEF LeanInv, Audited, Compared, Unsaved, ExpectedTheorems
  <2> QED BY <2>3, <2>4, <2>5 DEF LeanInv
<1>2. CASE step # "idle" /\ LeanNext
  BY <1>2, LeanSteps
<1> QED BY <1>1, <1>2 DEF ToolsNext

(* "PASS": what was elaborated declares every pinned theorem, on the       *)
(* allowed axioms; without a save and with one declaration of the name, it *)
(* is the pinned statement with proofs the kernel checked: for every       *)
(* development, every list of pinned theorems and any number of saves.     *)
THEOREM LeanCleanIsReviewed == ToolsSpec => []CleanIsReviewed
<1>1. ASSUME LeanInv PROVE CleanIsReviewed
  <2> SUFFICES ASSUME status = 0, NEW n \in ExpectedTheorems
               PROVE  LET used == Uses(AllOf(elaborated, Imported), n)
                      IN  /\ n \in {d.name : d \in used}
                          /\ \A d \in used : Axioms(d.proof) \subseteq AllowedAxioms
                          /\ (leanSaves = MaxLeanSaves /\ DeclaredOnce(n)) =>
                               \A d \in used :
                                 /\ d.proof = "checked"
                                 /\ d.name = n => d.stmt = ExpectedStatement(n)
    BY DEF CleanIsReviewed
  <2> DEFINE all  == AllOf(elaborated, Imported)
             used == Uses(all, n)
  <2>1. step = "done" /\ problems = {} /\ tree \in LeanTrees \cup LeanSaves
    BY <1>1 DEF LeanInv, LeanControl
  <2>2. PICK t \in LeanTrees \cup LeanSaves : Elaborates(t)
    BY <1>1 DEF LeanInv, Built
  <2>3. n \in DOMAIN log.audited /\ log.audited[n] \subseteq AllowedAxioms
    BY <1>1, <2>1 DEF LeanInv, Audited
  <2>4. elaborated = t.files /\ log = Elaboration(t)
    BY <2>2 DEF Elaborates
  <2> DEFINE sound(p) == \A i \in DOMAIN t.files[p] : t.files[p][i].proof # "broken"
             once     == \A p, q \in Imported : \A i \in DOMAIN t.files[p], j \in DOMAIN t.files[q] :
                           t.files[p][i].name = t.files[q][j].name => p = q /\ i = j
             builds   == once /\ \A p \in Imported : sound(p)
             known    == {m \in ToSet(t.directives) : \E d \in all : d.name = m}
  <2>5. log.audited = [m \in (IF builds THEN known ELSE {}) |-> UNION {Axioms(d.proof) : d \in Uses(all, m)}]
    BY <2>4 DEF Elaboration
  <2>6. /\ n \in known /\ \A p \in Imported : sound(p)
        /\ log.audited[n] = UNION {Axioms(d.proof) : d \in used}
    <3> HIDE DEF known, once, sound, all
    <3> QED BY <2>3, <2>5
  <2>7. n \in {d.name : d \in used}
    BY <2>6 DEF Uses
  <2>8. \A d \in used : Axioms(d.proof) \subseteq AllowedAxioms
    <3> HIDE DEF used
    <3> QED BY <2>3, <2>6
  <2>9. ASSUME leanSaves = MaxLeanSaves, DeclaredOnce(n), NEW d \in used
        PROVE  d.proof = "checked" /\ (d.name = n => d.stmt = ExpectedStatement(n))
    <3>1. t = tree /\ Unsaved
      BY <2>2, <2>9 DEF Elaborates, Unsaved
    <3>2. PICK p \in Imported : d \in ToSet(elaborated[p])
      BY <2>9 DEF Uses, AllOf
    <3>3. PICK i \in DOMAIN elaborated[p] : d = elaborated[p][i]
      BY <3>2 DEF ToSet
    <3>4. p \in Everywhere
      BY <3>2, LeanAssumption DEF Everywhere
    <3>5. d.proof \in Forbidden \cup {"checked", "broken", "conjured"}
      BY <2>4, <3>3, <3>4, LeanAssumption DEF Everywhere
    <3>6. d.proof # "broken"
      BY <2>4, <2>6, <3>2, <3>3
    <3>7. d.proof \notin Forbidden
      <4>1. d \in AllOf(tree.files, Everywhere)
        BY <2>4, <3>1, <3>2, <3>4 DEF AllOf
      <4> QED BY <1>1, <2>1, <3>1, <4>1 DEF LeanInv, Scanned
    <3>8. d.proof # "conjured"
      BY <2>8, <2>9 DEF Axioms, AllowedAxioms
    <3>9. ASSUME d.name = n PROVE d.stmt = ExpectedStatement(n)
      <4>1. n \in DOMAIN TheoremStatements(tree.files) /\ TheoremStatements(tree.files)[n] = Pinned[n]
        BY <1>1, <2>1, <3>1 DEF LeanInv, Compared
      <4>2. \A q \in Everywhere : IsSeq(tree.files[q])
        BY <2>1, LeanAssumption DEF IsSeq, Everywhere
      <4>3. PICK e \in AllOf(tree.files, Everywhere) : e.name = n /\ TheoremStatements(tree.files)[n] = e.stmt
        BY <4>1, <4>2, StatementIsDeclared
      <4>4. PICK q \in Everywhere : e \in ToSet(elaborated[q])
        BY <2>4, <3>1, <4>3 DEF AllOf
      <4>5. PICK j \in DOMAIN elaborated[q] : e = elaborated[q][j]
        BY <4>4 DEF ToSet
      <4>6. e = d
        BY <2>9, <3>3, <3>4, <3>9, <4>3, <4>5 DEF DeclaredOnce
      <4> QED BY <4>1, <4>3, <4>6 DEF ExpectedStatement
    <3> QED BY <3>5, <3>6, <3>7, <3>8, <3>9
  <2> QED BY <2>7, <2>8, <2>9
<1>2. ToolsSpec => []LeanInv
  BY LeanInvInit, LeanInvStep, PTL DEF ToolsSpec
<1> QED BY <1>1, <1>2, PTL

-----------------------------------------------------------------------------
(* The obligations.  First, what one 64-bit lane computes, with the code's *)
(* numbers, which TLC cannot hold: the two-step Barrett reduction of       *)
(* src/Ntt.sol and src/InvNtt.sol, MU33 = floor(2^33 / q) and then the     *)
(* unit quotient by 2^23; the offsets of the accumulator; the decoding of  *)
(* z and UseHint of src/Decode.sol: what Ntt, RowProduct and UseHint take  *)
(* for granted.  Then the Barrett cliff and the lane-bound schedules of    *)
(* the two transforms, the steps of their layers, and the word kernels.    *)
(* The suite enumerates some of these and asks an SMT solver for others;   *)
(* here each is a theorem.  Powers of two are written out.                 *)

Q    == 8380417
MU33 == 1025

FirstStep(x)   == x - ((x * MU33) \div 8589934592) * Q
LazyBarrett(x) == FirstStep(x) - (FirstStep(x) \div 8388608) * Q

(* The largest product of the inverse transform, at layer 7.               *)
LargestProduct == 128 * Q * (Q - 1)

(* q * 2^28, q * 2^30 and q * 2^31; ACC_ENTRY. *)
KQ28     == 268435456 * Q
ACCQ30   == 1073741824 * Q
ACCQ31   == 2147483648 * Q
AccEntry == 4 * (Q - 1) * (17 * Q - 1) + KQ28

(* Bit 32 of a lane. *)
Bit32(n) == (n \div 4294967296) % 2

Gamma1  == 131072
Beta    == 78
Z_UOFF  == 8511489
Z_QB32  == 4286586879
Z_NLO   == 4294836302
Z_NHI   == 4303216719

(* The stored coefficient for the 18 bits v, and whether it is refused.    *)
ZLane(v)   == (Z_UOFF - v) - Bit32(Z_UOFF - v + Z_QB32) * Q
ZReject(o) == Bit32(o + Z_NLO) = 1 /\ Bit32(Z_NHI - o) = 1

D        == 190464
SW_MDIV  == 2886403
SW_K32G2 == 4294872063
SW_K321  == 4294967295

(* One lane of useHintSwar; a six-bit mask on Q0, a one-bit mask on the rest. *)
Q0(r)      == ((r * SW_MDIV) \div 549755813888) % 64
R0(r)      == r - Q0(r) * D
C(r)       == Bit32(R0(r) + SW_K32G2)
NEG(r)     == IF Bit32(R0(r) + SW_K321) = 0 \/ C(r) = 1 THEN 1 ELSE 0
S(h, r)    == Q0(r) + C(r) + (IF h = 1 THEN 1 + NEG(r) * 42 ELSE 0)
Out(h, r)  == S(h, r) - (((S(h, r) * 94) \div 4096) % 2) * 44

(* FIPS 204, Algorithms 36 and 40. *)
Centred(r)  == IF r % D > D \div 2 THEN (r % D) - D ELSE r % D
HighBits(r) == IF r - Centred(r) = Q - 1 THEN 0 ELSE (r - Centred(r)) \div D
LowBits(r)  == IF r - Centred(r) = Q - 1 THEN Centred(r) - 1 ELSE Centred(r)
FipsUseHint(h, r) ==
  IF h = 0 THEN HighBits(r)
  ELSE IF LowBits(r) > 0 THEN (HighBits(r) + 1) % 44 ELSE (HighBits(r) - 1) % 44

-----------------------------------------------------------------------------
(* What \div does, for the leaves below. *)
LEMMA DivMod ==
  ASSUME NEW n \in Nat, NEW d \in Nat \ {0}
  PROVE  /\ n \div d \in Nat
         /\ (n \div d) * d <= n
         /\ n < (n \div d) * d + d
  BY SMTT(30)

(* The coarse step leaves a little less than 33 bits. *)
LEMMA FirstStepSmall ==
  ASSUME NEW x \in Nat, x <= LargestProduct
  PROVE  /\ FirstStep(x) \in Nat
         /\ FirstStep(x) < 7600000000
<1> DEFINE a == (x * MU33) \div 8589934592
<1>1. x * MU33 \in Nat
  BY SMT DEF MU33
<1>2. a \in Nat /\ a * 8589934592 <= x * MU33 /\ x * MU33 < a * 8589934592 + 8589934592
  BY <1>1, DivMod, SMT
<1>3. FirstStep(x) = x - a * 8380417
  BY SMT DEF FirstStep, Q
<1> HIDE DEF a
<1>4. x * MU33 = x * 1025
  BY SMT DEF MU33
<1>5. x <= 8989616731324416
  BY SMT DEF Q, LargestProduct
<1> QED
  BY <1>2, <1>3, <1>4, <1>5, SMTT(60)

(* "Every intermediate product under 2^64": no lane of a packed reduction  *)
(* reaches its neighbour, and each quotient fits the mask QHATM31.         *)
THEOREM ReductionIsLaneLocal ==
  ASSUME NEW x \in Nat, x <= LargestProduct
  PROVE  /\ x * MU33 < 18446744073709551616
         /\ (x * MU33) \div 8589934592 < 2147483648
         /\ FirstStep(x) \div 8388608 < 2147483648
<1>1. x <= 8989616731324416
  BY SMT DEF Q, LargestProduct
<1>2. x * MU33 = x * 1025 /\ x * MU33 \in Nat
  BY SMT DEF MU33
<1>3. x * MU33 < 9223372036854775808
  BY <1>1, <1>2, SMT
<1>4. (x * MU33) \div 8589934592 < 2147483648
  <2> DEFINE a == (x * MU33) \div 8589934592
  <2>1. a \in Nat /\ a * 8589934592 <= x * MU33
    BY <1>2, DivMod, SMT
  <2> QED
    BY <2>1, <1>2, <1>3, SMT
<1>5. FirstStep(x) \div 8388608 < 2147483648
  <2> DEFINE c == FirstStep(x) \div 8388608
  <2>1. c \in Nat /\ c * 8388608 <= FirstStep(x)
    BY FirstStepSmall, DivMod, SMT
  <2> QED
    BY <2>1, FirstStepSmall, SMT
<1> QED
  BY <1>2, <1>3, <1>4, <1>5, SMT

(* Over the whole domain of both transforms the reduction leaves the       *)
(* residue or the residue plus q: what Ntt calls slack.                    *)
THEOREM LazyBarrettLeaves ==
  ASSUME NEW x \in Nat, x <= LargestProduct
  PROVE  LazyBarrett(x) = x % Q \/ LazyBarrett(x) = (x % Q) + Q
<1> DEFINE y == FirstStep(x)
           a == (x * MU33) \div 8589934592
           c == y \div 8388608
           n == x \div 8380417
<1>1. y \in Nat /\ y < 7600000000
  BY FirstStepSmall, SMT
<1>2. c \in Nat /\ c * 8388608 <= y /\ y < c * 8388608 + 8388608
  BY <1>1, DivMod, SMT
<1>3. a \in Nat /\ y = x - a * 8380417
  <2>1. x * MU33 \in Nat
    BY SMT DEF MU33
  <2> QED
    BY <2>1, DivMod, SMT DEF FirstStep, Q
<1>4. LazyBarrett(x) = y - c * 8380417
  BY SMT DEF LazyBarrett, Q
<1>5. n \in Nat /\ n * 8380417 <= x /\ x < n * 8380417 + 8380417
  BY DivMod, SMT
<1>6. x % Q = x - n * 8380417
  BY SMT DEF Q
<1> HIDE DEF y, a, c, n
<1>7. LazyBarrett(x) \in Nat /\ LazyBarrett(x) < 16760834
  BY <1>1, <1>2, <1>4, SMT
<1>8. LazyBarrett(x) = (x % Q) + (n - a - c) * 8380417
  BY <1>2, <1>3, <1>4, <1>5, <1>6, SMT
<1>9. n - a - c = 0 \/ n - a - c = 1
  BY <1>2, <1>3, <1>5, <1>6, <1>7, <1>8, SMT
<1> QED
  BY <1>8, <1>9, SMT DEF Q

(* The offsets dominate what is subtracted from them: a product of c and   *)
(* t1, one lane of the accumulator, two lanes; and the accumulator's lanes *)
(* stay under 2^53.                                                        *)
THEOREM OffsetsDominate ==
  /\ (Q - 1) * (17 * Q - 1) <= KQ28
  /\ AccEntry <= ACCQ30
  /\ 2 * AccEntry <= ACCQ31
  /\ AccEntry < 9007199254740992
  BY SMT DEF Q, KQ28, ACCQ30, ACCQ31, AccEntry

-----------------------------------------------------------------------------
(* The sum of a lane and a threshold constant that is below 2^33 has bit   *)
(* 32 set exactly from the threshold on.                                   *)
LEMMA Bit32IsThreshold ==
  ASSUME NEW n \in Nat, n < 8589934592
  PROVE  Bit32(n) = IF n >= 4294967296 THEN 1 ELSE 0
<1> DEFINE a == n \div 4294967296
<1>1. a \in Nat /\ a * 4294967296 <= n /\ n < a * 4294967296 + 4294967296
  BY DivMod, SMT
<1>2. a = IF n >= 4294967296 THEN 1 ELSE 0
  <2> HIDE DEF a
  <2> QED BY <1>1, SMT
<1> QED
  BY <1>2, SMT DEF Bit32

(* A z coefficient is stored as gamma1 - v mod q, and refused exactly when *)
(* it is not strictly within gamma1 - beta, the boundaries included.       *)
THEOREM ZLaneIsAlgorithm19 ==
  ASSUME NEW v \in Nat, v < 262144
  PROVE  /\ ZLane(v) = (Gamma1 - v) % Q
         /\ ZReject(ZLane(v)) <=> ~ (Beta - Gamma1 < Gamma1 - v /\ Gamma1 - v < Gamma1 - Beta)
<1>1. ZLane(v) = IF v <= 131072 THEN 131072 - v ELSE 8511489 - v
  <2>1. Z_UOFF - v + Z_QB32 \in Nat /\ Z_UOFF - v + Z_QB32 < 8589934592
    BY SMT DEF Z_UOFF, Z_QB32
  <2>2. Bit32(Z_UOFF - v + Z_QB32) = IF Z_UOFF - v + Z_QB32 >= 4294967296 THEN 1 ELSE 0
    BY <2>1, Bit32IsThreshold, SMT
  <2> QED
    BY <2>2, SMT DEF ZLane, Z_UOFF, Z_QB32, Q
<1> DEFINE o == ZLane(v)
<1>2. o \in Nat /\ o <= 8380416
  BY <1>1, SMT
<1>3. Bit32(o + Z_NLO) = IF o >= 130994 THEN 1 ELSE 0
  <2>1. o + Z_NLO \in Nat /\ o + Z_NLO < 8589934592
    BY <1>2, SMT DEF Z_NLO
  <2>2. Bit32(o + Z_NLO) = IF o + Z_NLO >= 4294967296 THEN 1 ELSE 0
    BY <2>1, Bit32IsThreshold, SMT
  <2> QED
    BY <2>2, <1>2, SMT DEF Z_NLO
<1>4. Bit32(Z_NHI - o) = IF o <= 8249423 THEN 1 ELSE 0
  <2>1. Z_NHI - o \in Nat /\ Z_NHI - o < 8589934592
    BY <1>2, SMT DEF Z_NHI
  <2>2. Bit32(Z_NHI - o) = IF Z_NHI - o >= 4294967296 THEN 1 ELSE 0
    BY <2>1, Bit32IsThreshold, SMT
  <2> QED
    BY <2>2, <1>2, SMT DEF Z_NHI
<1>5. (Gamma1 - v) % Q = IF v <= 131072 THEN 131072 - v ELSE 8511489 - v
  BY SMT DEF Gamma1, Q
<1> QED
  BY <1>1, <1>3, <1>4, <1>5, SMT DEF ZReject, Gamma1, Beta

(* The multiplication by MDIV and the shift divide by 2 gamma2, exactly.   *)
LEMMA Q0IsQuotient ==
  ASSUME NEW r \in Nat, r < Q
  PROVE  /\ Q0(r) = r \div D
         /\ Q0(r) \in Nat /\ Q0(r) <= 44
         /\ R0(r) = r % D
         /\ R0(r) \in Nat /\ R0(r) < D
<1> DEFINE a == (r * SW_MDIV) \div 549755813888
           n == r \div 190464
<1>1. r * SW_MDIV = r * 2886403 /\ r * SW_MDIV \in Nat /\ r \in Nat /\ r <= 8380416
  BY SMT DEF SW_MDIV, Q
<1>2. a \in Nat /\ a * 549755813888 <= r * 2886403 /\ r * 2886403 < a * 549755813888 + 549755813888
  BY <1>1, DivMod, SMT
<1>3. n \in Nat /\ n * 190464 <= r /\ r < n * 190464 + 190464
  BY <1>1, DivMod, SMT
<1>4. a = n /\ n <= 44
  <2> HIDE DEF a, n
  <2> QED BY <1>1, <1>2, <1>3, SMTT(60)
<1>5. Q0(r) = n /\ n % 64 = n
  BY <1>3, <1>4, SMT DEF Q0
<1>6. r % 190464 = r - n * 190464
  BY <1>1, SMT
<1> QED
  BY <1>3, <1>4, <1>5, <1>6, SMT DEF R0, D

(* "Bit-identical to UseHint of FIPS 204": for every canonical lane and    *)
(* both values of the hint bit, the q - 1 case included.                   *)
THEOREM UseHintLaneIsAlgorithm40 ==
  ASSUME NEW r \in Nat, r < Q, NEW h \in {0, 1}
  PROVE  Out(h, r) = FipsUseHint(h, r)
<1> DEFINE n == Q0(r)
           m == R0(r)
<1>1. n \in Nat /\ n <= 44 /\ m \in Nat /\ m <= 190463
  BY Q0IsQuotient, SMT DEF D
<1>0. m = r % 190464
  BY Q0IsQuotient, SMT DEF D
<1>2. r = n * 190464 + m /\ r \in Nat /\ r <= 8380416
  <2>1. R0(r) = r - Q0(r) * 190464
    BY SMT DEF R0, D
  <2> QED
    BY <1>1, <2>1, SMT DEF Q
<1> HIDE DEF n, m
<1>3. C(r) = IF m > 95232 THEN 1 ELSE 0
  <2>1. m + SW_K32G2 \in Nat /\ m + SW_K32G2 < 8589934592
    BY <1>1, SMT DEF SW_K32G2
  <2>2. Bit32(m + SW_K32G2) = IF m + SW_K32G2 >= 4294967296 THEN 1 ELSE 0
    BY <2>1, Bit32IsThreshold, SMT
  <2> QED
    BY <2>2, <1>1, SMT DEF SW_K32G2, C, m
<1>4. Bit32(R0(r) + SW_K321) = IF m = 0 THEN 0 ELSE 1
  <2>1. m + SW_K321 \in Nat /\ m + SW_K321 < 8589934592
    BY <1>1, SMT DEF SW_K321
  <2>2. Bit32(m + SW_K321) = IF m + SW_K321 >= 4294967296 THEN 1 ELSE 0
    BY <2>1, Bit32IsThreshold, SMT
  <2> QED
    BY <2>2, <1>1, SMT DEF SW_K321, m
<1>5. NEG(r) = IF m = 0 \/ m > 95232 THEN 1 ELSE 0
  BY <1>3, <1>4, SMT DEF NEG, m
<1>6. S(h, r) \in Nat /\ S(h, r) <= 87
  BY <1>1, <1>2, <1>3, <1>5, SMT DEF S, n
<1>7. Out(h, r) = IF S(h, r) >= 44 THEN S(h, r) - 44 ELSE S(h, r)
  BY <1>6, SMT DEF Out
<1>8. Centred(r) = IF m > 95232 THEN m - 190464 ELSE m
  BY <1>0, <1>1, SMT DEF Centred, D
<1>9. r - Centred(r) = (n + C(r)) * 190464
  BY <1>1, <1>2, <1>3, <1>8, SMT
<1>10. HighBits(r) = IF n + C(r) = 44 THEN 0 ELSE n + C(r)
  BY <1>1, <1>2, <1>3, <1>9, SMT DEF HighBits, D, Q
<1>11. LowBits(r) > 0 <=> ~ (m = 0 \/ m > 95232)
  BY <1>1, <1>2, <1>3, <1>8, <1>9, SMT DEF LowBits, Q
<1>12. n + C(r) \in Nat /\ n + C(r) <= 44
  BY <1>1, <1>2, <1>3, SMT
<1> QED
  BY <1>1, <1>3, <1>5, <1>7, <1>10, <1>11, <1>12, SMT DEF S, FipsUseHint, n

-----------------------------------------------------------------------------
Two28  == 268435456
Two31  == 2147483648
Two33  == 8589934592
Two64  == 18446744073709551616
Two128 == 340282366920938463463374607431768211456
Two192 == 6277101735386680763835789423207666416102355444464034512896

Gamma2 == 95232

-----------------------------------------------------------------------------
(* The accumulator of a matrix row when the key's coefficients are below   *)
(* amax, and whether the offsets of the inverse transform cover it.        *)
AccEntryAt(amax) == 4 * (amax - 1) * (17 * Q - 1) + KQ28
EntryOffsetDominates(amax) ==
  AccEntryAt(amax) <= ACCQ30 /\ 2 * AccEntryAt(amax) <= ACCQ31

(* C9: the final forward lane and product, the inverse sum lane, the       *)
(* largest product of a packed lane and its quotient's width.              *)
CeilingsFit ==
  /\ 17 * Q < Two28
  /\ 15 * Q * (Q - 1) < 1125899906842624
  /\ 256 * Q < Two31
  /\ LargestProduct < 9007199254740992
  /\ LargestProduct * MU33 < Two64
  /\ (LargestProduct * MU33) \div Two33 < Two31

(* C11: the first input the two steps do not bring below 2q, and the first *)
(* whose product leaves its lane.                                          *)
BARRETT_FIRST_FAIL  == 10285325456994078
LANE_FIRST_OVERFLOW == 17996823486545905

(* C9f: lb0 + L * inc bounds a lane after L layers; the operand multiplied *)
(* in layer L + 1 is below the bound after L.                              *)
FwdLane(lb0, inc, L) == lb0 + L * inc
FwdInductionCloses(lb0, inc, layers) ==
  /\ \A L \in 0 .. layers - 1 : FwdLane(lb0, inc, L) <= 15 * Q
  /\ \E L \in 0 .. layers - 1 : FwdLane(lb0, inc, L) = 15 * Q
  /\ FwdLane(lb0, inc, layers) = 17 * Q

(* C9g: K_L = 2^(L-1) times q bounds a lane that enters layer L; layers 3  *)
(* to nb multiply and reduce by Barrett.                                   *)
KOf(L) == <<1, 2, 4, 8, 16, 32, 64, 128>>[L]
InvInductionCloses(entry, leave, nb, sumLane, op) ==
  /\ entry = AccEntryAt(Q) /\ entry <= ACCQ30 /\ 2 * entry <= ACCQ31
  /\ leave <= 4 * Q
  /\ \A L \in 3 .. nb : 2 * KOf(L) * Q * (Q - 1) <= LargestProduct
  /\ \E L \in 3 .. nb : 2 * KOf(L) * Q * (Q - 1) = LargestProduct
  /\ sumLane = 256 * Q
  /\ op * (Q - 1) < Two64

(* S6: with the offset k * q no pair of lanes that may enter layer L makes *)
(* the difference lane borrow.                                             *)
OffsetCovers(L, k) ==
  \A u, v \in 0 .. KOf(L) * Q - 1 : u + k * Q - v > 0

-----------------------------------------------------------------------------
(* The suite's models of the code and of FIPS 204.                         *)
RefReduceModPm(x, n) == IF (x % n) > (n \div 2) THEN (x % n) - n ELSE x % n
RefDecompose(r) ==
  LET r0 == RefReduceModPm(r % Q, 2 * Gamma2)
  IN IF (r % Q) - r0 = Q - 1 THEN <<0, r0 - 1>> ELSE <<((r % Q) - r0) \div (2 * Gamma2), r0>>
RefUseHint(h, r) ==
  IF h = 1 THEN IF RefDecompose(r)[2] > 0
                THEN (RefDecompose(r)[1] + 1) % 44 ELSE (RefDecompose(r)[1] - 1) % 44
  ELSE RefDecompose(r)[1]

RefZCentered(v) == (Gamma1 - v) % Q
RefZNormOk(v) == Gamma1 - v < Gamma1 - Beta /\ v - Gamma1 < Gamma1 - Beta

KernZCenteredStrict(v) == (Q + Gamma1 - v) % Q
(* sub in words of size w wraps, and lt compares unsigned; w is 2^256.     *)
EvmSub(a, b, w) == IF a >= b THEN a - b ELSE w + a - b
KernZNormFlag(v, w) == ~ (EvmSub(v, Beta + 1, w) < 2 * Gamma1 - 2 * Beta - 1)

KernUseHint(h, r) ==
  LET q0 == r \div (2 * Gamma2)
      r0 == r - q0 * (2 * Gamma2)
      c  == IF r0 > Gamma2 THEN 1 ELSE 0
      r1 == IF q0 + c = 44 THEN 0 ELSE q0 + c
  IN (r1 + h * (1 + 42 * (IF r0 = 0 \/ c = 1 THEN 1 ELSE 0))) % 44

(* C17: the one reduction modulo 44 of useHintSwar, and its reachable range. *)
Mod44(t) == t - 44 * ((t * 94) \div 4096)
TMax == 44 + 43

(* C15: the widths of the stored key and of a signature.                   *)
PkSize == 64 + 4 * 256 * 4 + 16 * 256 * 4
SigSize == 32 + (4 * 256 * 18) \div 8 + (80 + 4)

-----------------------------------------------------------------------------
(* The offsets hold for a canonical key and for no key with coefficients   *)
(* of 2q: that the registrar stores canonical coefficients is a            *)
(* precondition of soundness, not of tidiness.                             *)
THEOREM CanonicalKeyIsTheMargin ==
  ASSUME NEW amax \in Nat \ {0}
  PROVE  /\ amax <= Q => EntryOffsetDominates(amax)
         /\ amax >= 2 * Q => ~ EntryOffsetDominates(amax)
<1>1. AccEntryAt(amax) = 569868352 * (amax - 1) + 2249601058865152
  BY SMT DEF AccEntryAt, Q, KQ28
<1> QED
  BY <1>1, SMT DEF EntryOffsetDominates, Q, ACCQ30, ACCQ31

(* C9a-e, h, C15: every ceiling the layers are checked against.            *)
THEOREM CeilingsHold == CeilingsFit /\ PkSize = 20544 /\ SigSize = 2420
<1>1. LargestProduct = 8989616731324416
  BY SMT DEF LargestProduct, Q
<1>2. LargestProduct * MU33 < Two64 /\ (LargestProduct * MU33) \div Two33 < Two31
  <2>1. LargestProduct \in Nat /\ LargestProduct <= LargestProduct
    BY <1>1
  <2> QED
    BY <2>1, ReductionIsLaneLocal DEF Two64, Two33, Two31
<1>3. /\ 17 * Q < Two28
      /\ 15 * Q * (Q - 1) < 1125899906842624
      /\ 256 * Q < Two31
  BY SMT DEF Q, Two28, Two31
<1> QED
  BY <1>1, <1>2, <1>3, SMT DEF CeilingsFit, PkSize, SigSize

(* C11: the cliff is exactly where the suite says.  Below it the two steps *)
(* leave a residue below 2q; at it they leave 2q; the lane overflows only  *)
(* beyond it; and doubling the inverse transform's growth would cross it.  *)
THEOREM BarrettCliff ==
  /\ \A x \in Nat : x < BARRETT_FIRST_FAIL =>
       LazyBarrett(x) \in Nat /\ LazyBarrett(x) < 2 * Q
  /\ LazyBarrett(BARRETT_FIRST_FAIL) = 2 * Q
  /\ LANE_FIRST_OVERFLOW > BARRETT_FIRST_FAIL
  /\ \A x \in Nat : x * MU33 >= Two64 <=> x >= LANE_FIRST_OVERFLOW
  /\ LargestProduct < BARRETT_FIRST_FAIL /\ 2 * LargestProduct >= BARRETT_FIRST_FAIL
<1>1. ASSUME NEW x \in Nat, x < BARRETT_FIRST_FAIL
      PROVE  LazyBarrett(x) \in Nat /\ LazyBarrett(x) < 2 * Q
  <2> DEFINE y == FirstStep(x)
             a == (x * MU33) \div 8589934592
             c == y \div 8388608
  <2>1. x * MU33 = x * 1025 /\ x * MU33 \in Nat /\ x < 10285325456994078
    BY <1>1, SMT DEF MU33, BARRETT_FIRST_FAIL
  <2>2. a \in Nat /\ a * 8589934592 <= x * 1025 /\ x * 1025 < a * 8589934592 + 8589934592
    BY <2>1, DivMod, SMT
  <2>3. y = x - a * 8380417
    BY SMT DEF FirstStep, Q
  <2>4. y \in Nat /\ y < 8589927425
    <3> HIDE DEF a, y
    <3> QED BY <2>1, <2>2, <2>3, SMTT(90)
  <2>5. c \in Nat /\ c * 8388608 <= y /\ y < c * 8388608 + 8388608
    BY <2>4, DivMod, SMT
  <2>6. LazyBarrett(x) = y - c * 8380417
    BY SMT DEF LazyBarrett, Q
  <2> HIDE DEF c, y, a
  <2> QED
    BY <2>4, <2>5, <2>6, SMTT(60) DEF Q
<1>2. LazyBarrett(BARRETT_FIRST_FAIL) = 2 * Q
  <2> DEFINE x == BARRETT_FIRST_FAIL
             y == FirstStep(x)
             a == (x * MU33) \div 8589934592
             c == y \div 8388608
  <2>1. x \in Nat /\ x >= 10285325456994078 /\ x <= 10285325456994078
    BY SMT DEF BARRETT_FIRST_FAIL
  <2> HIDE DEF x
  <2>2. x * MU33 = x * 1025 /\ x * MU33 \in Nat
    BY <2>1, SMT DEF MU33
  <2>3. a \in Nat /\ a * 8589934592 <= x * 1025 /\ x * 1025 < a * 8589934592 + 8589934592
    BY <2>2, DivMod, SMT
  <2>4. y = x - a * 8380417
    BY SMT DEF FirstStep, Q
  <2>5. a >= 1227303709 /\ a <= 1227303709
    <3> HIDE DEF a
    <3> QED BY <2>1, <2>3, SMT
  <2>6. y \in Nat /\ y >= 8589927425 /\ y <= 8589927425
    <3> HIDE DEF a, y
    <3> QED BY <2>1, <2>3, <2>4, <2>5, SMT
  <2>7. c \in Nat /\ c * 8388608 <= y /\ y < c * 8388608 + 8388608
    BY <2>6, DivMod, SMT
  <2>8. LazyBarrett(x) = y - c * 8380417
    BY SMT DEF LazyBarrett, Q
  <2>9. LazyBarrett(x) = 2 * Q
    <3> HIDE DEF c, y
    <3> QED BY <2>6, <2>7, <2>8, SMT DEF Q
  <2> QED BY <2>9 DEF x
<1>3. \A x \in Nat : x * MU33 >= Two64 <=> x >= LANE_FIRST_OVERFLOW
  BY SMT DEF LANE_FIRST_OVERFLOW, MU33, Two64
<1>4. LargestProduct = 8989616731324416
  BY SMT DEF LargestProduct, Q
<1> QED
  BY <1>1, <1>2, <1>3, <1>4, SMT DEF LANE_FIRST_OVERFLOW, BARRETT_FIRST_FAIL

(* C9f: the predicate on schedules closes for the shipped one, it forces   *)
(* the increment 2q, and from canonical lanes it forces eight layers: a    *)
(* ninth, a seventh, or another increment is refused.                      *)
THEOREM ForwardScheduleIsForced ==
  /\ FwdInductionCloses(Q, 2 * Q, 8)
  /\ \A lb0, inc, layers \in Nat :
       FwdInductionCloses(lb0, inc, layers)
         => inc = 2 * Q /\ (lb0 = Q => layers = 8)
<1>1. FwdInductionCloses(Q, 2 * Q, 8)
  BY SMT DEF FwdInductionCloses, FwdLane, Q
<1>2. ASSUME NEW lb0 \in Nat, NEW inc \in Nat, NEW layers \in Nat,
             FwdInductionCloses(lb0, inc, layers)
      PROVE  inc = 2 * Q /\ (lb0 = Q => layers = 8)
  <2>1. PICK L \in 0 .. layers - 1 : lb0 + L * inc = 15 * Q
    BY <1>2 DEF FwdInductionCloses, FwdLane
  <2>2. lb0 + (layers - 1) * inc <= 15 * Q /\ layers - 1 \in 0 .. layers - 1
    BY <1>2, <2>1, SMT DEF FwdInductionCloses, FwdLane, Q
  <2>3. lb0 + layers * inc = 17 * Q
    BY <1>2 DEF FwdInductionCloses, FwdLane
  <2>4. (layers - 1) * inc = layers * inc - inc
    BY SMT
  <2>5. L * inc <= (layers - 1) * inc
    <3>1. (layers - 1 - L) * inc >= 0
      BY <2>1, SMT
    <3> QED BY <3>1, <2>1, SMT
  <2>6. inc = 2 * 8380417
    <3> DEFINE p == layers * inc
               m == L * inc
    <3>1. p \in Nat /\ m \in Int
      BY <2>1, SMT
    <3> HIDE DEF p, m
    <3> QED BY <2>1, <2>2, <2>3, <2>4, <2>5, <3>1, SMT DEF p, m, Q
  <2> QED
    BY <2>3, <2>6, SMT DEF Q
<1> QED
  BY <1>1, <1>2

(* C9g and S6: the predicate on inverse schedules closes for the shipped   *)
(* one and for no other entry ceiling, no exit above 4q, no other number   *)
(* of Barrett layers, no other sum lane and no operand that leaves a lane. *)
(* The bounds it composes double from 4q at layer 3, and an offset k*q     *)
(* covers a layer's lanes exactly from K_L on: K_L*q is the smallest.      *)
THEOREM InverseScheduleIsForced ==
  /\ InvInductionCloses(AccEntry, 2 * Q, 7, 256 * Q, 256 * Q)
  /\ \A entry, leave, sumLane, op \in Nat : \A nb \in 3 .. 8 :
       InvInductionCloses(entry, leave, nb, sumLane, op)
         <=> /\ entry = AccEntry /\ leave <= 4 * Q /\ nb = 7
             /\ sumLane = 256 * Q /\ op * (Q - 1) < Two64
  /\ KOf(3) = 4 /\ \A L \in 3 .. 7 : KOf(L + 1) = 2 * KOf(L)
  /\ \A L \in 3 .. 8 : \A k \in Nat : OffsetCovers(L, k) <=> k >= KOf(L)
<1>1. AccEntry = AccEntryAt(Q) /\ AccEntry <= ACCQ30 /\ 2 * AccEntry <= ACCQ31
  BY SMT DEF AccEntry, AccEntryAt, Q, KQ28, ACCQ30, ACCQ31
<1>2. 2 * Q <= 4 * Q /\ (256 * Q) * (Q - 1) < Two64
  BY SMT DEF Q, Two64
<1>3. /\ KOf(3) = 4 /\ KOf(4) = 8 /\ KOf(5) = 16
      /\ KOf(6) = 32 /\ KOf(7) = 64 /\ KOf(8) = 128
  BY SMT DEF KOf
<1>4. ASSUME NEW nb \in 3 .. 8
      PROVE  (/\ \A L \in 3 .. nb : 2 * KOf(L) * Q * (Q - 1) <= LargestProduct
              /\ \E L \in 3 .. nb : 2 * KOf(L) * Q * (Q - 1) = LargestProduct)
             <=> nb = 7
  <2>1. \A L \in 3 .. 8 : 2 * KOf(L) * Q * (Q - 1) = KOf(L) * 140462761426944
    BY <1>3, SMT DEF Q
  <2>2. LargestProduct = 64 * 140462761426944
    BY SMT DEF LargestProduct, Q
  <2>3. \A L \in 3 .. 7 : KOf(L) <= 64 /\ KOf(L) \in Nat
    BY <1>3, SMT
  <2>4. \A L \in 3 .. 6 : KOf(L) < 64
    BY <1>3, SMT
  <2>5. CASE nb = 7
    BY <2>1, <2>2, <2>3, <2>5, <1>3, SMT
  <2>6. CASE nb = 8
    BY <2>1, <2>2, <2>6, <1>3, SMT
  <2>7. CASE nb <= 6
    BY <2>1, <2>2, <2>3, <2>4, <2>7, <1>3, SMT
  <2> QED
    BY <2>5, <2>6, <2>7, SMT
<1>5. ASSUME NEW entry \in Nat, NEW leave \in Nat, NEW sumLane \in Nat, NEW op \in Nat,
             NEW nb \in 3 .. 8
      PROVE  InvInductionCloses(entry, leave, nb, sumLane, op)
               <=> /\ entry = AccEntry /\ leave <= 4 * Q /\ nb = 7
                   /\ sumLane = 256 * Q /\ op * (Q - 1) < Two64
  BY <1>1, <1>4, Zenon DEF InvInductionCloses
<1>6. InvInductionCloses(AccEntry, 2 * Q, 7, 256 * Q, 256 * Q)
  <2>1. 7 \in 3 .. 8
    OBVIOUS
  <2>2. (/\ \A L \in 3 .. 7 : 2 * KOf(L) * Q * (Q - 1) <= LargestProduct
         /\ \E L \in 3 .. 7 : 2 * KOf(L) * Q * (Q - 1) = LargestProduct)
    BY <1>4, <2>1
  <2>3. QED
    BY <1>1, <1>2, <2>2, Zenon DEF InvInductionCloses
<1>7. \A L \in 3 .. 7 : KOf(L + 1) = 2 * KOf(L)
  BY <1>3, SMT
<1>8. ASSUME NEW L \in 3 .. 8, NEW k \in Nat
      PROVE  OffsetCovers(L, k) <=> k >= KOf(L)
  <2>1. KOf(L) \in Nat /\ KOf(L) >= 4
    BY <1>3, SMT
  <2> DEFINE top == KOf(L) * Q - 1
             off == k * Q
  <2>2. /\ top \in Nat /\ off \in Nat
        /\ k >= KOf(L) => off > top
        /\ ~ k >= KOf(L) => off <= top
    BY <2>1, SMT DEF Q
  <2> HIDE DEF top, off
  <2>3. (\A u, v \in 0 .. top : u + off - v > 0) <=> off > top
    <3>1. ASSUME off > top, NEW u \in 0 .. top, NEW v \in 0 .. top
          PROVE  u + off - v > 0
      BY <2>2, <3>1, SMT
    <3>2. ASSUME \A u, v \in 0 .. top : u + off - v > 0
          PROVE  off > top
      <4>1. 0 \in 0 .. top /\ top \in 0 .. top
        BY <2>2, SMT
      <4>2. 0 + off - top > 0
        BY <3>2, <4>1
      <4>3. QED
        BY <2>2, <4>2, SMT
    <3>3. QED
      BY <3>1, <3>2
  <2>4. QED
    BY <2>2, <2>3 DEF OffsetCovers, top, off
<1> QED
  BY <1>3, <1>5, <1>6, <1>7, <1>8, Zenon

-----------------------------------------------------------------------------
(* E3, E4, E5, E6: on every 18-bit field the reference decoder's residue   *)
(* is FIPS 204's and its one unsigned comparison, in words of any width    *)
(* over 19 bits, refuses exactly what the strict norm bound does, on both  *)
(* tails; the field gamma1 becomes 0.                                      *)
THEOREM ScalarDecoderIsFips ==
  ASSUME NEW v \in Nat, v < 262144, NEW w \in Nat, w >= 524288
  PROVE  /\ KernZCenteredStrict(v) = RefZCentered(v)
         /\ KernZNormFlag(v, w) <=> ~ RefZNormOk(v)
         /\ RefZNormOk(v) <=> Beta < v /\ v < 2 * Gamma1 - Beta
         /\ KernZCenteredStrict(v) = 0 <=> v = Gamma1
<1>1. /\ KernZCenteredStrict(v) = RefZCentered(v)
      /\ KernZCenteredStrict(v) = 0 <=> v = Gamma1
  BY SMT DEF KernZCenteredStrict, RefZCentered, Q, Gamma1
<1>2. RefZNormOk(v) <=> Beta < v /\ v < 2 * Gamma1 - Beta
  BY SMT DEF RefZNormOk, Beta, Gamma1
<1>3. KernZNormFlag(v, w) <=> ~ (Beta < v /\ v < 2 * Gamma1 - Beta)
  BY SMT DEF KernZNormFlag, EvmSub, Beta, Gamma1
<1> QED
  BY <1>1, <1>2, <1>3

(* E1, E2: UseHint as the reference verifier computes it is Algorithm 40   *)
(* for every residue and both hint bits, and its value packs into 6 bits.  *)
THEOREM ScalarUseHintIsFips ==
  ASSUME NEW r \in Nat, r < Q, NEW h \in {0, 1}
  PROVE  KernUseHint(h, r) = RefUseHint(h, r) /\ KernUseHint(h, r) \in 0 .. 43
<1> DEFINE n == r \div 190464
           m == r - n * 190464
           c == IF m > 95232 THEN 1 ELSE 0
<1>1. n \in Nat /\ m \in Nat /\ m <= 190463 /\ r = n * 190464 + m /\ r <= 8380416
  BY DivMod, SMT DEF Q
<1>2. r % Q = r /\ r % 190464 = m /\ 2 * Gamma2 = 190464 /\ 190464 \div 2 = 95232
  BY SMT DEF Q, Gamma2
<1> HIDE DEF n, m
<1>3. RefReduceModPm(r % Q, 2 * Gamma2) = m - c * 190464
  BY <1>1, <1>2, SMT DEF RefReduceModPm
<1>4. n + c \in Nat /\ n + c <= 44 /\ (n = 44 => m = 0)
  BY <1>1, SMT
<1>5. (r % Q) - (m - c * 190464) = (n + c) * 190464
  BY <1>1, <1>2, SMT
<1>6. (n + c) * 190464 = Q - 1 <=> n + c = 44
  BY <1>4, SMT DEF Q
<1>7. ((n + c) * 190464) \div 190464 = n + c
  BY <1>4, SMT
<1> HIDE DEF c
<1>8. RefDecompose(r) = IF n + c = 44 THEN <<0, m - c * 190464 - 1>>
                                      ELSE <<n + c, m - c * 190464>>
  BY <1>2, <1>3, <1>5, <1>6, <1>7, SMT DEF RefDecompose
<1>9. KernUseHint(h, r) =
        ((IF n + c = 44 THEN 0 ELSE n + c) + h * (1 + 42 * (IF m = 0 \/ c = 1 THEN 1 ELSE 0))) % 44
  BY <1>2, SMT DEF KernUseHint, Gamma2, n, m, c
<1>10. RefDecompose(r)[1] = (IF n + c = 44 THEN 0 ELSE n + c)
       /\ (RefDecompose(r)[2] > 0 <=> ~ (m = 0 \/ c = 1))
  BY <1>1, <1>4, <1>8, SMT DEF c
<1>11. c \in {0, 1}
  BY DEF c
<1> QED
  BY <1>4, <1>9, <1>10, <1>11, SMT DEF RefUseHint

(* C17: the multiplication by 94 and the shift by 12 divide by 44 on every *)
(* value the kernel reaches, one subtraction is enough, the lane's product *)
(* stays in its lane, and reducing the sum before the hint changes nothing.*)
THEOREM Mod44IsExact ==
  /\ \A t \in 0 .. TMax : Mod44(t) = t % 44 /\ (t * 94) \div 4096 \in {0, 1}
  /\ \A s \in 0 .. 44, adj \in {0, 1, 43} : ((s % 44) + adj) % 44 = Mod44(s + adj)
<1>1. \A t \in 0 .. 87 : Mod44(t) = t % 44 /\ (t * 94) \div 4096 \in {0, 1}
  BY SMT DEF Mod44
<1>2. \A s \in 0 .. 44, adj \in {0, 1, 43} : ((s % 44) + adj) % 44 = (s + adj) % 44 /\ s + adj \in 0 .. 87
  BY SMT
<1> QED
  BY <1>1, <1>2 DEF TMax

-----------------------------------------------------------------------------
(* A 256-bit word of four 64-bit lanes; an and with a mask that keeps the  *)
(* low bits, m values of them, of every lane.                              *)
Base(k) == IF k = 0 THEN 1 ELSE IF k = 1 THEN Two64 ELSE IF k = 2 THEN Two128 ELSE Two192
Word(a) == a[0] + a[1] * Two64 + a[2] * Two128 + a[3] * Two192
Fields(y, m) == [k \in 0 .. 3 |-> (y \div Base(k)) % m]
Rep(n) == [k \in 0 .. 3 |-> n]

(* S7: the two steps as the transforms write them, on the whole word.      *)
PackedStep1(w) == w - Word(Fields((w * MU33) \div 8589934592, 2147483648)) * Q
PackedStep2(w) == w - Word(Fields(w \div 8388608, 2147483648)) * Q
PackedBarrett(w) == PackedStep2(PackedStep1(w))

(* Quotient and remainder of a shift by 33 add up to the number.           *)
LEMMA DivRem33 ==
  ASSUME NEW n \in Nat
  PROVE  /\ n \div 8589934592 \in Nat /\ n % 8589934592 \in Nat /\ n % 8589934592 < 8589934592
         /\ n = (n \div 8589934592) * 8589934592 + (n % 8589934592)
  BY SMT

(* A shift of a word by 33 and a mask: the lanes' own quotients, because   *)
(* what comes down from the next lane lands above the mask.                *)
LEMMA Fields33 ==
  ASSUME NEW a \in [0 .. 3 -> Nat], \A k \in 0 .. 3 : a[k] < Two64
  PROVE  Fields(Word(a) \div 8589934592, 2147483648) = [k \in 0 .. 3 |-> (a[k] \div 8589934592) % 2147483648]
<1> DEFINE q0 == a[0] \div 8589934592
           q1 == a[1] \div 8589934592
           q2 == a[2] \div 8589934592
           q3 == a[3] \div 8589934592
           s0 == a[0] % 8589934592
           s1 == a[1] % 8589934592
           s2 == a[2] % 8589934592
           s3 == a[3] % 8589934592
           y  == Word(a) \div 8589934592
<1>1. /\ a[0] \in Nat /\ a[1] \in Nat /\ a[2] \in Nat /\ a[3] \in Nat
      /\ a[0] < 18446744073709551616 /\ a[1] < 18446744073709551616 /\ a[2] < 18446744073709551616 /\ a[3] < 18446744073709551616
  BY SMT DEF Two64
<1>2. /\ q0 \in Nat /\ s0 \in Nat /\ s0 < 8589934592 /\ a[0] = q0 * 8589934592 + s0
      /\ q1 \in Nat /\ s1 \in Nat /\ s1 < 8589934592 /\ a[1] = q1 * 8589934592 + s1
      /\ q2 \in Nat /\ s2 \in Nat /\ s2 < 8589934592 /\ a[2] = q2 * 8589934592 + s2
      /\ q3 \in Nat /\ s3 \in Nat /\ s3 < 8589934592 /\ a[3] = q3 * 8589934592 + s3
  <2>1. q0 \in Nat /\ s0 \in Nat /\ s0 < 8589934592 /\ a[0] = q0 * 8589934592 + s0
    BY <1>1, DivRem33
  <2>2. q1 \in Nat /\ s1 \in Nat /\ s1 < 8589934592 /\ a[1] = q1 * 8589934592 + s1
    BY <1>1, DivRem33
  <2>3. q2 \in Nat /\ s2 \in Nat /\ s2 < 8589934592 /\ a[2] = q2 * 8589934592 + s2
    BY <1>1, DivRem33
  <2>4. q3 \in Nat /\ s3 \in Nat /\ s3 < 8589934592 /\ a[3] = q3 * 8589934592 + s3
    BY <1>1, DivRem33
  <2> QED
    BY <2>1, <2>2, <2>3, <2>4
<1> HIDE DEF q0, q1, q2, q3, s0, s1, s2, s3
<1>3. q0 < 2147483648 /\ q1 < 2147483648 /\ q2 < 2147483648 /\ q3 < 2147483648
  BY <1>1, <1>2, SMT
<1>4. y = q0 + s1 * 2147483648 + q1 * 18446744073709551616 + s2 * 39614081257132168796771975168
            + q2 * 340282366920938463463374607431768211456 + s3 * 730750818665451459101842416358141509827966271488 + q3 * 6277101735386680763835789423207666416102355444464034512896
  BY <1>2, <1>3, SMT DEF Word, Two64, Two128, Two192
<1> HIDE DEF y
<1>5. /\ y \div 18446744073709551616 = q1 + s2 * 2147483648 + q2 * 18446744073709551616 + s3 * 39614081257132168796771975168 + q3 * 340282366920938463463374607431768211456
      /\ y \div 340282366920938463463374607431768211456 = q2 + s3 * 2147483648 + q3 * 18446744073709551616
      /\ y \div 6277101735386680763835789423207666416102355444464034512896 = q3
  BY <1>2, <1>3, <1>4, SMT
<1>6. /\ y % 2147483648 = q0 % 2147483648
      /\ (q1 + s2 * 2147483648 + q2 * 18446744073709551616 + s3 * 39614081257132168796771975168 + q3 * 340282366920938463463374607431768211456) % 2147483648 = q1 % 2147483648
      /\ (q2 + s3 * 2147483648 + q3 * 18446744073709551616) % 2147483648 = q2 % 2147483648
  BY <1>2, <1>4, SMT
<1>7. /\ Fields(y, 2147483648)[0] = q0 % 2147483648 /\ Fields(y, 2147483648)[1] = q1 % 2147483648
      /\ Fields(y, 2147483648)[2] = q2 % 2147483648 /\ Fields(y, 2147483648)[3] = q3 % 2147483648
  BY <1>2, <1>4, <1>5, <1>6, SMT DEF Fields, Base, Two64, Two128, Two192
<1>8. Fields(y, 2147483648) = [k \in 0 .. 3 |-> Fields(y, 2147483648)[k]]
  BY DEF Fields
<1>9. \A k \in 0 .. 3 : Fields(y, 2147483648)[k] = (a[k] \div 8589934592) % 2147483648
  BY <1>7, SMT DEF q0, q1, q2, q3
<1> HIDE DEF y
<1>10. Fields(y, 2147483648) = [k \in 0 .. 3 |-> (a[k] \div 8589934592) % 2147483648]
  BY <1>8, <1>9
<1> QED
  BY <1>10 DEF y

(* Quotient and remainder of a shift by 23 add up to the number.           *)
LEMMA DivRem23 ==
  ASSUME NEW n \in Nat
  PROVE  /\ n \div 8388608 \in Nat /\ n % 8388608 \in Nat /\ n % 8388608 < 8388608
         /\ n = (n \div 8388608) * 8388608 + (n % 8388608)
  BY SMT

(* A shift of a word by 23 and a mask: the lanes' own quotients, because   *)
(* what comes down from the next lane lands above the mask.                *)
LEMMA Fields23 ==
  ASSUME NEW a \in [0 .. 3 -> Nat], \A k \in 0 .. 3 : a[k] < Two64
  PROVE  Fields(Word(a) \div 8388608, 2147483648) = [k \in 0 .. 3 |-> (a[k] \div 8388608) % 2147483648]
<1> DEFINE q0 == a[0] \div 8388608
           q1 == a[1] \div 8388608
           q2 == a[2] \div 8388608
           q3 == a[3] \div 8388608
           s0 == a[0] % 8388608
           s1 == a[1] % 8388608
           s2 == a[2] % 8388608
           s3 == a[3] % 8388608
           y  == Word(a) \div 8388608
<1>1. /\ a[0] \in Nat /\ a[1] \in Nat /\ a[2] \in Nat /\ a[3] \in Nat
      /\ a[0] < 18446744073709551616 /\ a[1] < 18446744073709551616 /\ a[2] < 18446744073709551616 /\ a[3] < 18446744073709551616
  BY SMT DEF Two64
<1>2. /\ q0 \in Nat /\ s0 \in Nat /\ s0 < 8388608 /\ a[0] = q0 * 8388608 + s0
      /\ q1 \in Nat /\ s1 \in Nat /\ s1 < 8388608 /\ a[1] = q1 * 8388608 + s1
      /\ q2 \in Nat /\ s2 \in Nat /\ s2 < 8388608 /\ a[2] = q2 * 8388608 + s2
      /\ q3 \in Nat /\ s3 \in Nat /\ s3 < 8388608 /\ a[3] = q3 * 8388608 + s3
  <2>1. q0 \in Nat /\ s0 \in Nat /\ s0 < 8388608 /\ a[0] = q0 * 8388608 + s0
    BY <1>1, DivRem23
  <2>2. q1 \in Nat /\ s1 \in Nat /\ s1 < 8388608 /\ a[1] = q1 * 8388608 + s1
    BY <1>1, DivRem23
  <2>3. q2 \in Nat /\ s2 \in Nat /\ s2 < 8388608 /\ a[2] = q2 * 8388608 + s2
    BY <1>1, DivRem23
  <2>4. q3 \in Nat /\ s3 \in Nat /\ s3 < 8388608 /\ a[3] = q3 * 8388608 + s3
    BY <1>1, DivRem23
  <2> QED
    BY <2>1, <2>2, <2>3, <2>4
<1> HIDE DEF q0, q1, q2, q3, s0, s1, s2, s3
<1>3. q0 < 2199023255552 /\ q1 < 2199023255552 /\ q2 < 2199023255552 /\ q3 < 2199023255552
  BY <1>1, <1>2, SMT
<1>4. y = q0 + s1 * 2199023255552 + q1 * 18446744073709551616 + s2 * 40564819207303340847894502572032
            + q2 * 340282366920938463463374607431768211456 + s3 * 748288838313422294120286634350736906063837462003712 + q3 * 6277101735386680763835789423207666416102355444464034512896
  BY <1>2, <1>3, SMT DEF Word, Two64, Two128, Two192
<1> HIDE DEF y
<1>5. /\ y \div 18446744073709551616 = q1 + s2 * 2199023255552 + q2 * 18446744073709551616 + s3 * 40564819207303340847894502572032 + q3 * 340282366920938463463374607431768211456
      /\ y \div 340282366920938463463374607431768211456 = q2 + s3 * 2199023255552 + q3 * 18446744073709551616
      /\ y \div 6277101735386680763835789423207666416102355444464034512896 = q3
  BY <1>2, <1>3, <1>4, SMT
<1>6. /\ y % 2147483648 = q0 % 2147483648
      /\ (q1 + s2 * 2199023255552 + q2 * 18446744073709551616 + s3 * 40564819207303340847894502572032 + q3 * 340282366920938463463374607431768211456) % 2147483648 = q1 % 2147483648
      /\ (q2 + s3 * 2199023255552 + q3 * 18446744073709551616) % 2147483648 = q2 % 2147483648
  BY <1>2, <1>4, SMT
<1>7. /\ Fields(y, 2147483648)[0] = q0 % 2147483648 /\ Fields(y, 2147483648)[1] = q1 % 2147483648
      /\ Fields(y, 2147483648)[2] = q2 % 2147483648 /\ Fields(y, 2147483648)[3] = q3 % 2147483648
  BY <1>2, <1>4, <1>5, <1>6, SMT DEF Fields, Base, Two64, Two128, Two192
<1>8. Fields(y, 2147483648) = [k \in 0 .. 3 |-> Fields(y, 2147483648)[k]]
  BY DEF Fields
<1>9. \A k \in 0 .. 3 : Fields(y, 2147483648)[k] = (a[k] \div 8388608) % 2147483648
  BY <1>7, SMT DEF q0, q1, q2, q3
<1> HIDE DEF y
<1>10. Fields(y, 2147483648) = [k \in 0 .. 3 |-> (a[k] \div 8388608) % 2147483648]
  BY <1>8, <1>9
<1> QED
  BY <1>10 DEF y

(* S7: nothing separates the lanes but the arithmetic, and it is enough:   *)
(* the word reduces as four scalar reductions, and its product with MU33   *)
(* stays within 256 bits.                                                  *)
THEOREM PackedBarrettIsLaneLocal ==
  ASSUME NEW l \in [0 .. 3 -> Nat], \A k \in 0 .. 3 : l[k] <= LargestProduct
  PROVE  /\ PackedBarrett(Word(l)) = Word([k \in 0 .. 3 |-> LazyBarrett(l[k])])
         /\ Word(l) * MU33 < Two64 * Two192
<1> DEFINE m == [k \in 0 .. 3 |-> l[k] * MU33]
           x == [k \in 0 .. 3 |-> FirstStep(l[k])]
           q == [k \in 0 .. 3 |-> m[k] \div 8589934592]
           c == [k \in 0 .. 3 |-> x[k] \div 8388608]
<1>1. \A k \in 0 .. 3 : /\ l[k] * MU33 \in Nat /\ l[k] * MU33 < Two64
                        /\ (l[k] * MU33) \div 8589934592 < 2147483648
                        /\ FirstStep(l[k]) \div 8388608 < 2147483648
                        /\ FirstStep(l[k]) \in Nat /\ FirstStep(l[k]) < 7600000000
  <2> TAKE k \in 0 .. 3
  <2>1. l[k] \in Nat /\ l[k] <= LargestProduct
    OBVIOUS
  <2>2. l[k] * MU33 \in Nat
    BY <2>1, SMT DEF MU33
  <2> QED
    BY <2>1, <2>2, ReductionIsLaneLocal, FirstStepSmall DEF Two64
<1>2. m \in [0 .. 3 -> Nat] /\ \A k \in 0 .. 3 : m[k] < Two64
  BY <1>1
<1>3. x \in [0 .. 3 -> Nat] /\ \A k \in 0 .. 3 : x[k] < Two64
  BY <1>1, SMT DEF Two64
<1>4. Word(l) * MU33 = Word(m)
  BY SMT DEF Word, MU33, Two64, Two128, Two192
<1>5. Fields(Word(m) \div 8589934592, 2147483648) = q
  <2>1. \A k \in 0 .. 3 : (m[k] \div 8589934592) % 2147483648 = m[k] \div 8589934592
    <3> TAKE k \in 0 .. 3
    <3> DEFINE n == m[k] \div 8589934592
    <3>1. n \in Nat /\ n < 2147483648
      BY <1>1, <1>2, DivRem33
    <3> HIDE DEF n
    <3>2. n % 2147483648 = n
      BY <3>1, SMT
    <3> QED BY <3>2 DEF n
  <2>2. Fields(Word(m) \div 8589934592, 2147483648)
          = [k \in 0 .. 3 |-> (m[k] \div 8589934592) % 2147483648]
    <3> HIDE DEF m
    <3> QED BY <1>2, Fields33
  <2> QED BY <2>1, <2>2
<1>6. Fields(Word(x) \div 8388608, 2147483648) = c
  <2>1. \A k \in 0 .. 3 : (x[k] \div 8388608) % 2147483648 = x[k] \div 8388608
    <3> TAKE k \in 0 .. 3
    <3> DEFINE n == x[k] \div 8388608
    <3>1. n \in Nat /\ n < 2147483648
      BY <1>1, <1>3, DivRem23
    <3> HIDE DEF n
    <3>2. n % 2147483648 = n
      BY <3>1, SMT
    <3> QED BY <3>2 DEF n
  <2>2. Fields(Word(x) \div 8388608, 2147483648)
          = [k \in 0 .. 3 |-> (x[k] \div 8388608) % 2147483648]
    <3> HIDE DEF x
    <3> QED BY <1>3, Fields23
  <2> QED BY <2>1, <2>2
<1>7. q \in [0 .. 3 -> Nat] /\ c \in [0 .. 3 -> Nat]
  BY <1>2, <1>3, DivRem33, DivRem23
<1>8. PackedStep1(Word(l)) = Word(x)
  <2>1. \A k \in 0 .. 3 : x[k] = l[k] - q[k] * 8380417
    BY DEF FirstStep, Q
  <2>2. Word(l) - Word(q) * Q = Word(x)
    <3> HIDE DEF q, x
    <3> QED BY <1>3, <1>7, <2>1, SMT DEF Word, Q, Two64, Two128, Two192
  <2> QED BY <1>4, <1>5, <2>2 DEF PackedStep1
<1>9. PackedStep2(Word(x)) = Word([k \in 0 .. 3 |-> LazyBarrett(l[k])])
  <2> DEFINE r == [k \in 0 .. 3 |-> LazyBarrett(l[k])]
  <2>1. \A k \in 0 .. 3 : r[k] = x[k] - c[k] * 8380417
    BY DEF LazyBarrett, Q
  <2>2. Word(x) - Word(c) * Q = Word(r)
    <3> HIDE DEF c, x, r
    <3> QED BY <1>3, <1>7, <2>1, SMT DEF Word, Q, Two64, Two128, Two192
  <2> QED BY <1>6, <2>2 DEF PackedStep2
<1>10. Word(m) < Two64 * Two192
  <2> HIDE DEF m
  <2> QED BY <1>2, SMT DEF Word, Two64, Two128, Two192
<1> QED
  BY <1>4, <1>8, <1>9, <1>10 DEF PackedBarrett

-----------------------------------------------------------------------------
(* A product of two bounded factors is at most the product of their        *)
(* bounds.                                                                 *)
LEMMA ProductBound ==
  ASSUME NEW x \in Nat, NEW s \in Nat, NEW a \in Nat, NEW b \in Nat, x <= a, s <= b
  PROVE  x * s \in Nat /\ x * s <= a * b
<1>1. x * s <= a * s
  BY SMT
<1>2. a * s <= a * b
  BY SMT
<1> QED
  BY <1>1, <1>2, SMT

(* Products the transforms form are reduced below 2q: BarrettCliff, in the *)
(* form the layers use.                                                    *)
LEMMA LazyBarrettSmall ==
  ASSUME NEW x \in Nat, x <= LargestProduct
  PROVE  /\ LazyBarrett(x) \in Nat /\ LazyBarrett(x) < 2 * Q
         /\ LazyBarrett(x) \in 0 .. 2 * Q - 1
<1>1. x < BARRETT_FIRST_FAIL
  BY SMT DEF LargestProduct, Q, BARRETT_FIRST_FAIL
<1>2. LazyBarrett(x) \in Nat /\ LazyBarrett(x) < 2 * Q
  BY <1>1, BarrettCliff
<1>3. \A r \in Nat : r < 2 * Q => r \in 0 .. 2 * Q - 1
  <2>1. 2 * Q \in Nat
    BY SMT DEF Q
  <2> QED BY <2>1, SMT
<1> QED
  BY <1>2, <1>3

(* The new lanes of a butterfly of the forward transform, and of one of    *)
(* the inverse transform at bound K * q.                                   *)
FwdSum(u, v)  == u + v
FwdDiff(u, v) == u + 2 * Q - v
InvDiff(u, v, K) == u + K * Q - v

(* A multiple of q more or less is the same residue.                       *)
LEMMA MultipleKeepsResidue ==
  ASSUME NEW n \in Int, NEW k \in Int
  PROVE  (n + k * 8380417) % 8380417 = n % 8380417
  BY SMT

(* The residue LazyBarrettLeaves finds is the residue of what it reduces.  *)
LEMMA LazyBarrettKeepsResidue ==
  ASSUME NEW x \in Nat, x <= LargestProduct
  PROVE  \E k \in Int : LazyBarrett(x) = x + k * 8380417
<1> DEFINE n == x \div 8380417
<1>1. n \in Nat /\ x % Q = x - n * 8380417
  BY DivMod, SMT DEF Q
<1>2. LazyBarrett(x) = x % Q \/ LazyBarrett(x) = (x % Q) + 8380417
  BY LazyBarrettLeaves DEF Q
<1> HIDE DEF n
<1>3. 0 - n \in Int /\ 1 - n \in Int
  BY <1>1, SMT
<1>4. LazyBarrett(x) = x + (0 - n) * 8380417 \/ LazyBarrett(x) = x + (1 - n) * 8380417
  BY <1>1, <1>2, SMT
<1> QED
  BY <1>3, <1>4

(* S5 and C9f: a layer keeps the residues of the butterfly it computes and *)
(* adds 2q to the bound on its lanes, whatever the twiddle, and the        *)
(* product it reduces is in the domain of the reduction.                   *)
THEOREM ForwardLayerAddsTwoQ ==
  ASSUME NEW L \in 0 .. 7, NEW u \in Nat, NEW x \in Nat, NEW s \in Nat, s < Q,
         u < FwdLane(Q, 2 * Q, L), x < FwdLane(Q, 2 * Q, L)
  PROVE  /\ x * s <= 15 * Q * (Q - 1)
         /\ FwdSum(u, LazyBarrett(x * s)) < FwdLane(Q, 2 * Q, L + 1)
         /\ FwdDiff(u, LazyBarrett(x * s)) \in Nat
         /\ FwdDiff(u, LazyBarrett(x * s)) < FwdLane(Q, 2 * Q, L + 1)
         /\ FwdSum(u, LazyBarrett(x * s)) % Q = (u + (x * s)) % Q
         /\ FwdDiff(u, LazyBarrett(x * s)) % Q = (u - (x * s)) % Q
<1>1. x <= 125706254 /\ s <= 8380416
  BY SMT DEF FwdLane, Q
<1>2. x * s \in Nat /\ x * s <= 125706254 * 8380416
  BY <1>1, ProductBound, SMT
<1>3. x * s <= LargestProduct /\ x * s <= 15 * Q * (Q - 1)
  BY <1>2, SMT DEF LargestProduct, Q
<1>4. LazyBarrett(x * s) \in Nat /\ LazyBarrett(x * s) < 2 * Q
  BY <1>2, <1>3, LazyBarrettSmall
<1> DEFINE v == LazyBarrett(x * s)
<1> HIDE DEF v
<1>5. v \in Nat /\ v < 2 * Q
  BY <1>4 DEF v
<1>6. /\ FwdSum(u, v) < FwdLane(Q, 2 * Q, L + 1)
      /\ FwdDiff(u, v) \in Nat /\ FwdDiff(u, v) < FwdLane(Q, 2 * Q, L + 1)
  BY <1>5, SMT DEF FwdSum, FwdDiff, FwdLane, Q
<1> DEFINE t == x * s
<1>7. PICK k \in Int : v = t + k * 8380417
  BY <1>2, <1>3, LazyBarrettKeepsResidue DEF v
<1>8. t \in Nat
  BY <1>2
<1> HIDE DEF t
<1>9. FwdSum(u, v) % Q = (u + t) % Q
  <2>1. u + t \in Int /\ FwdSum(u, v) = (u + t) + k * 8380417
    BY <1>7, <1>8, SMT DEF FwdSum
  <2> QED BY <2>1, MultipleKeepsResidue DEF Q
<1>10. FwdDiff(u, v) % Q = (u - t) % Q
  <2>1. u - t \in Int /\ 2 - k \in Int /\ FwdDiff(u, v) = (u - t) + (2 - k) * 8380417
    BY <1>5, <1>7, <1>8, SMT DEF FwdDiff, Q
  <2> QED BY <2>1, MultipleKeepsResidue DEF Q
<1> QED
  BY <1>3, <1>6, <1>9, <1>10 DEF v, t

(* S6: layers 3 to 7 of the inverse transform, proved from K = 1 to 64: no *)
(* borrow, the product in the verified domain, the sums double, and the    *)
(* new lanes have the residues of the sum and of the twiddled difference.  *)
THEOREM InverseLayerDoubles ==
  ASSUME NEW K \in 1 .. 64, NEW u \in Nat, NEW v \in Nat, NEW s \in Nat, s < Q,
         u < K * Q, v < K * Q
  PROVE  /\ InvDiff(u, v, K) \in Nat \ {0} /\ InvDiff(u, v, K) < 2 * K * Q
         /\ InvDiff(u, v, K) * s <= LargestProduct
         /\ LazyBarrett(InvDiff(u, v, K) * s) \in 0 .. 2 * Q - 1
         /\ u + v < 2 * K * Q
         /\ LazyBarrett(InvDiff(u, v, K) * s) % Q = ((u - v) * s) % Q
<1> DEFINE d == InvDiff(u, v, K)
<1>1. d \in Nat /\ d > 0 /\ d < 2 * K * Q /\ u + v < 2 * K * Q
  BY SMT DEF InvDiff, Q
<1>2. d <= 1072693375 /\ s <= 8380416
  BY <1>1, SMT DEF Q
<1> HIDE DEF d
<1>3. d * s \in Nat /\ d * s <= 1072693375 * 8380416
  BY <1>1, <1>2, ProductBound, SMT
<1>4. d * s <= LargestProduct
  BY <1>3, SMT DEF LargestProduct, Q
<1>5. LazyBarrett(d * s) \in 0 .. 2 * Q - 1
  BY <1>3, <1>4, LazyBarrettSmall
<1>6. LazyBarrett(d * s) % Q = ((u - v) * s) % Q
  <2>1. PICK k \in Int : LazyBarrett(d * s) = d * s + k * 8380417
    BY <1>3, <1>4, LazyBarrettKeepsResidue
  <2> DEFINE e == (u - v) * s
             h == K * s
  <2>2. d * s = e + h * 8380417
    BY SMT DEF d, InvDiff, Q
  <2>3. e \in Int /\ h \in Int
    BY SMT
  <2> HIDE DEF e, h
  <2>4. h + k \in Int /\ LazyBarrett(d * s) = e + (h + k) * 8380417
    BY <2>1, <2>2, <2>3, SMT
  <2>5. LazyBarrett(d * s) % 8380417 = e % 8380417
    BY <2>3, <2>4, MultipleKeepsResidue
  <2> QED BY <2>5 DEF Q, e
<1> QED
  BY <1>1, <1>4, <1>5, <1>6 DEF d

(* S6b: layer 8 reduces by division, so its products need only fit a lane. *)
THEOREM LastLayerFitsItsLane ==
  ASSUME NEW a \in Nat, NEW b \in Nat, NEW s \in Nat, s < Q, a < 128 * Q, b < 128 * Q
  PROVE  /\ a + 128 * Q - b > 0
         /\ (a + b) * s < Two64 /\ (a + 128 * Q - b) * s < Two64
<1>1. /\ a + b \in Nat /\ a + b <= 2145386752
      /\ a + 128 * Q - b \in Nat /\ a + 128 * Q - b <= 2145386752 /\ a + 128 * Q - b > 0
      /\ s <= 8380416
  BY SMT DEF Q
<1>2. (a + b) * s <= 2145386752 * 8380416
  BY <1>1, ProductBound, SMT
<1>3. (a + 128 * Q - b) * s <= 2145386752 * 8380416
  BY <1>1, ProductBound, SMT
<1> QED
  BY <1>1, <1>2, <1>3, SMT DEF Two64, Q

(* S14: the entry fold.  On the raw accumulator of a canonical key neither *)
(* subtraction borrows, both keep the residue, and the exits are below 2q. *)
THEOREM EntryFoldIsExact ==
  ASSUME NEW u0 \in Nat, NEW u1 \in Nat, u0 <= AccEntry, u1 <= AccEntry,
         NEW s0 \in Nat, NEW s1 \in Nat, s0 <= 2 * AccEntry, s1 <= 2 * AccEntry,
         NEW d0 \in Nat, NEW d1 \in Nat, d0 < Q, d1 < Q
  PROVE  /\ u0 + ACCQ30 - u1 \in Nat /\ (u0 + ACCQ30 - u1) % Q = (u0 - u1) % Q
         /\ s0 + ACCQ31 - s1 \in Nat /\ (s0 + ACCQ31 - s1) % Q = (s0 - s1) % Q
         /\ u0 + u1 <= 2 * AccEntry
         /\ d0 + d1 < 2 * Q
<1>1. /\ AccEntry <= ACCQ30 /\ 2 * AccEntry <= ACCQ31 /\ AccEntry \in Nat
      /\ ACCQ30 = 1073741824 * 8380417 /\ ACCQ31 = 2147483648 * 8380417
  BY OffsetsDominate, SMT DEF AccEntry, ACCQ30, ACCQ31, Q, KQ28
<1>2. u0 + ACCQ30 - u1 \in Nat /\ s0 + ACCQ31 - s1 \in Nat /\ u0 + u1 <= 2 * AccEntry
  BY <1>1, SMT
<1>3. (u0 + ACCQ30 - u1) % Q = (u0 - u1) % Q
  BY <1>1, SMT DEF Q
<1>4. (s0 + ACCQ31 - s1) % Q = (s0 - s1) % Q
  BY <1>1, SMT DEF Q
<1> QED
  BY <1>2, <1>3, <1>4, SMT DEF Q

-----------------------------------------------------------------------------
(* Quotient and remainder of a shift by 39 (useHintSwar quotient) add up.  *)
LEMMA DivRem39 ==
  ASSUME NEW n \in Nat
  PROVE  /\ n \div 549755813888 \in Nat /\ n % 549755813888 \in Nat /\ n % 549755813888 < 549755813888
         /\ n = (n \div 549755813888) * 549755813888 + (n % 549755813888)
  BY SMT

(* A word shifted by 39 and masked to six bits holds the lanes' quotients. *)
LEMMA Fields39 ==
  ASSUME NEW a \in [0 .. 3 -> Nat], \A k \in 0 .. 3 : a[k] < Two64
  PROVE  Fields(Word(a) \div 549755813888, 64) = [k \in 0 .. 3 |-> (a[k] \div 549755813888) % 64]
<1> DEFINE q0 == a[0] \div 549755813888
           q1 == a[1] \div 549755813888
           q2 == a[2] \div 549755813888
           q3 == a[3] \div 549755813888
           s0 == a[0] % 549755813888
           s1 == a[1] % 549755813888
           s2 == a[2] % 549755813888
           s3 == a[3] % 549755813888
           y  == Word(a) \div 549755813888
<1>1. /\ a[0] \in Nat /\ a[1] \in Nat /\ a[2] \in Nat /\ a[3] \in Nat
      /\ a[0] < 18446744073709551616 /\ a[1] < 18446744073709551616 /\ a[2] < 18446744073709551616 /\ a[3] < 18446744073709551616
  BY SMT DEF Two64
<1>2. /\ q0 \in Nat /\ s0 \in Nat /\ s0 < 549755813888 /\ a[0] = q0 * 549755813888 + s0
      /\ q1 \in Nat /\ s1 \in Nat /\ s1 < 549755813888 /\ a[1] = q1 * 549755813888 + s1
      /\ q2 \in Nat /\ s2 \in Nat /\ s2 < 549755813888 /\ a[2] = q2 * 549755813888 + s2
      /\ q3 \in Nat /\ s3 \in Nat /\ s3 < 549755813888 /\ a[3] = q3 * 549755813888 + s3
  <2>1. q0 \in Nat /\ s0 \in Nat /\ s0 < 549755813888 /\ a[0] = q0 * 549755813888 + s0
    BY <1>1, DivRem39
  <2>2. q1 \in Nat /\ s1 \in Nat /\ s1 < 549755813888 /\ a[1] = q1 * 549755813888 + s1
    BY <1>1, DivRem39
  <2>3. q2 \in Nat /\ s2 \in Nat /\ s2 < 549755813888 /\ a[2] = q2 * 549755813888 + s2
    BY <1>1, DivRem39
  <2>4. q3 \in Nat /\ s3 \in Nat /\ s3 < 549755813888 /\ a[3] = q3 * 549755813888 + s3
    BY <1>1, DivRem39
  <2> QED
    BY <2>1, <2>2, <2>3, <2>4
<1> HIDE DEF q0, q1, q2, q3, s0, s1, s2, s3
<1>3. q0 < 33554432 /\ q1 < 33554432 /\ q2 < 33554432 /\ q3 < 33554432
  BY <1>1, <1>2, SMT
<1>4. y = q0 + s1 * 33554432 + q1 * 18446744073709551616 + s2 * 618970019642690137449562112
            + q2 * 340282366920938463463374607431768211456 + s3 * 11417981541647679048466287755595961091061972992 + q3 * 6277101735386680763835789423207666416102355444464034512896
  BY <1>2, <1>3, SMT DEF Word, Two64, Two128, Two192
<1> HIDE DEF y
<1>5. /\ y \div 18446744073709551616 = q1 + s2 * 33554432 + q2 * 18446744073709551616 + s3 * 618970019642690137449562112 + q3 * 340282366920938463463374607431768211456
      /\ y \div 340282366920938463463374607431768211456 = q2 + s3 * 33554432 + q3 * 18446744073709551616
      /\ y \div 6277101735386680763835789423207666416102355444464034512896 = q3
  BY <1>2, <1>3, <1>4, SMT
<1>6. /\ y % 64 = q0 % 64
      /\ (q1 + s2 * 33554432 + q2 * 18446744073709551616 + s3 * 618970019642690137449562112 + q3 * 340282366920938463463374607431768211456) % 64 = q1 % 64
      /\ (q2 + s3 * 33554432 + q3 * 18446744073709551616) % 64 = q2 % 64
  BY <1>2, <1>4, SMT
<1>7. /\ Fields(y, 64)[0] = q0 % 64 /\ Fields(y, 64)[1] = q1 % 64
      /\ Fields(y, 64)[2] = q2 % 64 /\ Fields(y, 64)[3] = q3 % 64
  BY <1>2, <1>4, <1>5, <1>6, SMT DEF Fields, Base, Two64, Two128, Two192
<1>8. Fields(y, 64) = [k \in 0 .. 3 |-> Fields(y, 64)[k]]
  BY DEF Fields
<1>9. \A k \in 0 .. 3 : Fields(y, 64)[k] = (a[k] \div 549755813888) % 64
  BY <1>7, SMT DEF q0, q1, q2, q3
<1> HIDE DEF y
<1>10. Fields(y, 64) = [k \in 0 .. 3 |-> (a[k] \div 549755813888) % 64]
  BY <1>8, <1>9
<1> QED
  BY <1>10 DEF y

(* Quotient and remainder of a shift by 32 (the sign tests) add up.        *)
LEMMA DivRem32 ==
  ASSUME NEW n \in Nat
  PROVE  /\ n \div 4294967296 \in Nat /\ n % 4294967296 \in Nat /\ n % 4294967296 < 4294967296
         /\ n = (n \div 4294967296) * 4294967296 + (n % 4294967296)
  BY SMT

(* A word shifted by 32 and masked to one bit holds the lanes' sign tests. *)
LEMMA Fields32 ==
  ASSUME NEW a \in [0 .. 3 -> Nat], \A k \in 0 .. 3 : a[k] < Two64
  PROVE  Fields(Word(a) \div 4294967296, 2) = [k \in 0 .. 3 |-> (a[k] \div 4294967296) % 2]
<1> DEFINE q0 == a[0] \div 4294967296
           q1 == a[1] \div 4294967296
           q2 == a[2] \div 4294967296
           q3 == a[3] \div 4294967296
           s0 == a[0] % 4294967296
           s1 == a[1] % 4294967296
           s2 == a[2] % 4294967296
           s3 == a[3] % 4294967296
           y  == Word(a) \div 4294967296
<1>1. /\ a[0] \in Nat /\ a[1] \in Nat /\ a[2] \in Nat /\ a[3] \in Nat
      /\ a[0] < 18446744073709551616 /\ a[1] < 18446744073709551616 /\ a[2] < 18446744073709551616 /\ a[3] < 18446744073709551616
  BY SMT DEF Two64
<1>2. /\ q0 \in Nat /\ s0 \in Nat /\ s0 < 4294967296 /\ a[0] = q0 * 4294967296 + s0
      /\ q1 \in Nat /\ s1 \in Nat /\ s1 < 4294967296 /\ a[1] = q1 * 4294967296 + s1
      /\ q2 \in Nat /\ s2 \in Nat /\ s2 < 4294967296 /\ a[2] = q2 * 4294967296 + s2
      /\ q3 \in Nat /\ s3 \in Nat /\ s3 < 4294967296 /\ a[3] = q3 * 4294967296 + s3
  <2>1. q0 \in Nat /\ s0 \in Nat /\ s0 < 4294967296 /\ a[0] = q0 * 4294967296 + s0
    BY <1>1, DivRem32
  <2>2. q1 \in Nat /\ s1 \in Nat /\ s1 < 4294967296 /\ a[1] = q1 * 4294967296 + s1
    BY <1>1, DivRem32
  <2>3. q2 \in Nat /\ s2 \in Nat /\ s2 < 4294967296 /\ a[2] = q2 * 4294967296 + s2
    BY <1>1, DivRem32
  <2>4. q3 \in Nat /\ s3 \in Nat /\ s3 < 4294967296 /\ a[3] = q3 * 4294967296 + s3
    BY <1>1, DivRem32
  <2> QED
    BY <2>1, <2>2, <2>3, <2>4
<1> HIDE DEF q0, q1, q2, q3, s0, s1, s2, s3
<1>3. q0 < 4294967296 /\ q1 < 4294967296 /\ q2 < 4294967296 /\ q3 < 4294967296
  BY <1>1, <1>2, SMT
<1>4. y = q0 + s1 * 4294967296 + q1 * 18446744073709551616 + s2 * 79228162514264337593543950336
            + q2 * 340282366920938463463374607431768211456 + s3 * 1461501637330902918203684832716283019655932542976 + q3 * 6277101735386680763835789423207666416102355444464034512896
  BY <1>2, <1>3, SMT DEF Word, Two64, Two128, Two192
<1> HIDE DEF y
<1>5. /\ y \div 18446744073709551616 = q1 + s2 * 4294967296 + q2 * 18446744073709551616 + s3 * 79228162514264337593543950336 + q3 * 340282366920938463463374607431768211456
      /\ y \div 340282366920938463463374607431768211456 = q2 + s3 * 4294967296 + q3 * 18446744073709551616
      /\ y \div 6277101735386680763835789423207666416102355444464034512896 = q3
  BY <1>2, <1>3, <1>4, SMT
<1>6. /\ y % 2 = q0 % 2
      /\ (q1 + s2 * 4294967296 + q2 * 18446744073709551616 + s3 * 79228162514264337593543950336 + q3 * 340282366920938463463374607431768211456) % 2 = q1 % 2
      /\ (q2 + s3 * 4294967296 + q3 * 18446744073709551616) % 2 = q2 % 2
  BY <1>2, <1>4, SMT
<1>7. /\ Fields(y, 2)[0] = q0 % 2 /\ Fields(y, 2)[1] = q1 % 2
      /\ Fields(y, 2)[2] = q2 % 2 /\ Fields(y, 2)[3] = q3 % 2
  BY <1>2, <1>4, <1>5, <1>6, SMT DEF Fields, Base, Two64, Two128, Two192
<1>8. Fields(y, 2) = [k \in 0 .. 3 |-> Fields(y, 2)[k]]
  BY DEF Fields
<1>9. \A k \in 0 .. 3 : Fields(y, 2)[k] = (a[k] \div 4294967296) % 2
  BY <1>7, SMT DEF q0, q1, q2, q3
<1> HIDE DEF y
<1>10. Fields(y, 2) = [k \in 0 .. 3 |-> (a[k] \div 4294967296) % 2]
  BY <1>8, <1>9
<1> QED
  BY <1>10 DEF y

(* Quotient and remainder of a shift by 12 (the reduction mod 44) add up.  *)
LEMMA DivRem12 ==
  ASSUME NEW n \in Nat
  PROVE  /\ n \div 4096 \in Nat /\ n % 4096 \in Nat /\ n % 4096 < 4096
         /\ n = (n \div 4096) * 4096 + (n % 4096)
  BY SMT

(* A word shifted by 12 and masked to one bit holds the lanes' carries     *)
(* past 44.                                                                *)
LEMMA Fields12 ==
  ASSUME NEW a \in [0 .. 3 -> Nat], \A k \in 0 .. 3 : a[k] < Two64
  PROVE  Fields(Word(a) \div 4096, 2) = [k \in 0 .. 3 |-> (a[k] \div 4096) % 2]
<1> DEFINE q0 == a[0] \div 4096
           q1 == a[1] \div 4096
           q2 == a[2] \div 4096
           q3 == a[3] \div 4096
           s0 == a[0] % 4096
           s1 == a[1] % 4096
           s2 == a[2] % 4096
           s3 == a[3] % 4096
           y  == Word(a) \div 4096
<1>1. /\ a[0] \in Nat /\ a[1] \in Nat /\ a[2] \in Nat /\ a[3] \in Nat
      /\ a[0] < 18446744073709551616 /\ a[1] < 18446744073709551616 /\ a[2] < 18446744073709551616 /\ a[3] < 18446744073709551616
  BY SMT DEF Two64
<1>2. /\ q0 \in Nat /\ s0 \in Nat /\ s0 < 4096 /\ a[0] = q0 * 4096 + s0
      /\ q1 \in Nat /\ s1 \in Nat /\ s1 < 4096 /\ a[1] = q1 * 4096 + s1
      /\ q2 \in Nat /\ s2 \in Nat /\ s2 < 4096 /\ a[2] = q2 * 4096 + s2
      /\ q3 \in Nat /\ s3 \in Nat /\ s3 < 4096 /\ a[3] = q3 * 4096 + s3
  <2>1. q0 \in Nat /\ s0 \in Nat /\ s0 < 4096 /\ a[0] = q0 * 4096 + s0
    BY <1>1, DivRem12
  <2>2. q1 \in Nat /\ s1 \in Nat /\ s1 < 4096 /\ a[1] = q1 * 4096 + s1
    BY <1>1, DivRem12
  <2>3. q2 \in Nat /\ s2 \in Nat /\ s2 < 4096 /\ a[2] = q2 * 4096 + s2
    BY <1>1, DivRem12
  <2>4. q3 \in Nat /\ s3 \in Nat /\ s3 < 4096 /\ a[3] = q3 * 4096 + s3
    BY <1>1, DivRem12
  <2> QED
    BY <2>1, <2>2, <2>3, <2>4
<1> HIDE DEF q0, q1, q2, q3, s0, s1, s2, s3
<1>3. q0 < 4503599627370496 /\ q1 < 4503599627370496 /\ q2 < 4503599627370496 /\ q3 < 4503599627370496
  BY <1>1, <1>2, SMT
<1>4. y = q0 + s1 * 4503599627370496 + q1 * 18446744073709551616 + s2 * 83076749736557242056487941267521536
            + q2 * 340282366920938463463374607431768211456 + s3 * 1532495540865888858358347027150309183618739122183602176 + q3 * 6277101735386680763835789423207666416102355444464034512896
  BY <1>2, <1>3, SMT DEF Word, Two64, Two128, Two192
<1> HIDE DEF y
<1>5. /\ y \div 18446744073709551616 = q1 + s2 * 4503599627370496 + q2 * 18446744073709551616 + s3 * 83076749736557242056487941267521536 + q3 * 340282366920938463463374607431768211456
      /\ y \div 340282366920938463463374607431768211456 = q2 + s3 * 4503599627370496 + q3 * 18446744073709551616
      /\ y \div 6277101735386680763835789423207666416102355444464034512896 = q3
  BY <1>2, <1>3, <1>4, SMT
<1>6. /\ y % 2 = q0 % 2
      /\ (q1 + s2 * 4503599627370496 + q2 * 18446744073709551616 + s3 * 83076749736557242056487941267521536 + q3 * 340282366920938463463374607431768211456) % 2 = q1 % 2
      /\ (q2 + s3 * 4503599627370496 + q3 * 18446744073709551616) % 2 = q2 % 2
  BY <1>2, <1>4, SMT
<1>7. /\ Fields(y, 2)[0] = q0 % 2 /\ Fields(y, 2)[1] = q1 % 2
      /\ Fields(y, 2)[2] = q2 % 2 /\ Fields(y, 2)[3] = q3 % 2
  BY <1>2, <1>4, <1>5, <1>6, SMT DEF Fields, Base, Two64, Two128, Two192
<1>8. Fields(y, 2) = [k \in 0 .. 3 |-> Fields(y, 2)[k]]
  BY DEF Fields
<1>9. \A k \in 0 .. 3 : Fields(y, 2)[k] = (a[k] \div 4096) % 2
  BY <1>7, SMT DEF q0, q1, q2, q3
<1> HIDE DEF y
<1>10. Fields(y, 2) = [k \in 0 .. 3 |-> (a[k] \div 4096) % 2]
  BY <1>8, <1>9
<1> QED
  BY <1>10 DEF y

-----------------------------------------------------------------------------
(* S8b: _unpackZPoly on a word of four 18-bit fields, and its norm check:  *)
(* some lane has bit 32 set in both words of the window.                   *)
PackedZ(w) ==
  LET u == Word(Rep(Z_UOFF)) - w
  IN u - Word(Fields((u + Word(Rep(Z_QB32))) \div 4294967296, 2)) * Q
PackedZBad(o) ==
  \E k \in 0 .. 3 : /\ Fields((o + Word(Rep(Z_NLO))) \div 4294967296, 2)[k] = 1
                    /\ Fields((Word(Rep(Z_NHI)) - o) \div 4294967296, 2)[k] = 1

(* O6: the body of useHintSwar on four lanes r with the hint bits h, up to *)
(* its sum T, its reduction and the gathering multiplication.              *)
SwarQ0(w) == Word(Fields((w * SW_MDIV) \div 549755813888, 64))
SwarR0(w) == w - SwarQ0(w) * D
SwarC(w)  == Fields((SwarR0(w) + Word(Rep(SW_K32G2))) \div 4294967296, 2)
SwarNeg(w) ==
  [k \in 0 .. 3 |->
     IF Fields((SwarR0(w) + Word(Rep(SW_K321))) \div 4294967296, 2)[k] = 0 \/ SwarC(w)[k] = 1
     THEN 1 ELSE 0]
SwarT(w, h) ==
  SwarQ0(w) + Word(SwarC(w)) + Word([k \in 0 .. 3 |-> IF h[k] = 1 THEN 1 + SwarNeg(w)[k] * 42 ELSE 0])
SwarOut(w, h) == SwarT(w, h) - Word(Fields((SwarT(w, h) * 94) \div 4096, 2)) * 44

(* O5: SW_GATHERK = 2^174 + 2^116 + 2^58 + 1, in words of 256 bits.        *)
Two174 == 23945242826029513411849172299223580994042798784118784
SW_GATHERK == 23945242826029513494925922035780823338761116203352065
Gather(w) == (((w * SW_GATHERK) % (Two64 * Two192)) \div Two174) % 16777216

(* Four values of six bits in the order w1Encode writes them.              *)
Pack6(a) == a[0] + 64 * a[1] + 4096 * a[2] + 262144 * a[3]

(* O9: four lanes below 2^64 come back out of the word.                    *)
THEOREM LanesRoundTrip ==
  ASSUME NEW a \in [0 .. 3 -> Nat], \A k \in 0 .. 3 : a[k] < Two64
  PROVE  \A k \in 0 .. 3 : (Word(a) \div Base(k)) % Two64 = a[k]
<1> DEFINE a0 == a[0]
           a1 == a[1]
           a2 == a[2]
           a3 == a[3]
           w  == Word(a)
<1>1. /\ a0 \in Nat /\ a1 \in Nat /\ a2 \in Nat /\ a3 \in Nat
      /\ a0 < 18446744073709551616 /\ a1 < 18446744073709551616 /\ a2 < 18446744073709551616 /\ a3 < 18446744073709551616
  BY SMT DEF Two64
<1>2. w = a0 + a1 * 18446744073709551616 + a2 * 340282366920938463463374607431768211456 + a3 * 6277101735386680763835789423207666416102355444464034512896
  BY DEF Word, Two64, Two128, Two192
<1> HIDE DEF a0, a1, a2, a3, w
<1>3. /\ w \div 1 = w
      /\ w \div 18446744073709551616 = a1 + a2 * 18446744073709551616 + a3 * 340282366920938463463374607431768211456
      /\ w \div 340282366920938463463374607431768211456 = a2 + a3 * 18446744073709551616
      /\ w \div 6277101735386680763835789423207666416102355444464034512896 = a3
  BY <1>1, <1>2, SMT
<1>4. /\ w % 18446744073709551616 = a0
      /\ (a1 + a2 * 18446744073709551616 + a3 * 340282366920938463463374607431768211456) % 18446744073709551616 = a1
      /\ (a2 + a3 * 18446744073709551616) % 18446744073709551616 = a2
      /\ a3 % 18446744073709551616 = a3
  BY <1>1, <1>2, SMT
<1>5. /\ Base(0) = 1 /\ Base(1) = 18446744073709551616 /\ Base(2) = 340282366920938463463374607431768211456
      /\ Base(3) = 6277101735386680763835789423207666416102355444464034512896
  BY SMT DEF Base, Two64, Two128, Two192
<1>6. \A k \in 0 .. 3 : k = 0 \/ k = 1 \/ k = 2 \/ k = 3
  BY SMT
<1> QED
  BY <1>3, <1>4, <1>5, <1>6 DEF Two64, a0, a1, a2, a3, w

(* S8b: one word decodes four coefficients: each lane is canonicalised on  *)
(* its own, and the word is refused exactly when one of its lanes is.      *)
THEOREM PackedDecodeIsLaneLocal ==
  ASSUME NEW v \in [0 .. 3 -> Nat], \A k \in 0 .. 3 : v[k] < 262144
  PROVE  /\ PackedZ(Word(v)) = Word([k \in 0 .. 3 |-> ZLane(v[k])])
         /\ PackedZBad(Word([k \in 0 .. 3 |-> ZLane(v[k])]))
              <=> \E k \in 0 .. 3 : ZReject(ZLane(v[k]))
<1> DEFINE u == [k \in 0 .. 3 |-> Z_UOFF - v[k]]
           t == [k \in 0 .. 3 |-> u[k] + Z_QB32]
           f == [k \in 0 .. 3 |-> (t[k] \div 4294967296) % 2]
           o == [k \in 0 .. 3 |-> ZLane(v[k])]
           lo == [k \in 0 .. 3 |-> o[k] + Z_NLO]
           hi == [k \in 0 .. 3 |-> Z_NHI - o[k]]
<1>1. /\ t \in [0 .. 3 -> Nat] /\ \A k \in 0 .. 3 : t[k] < Two64
      /\ u \in [0 .. 3 -> Nat]
  BY SMT DEF Z_UOFF, Z_QB32, Two64
<1>2. \A k \in 0 .. 3 : o[k] = (Gamma1 - v[k]) % Q
  BY ZLaneIsAlgorithm19
<1>3. o \in [0 .. 3 -> Nat] /\ \A k \in 0 .. 3 : o[k] < Q
  <2>1. \A k \in 0 .. 3 : (Gamma1 - v[k]) % Q \in Nat /\ (Gamma1 - v[k]) % Q < Q
    BY SMT DEF Gamma1, Q
  <2> QED BY <1>2, <2>1
<1>4. /\ lo \in [0 .. 3 -> Nat] /\ \A k \in 0 .. 3 : lo[k] < Two64
      /\ hi \in [0 .. 3 -> Nat] /\ \A k \in 0 .. 3 : hi[k] < Two64
  <2> HIDE DEF o
  <2> QED BY <1>3, SMT DEF Z_NLO, Z_NHI, Two64, Q
<1>5. f \in [0 .. 3 -> Nat]
  <2>1. \A k \in 0 .. 3 : t[k] \div 4294967296 \in Nat
    BY <1>1, DivRem32
  <2>2. \A n \in Nat : n % 2 \in Nat
    BY SMT
  <2> QED BY <2>1, <2>2
<1>6. Word(Rep(Z_UOFF)) - Word(v) = Word(u) /\ Word(u) + Word(Rep(Z_QB32)) = Word(t)
  BY <1>1, SMT DEF Word, Rep, Two64, Two128, Two192, Z_UOFF, Z_QB32
<1>7. Fields(Word(t) \div 4294967296, 2) = f
  <2> HIDE DEF t
  <2> QED BY <1>1, Fields32 
<1>8. Word(u) - Word(f) * Q = Word(o)
  <2>1. \A k \in 0 .. 3 : o[k] = u[k] - f[k] * 8380417
    BY DEF ZLane, Bit32, Q
  <2> HIDE DEF u, f, o
  <2> QED BY <1>1, <1>3, <1>5, <2>1, SMT DEF Word, Q, Two64, Two128, Two192
<1>9. PackedZ(Word(v)) = Word(o)
  BY <1>6, <1>7, <1>8 DEF PackedZ
<1>10. Word(o) + Word(Rep(Z_NLO)) = Word(lo) /\ Word(Rep(Z_NHI)) - Word(o) = Word(hi)
  <2> HIDE DEF o
  <2> QED BY <1>3, SMT DEF Word, Rep, Two64, Two128, Two192, Z_NLO, Z_NHI
<1>11. /\ Fields(Word(lo) \div 4294967296, 2) = [k \in 0 .. 3 |-> (lo[k] \div 4294967296) % 2]
       /\ Fields(Word(hi) \div 4294967296, 2) = [k \in 0 .. 3 |-> (hi[k] \div 4294967296) % 2]
  <2> HIDE DEF lo, hi
  <2> QED BY <1>4, Fields32
<1>12. PackedZBad(Word(o)) <=> \E k \in 0 .. 3 : ZReject(o[k])
  BY <1>10, <1>11 DEF PackedZBad, ZReject, Bit32
<1> QED
  BY <1>9, <1>12

(* O5: one multiplication packs four six-bit lanes.                        *)
THEOREM GatherPacks ==
  ASSUME NEW a \in [0 .. 3 -> 0 .. 63]
  PROVE  Gather(Word(a)) = Pack6(a)
<1> DEFINE a0   == a[0]
           a1   == a[1]
           a2   == a[2]
           a3   == a[3]
           low  == a0 * 83076749736557242344718317419233281 + a1 * 5316911983139663510061972314830929920 + a2 * 340282366920938463463374607431768211456
           high == a0 + 64 * a1 + 4096 * a2 + 262144 * a3 + 18446744073709551616 * a1
                   + 1180591620717411303424 * a2 + 75557863725914323419136 * a3
           over == a2 * 70368744177664 + a3 * 1298074214633706911636223709675520
           prod == Word(a) * SW_GATHERK
<1>1. a0 \in 0 .. 63 /\ a1 \in 0 .. 63 /\ a2 \in 0 .. 63 /\ a3 \in 0 .. 63
  OBVIOUS
<1>2. /\ prod = (a0 + a1 * 18446744073709551616 + a2 * 340282366920938463463374607431768211456
                 + a3 * 6277101735386680763835789423207666416102355444464034512896)
                * 23945242826029513494925922035780823338761116203352065
      /\ Pack6(a) = a0 + 64 * a1 + 4096 * a2 + 262144 * a3
  BY DEF Word, SW_GATHERK, Two64, Two128, Two192, Pack6
<1> HIDE DEF a0, a1, a2, a3, prod
<1>3. prod = over * 115792089237316195423570985008687907853269984665640564039457584007913129639936
             + (high * 23945242826029513411849172299223580994042798784118784 + low)
  BY <1>1, <1>2, SMT
<1>4. /\ low \in Nat /\ low < 23945242826029513411849172299223580994042798784118784 /\ over \in Nat
      /\ high \in Nat
      /\ high * 23945242826029513411849172299223580994042798784118784 + low < 115792089237316195423570985008687907853269984665640564039457584007913129639936
  BY <1>1, SMT
<1>5. high % 16777216 = Pack6(a)
  BY <1>1, <1>2, SMT
<1> HIDE DEF low, high, over
<1>6. Two64 * Two192 = 115792089237316195423570985008687907853269984665640564039457584007913129639936
  BY SMT DEF Two64, Two192
<1>7. prod % 115792089237316195423570985008687907853269984665640564039457584007913129639936 = high * 23945242826029513411849172299223580994042798784118784 + low
  BY <1>3, <1>4, SMT
<1>8. (high * 23945242826029513411849172299223580994042798784118784 + low) \div 23945242826029513411849172299223580994042798784118784 = high
  BY <1>4, SMT
<1> QED
  BY <1>5, <1>6, <1>7, <1>8 DEF Gather, Two174, prod

(* The Algorithm 40 above is the suite's reference, so its     *)
(* values take six bits.                                                   *)
LEMMA UseHintInRange ==
  ASSUME NEW r \in Nat, r < Q, NEW h \in {0, 1}
  PROVE  Out(h, r) \in 0 .. 43
<1>1. r % Q = r /\ 2 * Gamma2 = D
  BY SMT DEF Q, Gamma2, D
<1>2. RefReduceModPm(r % Q, 2 * Gamma2) = Centred(r)
  BY <1>1 DEF RefReduceModPm, Centred
<1>3. RefDecompose(r)[1] = HighBits(r) /\ RefDecompose(r)[2] = LowBits(r)
  BY <1>1, <1>2, SMT DEF RefDecompose, HighBits, LowBits
<1>4. RefUseHint(h, r) = FipsUseHint(h, r)
  BY <1>3, SMT DEF RefUseHint, FipsUseHint
<1> QED
  BY <1>4, ScalarUseHintIsFips, UseHintLaneIsAlgorithm40

(* O6: the loop body of useHintSwar is four copies of FIPS 204's UseHint,  *)
(* packed as w1Encode packs them, whatever the four residues and bits.     *)
THEOREM SwarWordIsFourUseHints ==
  ASSUME NEW r \in [0 .. 3 -> Nat], \A k \in 0 .. 3 : r[k] < Q,
         NEW h \in [0 .. 3 -> {0, 1}]
  PROVE  Gather(SwarOut(Word(r), h)) = Pack6([k \in 0 .. 3 |-> FipsUseHint(h[k], r[k])])
<1> DEFINE w  == Word(r)
           m  == [k \in 0 .. 3 |-> r[k] * SW_MDIV]
           q0 == [k \in 0 .. 3 |-> Q0(r[k])]
           r0 == [k \in 0 .. 3 |-> R0(r[k])]
           x  == [k \in 0 .. 3 |-> r0[k] + SW_K32G2]
           y  == [k \in 0 .. 3 |-> r0[k] + SW_K321]
           c  == [k \in 0 .. 3 |-> C(r[k])]
           a  == [k \in 0 .. 3 |-> IF h[k] = 1 THEN 1 + NEG(r[k]) * 42 ELSE 0]
           t  == [k \in 0 .. 3 |-> S(h[k], r[k])]
           g  == [k \in 0 .. 3 |-> t[k] * 94]
           e  == [k \in 0 .. 3 |-> (g[k] \div 4096) % 2]
           o  == [k \in 0 .. 3 |-> Out(h[k], r[k])]
<1>1. \A k \in 0 .. 3 : r[k] \in Nat /\ r[k] < Q
  OBVIOUS
<1>2. \A n \in Nat : n % 2 \in {0, 1}
  BY SMT
<1>3. /\ q0 \in [0 .. 3 -> Nat] /\ \A k \in 0 .. 3 : q0[k] <= 44
      /\ r0 \in [0 .. 3 -> Nat] /\ \A k \in 0 .. 3 : r0[k] < D
  BY <1>1, Q0IsQuotient
<1>4. m \in [0 .. 3 -> Nat] /\ \A k \in 0 .. 3 : m[k] < Two64
  BY SMT DEF SW_MDIV, Q, Two64
<1>5. SwarQ0(w) = Word(q0)
  <2>1. w * SW_MDIV = Word(m)
    BY SMT DEF Word, SW_MDIV, Two64, Two128, Two192
  <2>2. Fields(Word(m) \div 549755813888, 64) = [k \in 0 .. 3 |-> (m[k] \div 549755813888) % 64]
    <3> HIDE DEF m
    <3> QED BY <1>4, Fields39
  <2>3. [k \in 0 .. 3 |-> (m[k] \div 549755813888) % 64] = q0
    BY DEF Q0
  <2> QED BY <2>1, <2>2, <2>3 DEF SwarQ0
<1>6. SwarR0(w) = Word(r0)
  <2>1. \A k \in 0 .. 3 : r0[k] = r[k] - q0[k] * 190464
    BY DEF R0, D
  <2>2. Word(r) - Word(q0) * D = Word(r0)
    <3> HIDE DEF q0, r0
    <3> QED BY <1>3, <2>1, SMT DEF Word, D, Two64, Two128, Two192
  <2> QED BY <1>5, <2>2 DEF SwarR0
<1>7. /\ x \in [0 .. 3 -> Nat] /\ \A k \in 0 .. 3 : x[k] < Two64
      /\ y \in [0 .. 3 -> Nat] /\ \A k \in 0 .. 3 : y[k] < Two64
      /\ Word(r0) + Word(Rep(SW_K32G2)) = Word(x)
      /\ Word(r0) + Word(Rep(SW_K321)) = Word(y)
  <2> HIDE DEF r0
  <2>1. /\ x \in [0 .. 3 -> Nat] /\ \A k \in 0 .. 3 : x[k] < Two64
        /\ y \in [0 .. 3 -> Nat] /\ \A k \in 0 .. 3 : y[k] < Two64
    BY <1>3, SMT DEF SW_K32G2, SW_K321, Two64, D
  <2>2. /\ Word(r0) + Word(Rep(SW_K32G2)) = Word(x)
        /\ Word(r0) + Word(Rep(SW_K321)) = Word(y)
    BY <1>3, SMT DEF Word, Rep, SW_K32G2, SW_K321, Two64, Two128, Two192
  <2> QED BY <2>1, <2>2
<1>8. /\ Fields(Word(x) \div 4294967296, 2) = [k \in 0 .. 3 |-> (x[k] \div 4294967296) % 2]
      /\ Fields(Word(y) \div 4294967296, 2) = [k \in 0 .. 3 |-> (y[k] \div 4294967296) % 2]
  <2> HIDE DEF x, y
  <2> QED BY <1>7, Fields32
<1>9. SwarC(w) = c
  BY <1>6, <1>7, <1>8 DEF SwarC, C, Bit32
<1>10. \A k \in 0 .. 3 : SwarNeg(w)[k] = NEG(r[k])
  BY <1>6, <1>7, <1>8, <1>9 DEF SwarNeg, NEG, Bit32
<1>11. c \in [0 .. 3 -> Nat]
  <2>1. \A k \in 0 .. 3 : c[k] = (x[k] \div 4294967296) % 2
    BY DEF C, Bit32
  <2>2. \A k \in 0 .. 3 : x[k] \div 4294967296 \in Nat
    BY <1>7, DivRem32
  <2> QED BY <1>2, <2>1, <2>2
<1>12. \A k \in 0 .. 3 : NEG(r[k]) \in {0, 1}
  BY DEF NEG
<1>13. a \in [0 .. 3 -> Nat]
  BY <1>12, SMT
<1>14. SwarT(w, h) = Word(t)
  <2>1. SwarT(w, h) = Word(q0) + Word(c) + Word(a)
    BY <1>5, <1>9, <1>10 DEF SwarT
  <2>2. \A k \in 0 .. 3 : t[k] = q0[k] + c[k] + a[k]
    BY DEF S
  <2>3. Word(q0) + Word(c) + Word(a) = Word(t)
    <3> HIDE DEF q0, c, a, t
    <3> QED BY <1>3, <1>11, <1>13, <2>2, SMT DEF Word, Two64, Two128, Two192
  <2> QED BY <2>1, <2>3
<1>15. t \in [0 .. 3 -> Nat] /\ \A k \in 0 .. 3 : t[k] <= 88
  <2>1. \A k \in 0 .. 3 : c[k] \in {0, 1}
    <3>1. \A k \in 0 .. 3 : c[k] = (x[k] \div 4294967296) % 2
      BY DEF C, Bit32
    <3>2. \A k \in 0 .. 3 : x[k] \div 4294967296 \in Nat
      BY <1>7, DivRem32
    <3> QED BY <1>2, <3>1, <3>2
  <2>2. \A k \in 0 .. 3 : a[k] \in 0 .. 43
    BY <1>12, SMT
  <2>3. \A k \in 0 .. 3 : t[k] = q0[k] + c[k] + a[k]
    BY DEF S
  <2>4. t = [k \in 0 .. 3 |-> t[k]]
    OBVIOUS
  <2> HIDE DEF q0, c, a, t
  <2> QED BY <1>3, <2>1, <2>2, <2>3, <2>4, SMT
<1>16. /\ g \in [0 .. 3 -> Nat] /\ \A k \in 0 .. 3 : g[k] < Two64
       /\ Word(t) * 94 = Word(g)
  <2> HIDE DEF t
  <2>1. g \in [0 .. 3 -> Nat] /\ \A k \in 0 .. 3 : g[k] < Two64
    BY <1>15, SMT DEF Two64
  <2>2. Word(t) * 94 = Word(g)
    BY <1>15, SMT DEF Word, Two64, Two128, Two192
  <2> QED BY <2>1, <2>2
<1>17. Fields(Word(g) \div 4096, 2) = e
  <2> HIDE DEF g
  <2> QED BY <1>16, Fields12
<1>18. e \in [0 .. 3 -> Nat]
  <2>1. \A k \in 0 .. 3 : g[k] \div 4096 \in Nat
    BY <1>16, DivRem12
  <2> QED BY <1>2, <2>1
<1>19. SwarOut(w, h) = Word(o)
  <2>1. \A k \in 0 .. 3 : o[k] = t[k] - e[k] * 44
    BY DEF Out
  <2>2. Word(t) - Word(e) * 44 = Word(o)
    <3> HIDE DEF t, e, o
    <3> QED BY <1>15, <1>18, <2>1, SMT DEF Word, Two64, Two128, Two192
  <2> QED BY <1>14, <1>16, <1>17, <2>2 DEF SwarOut
<1>20. o \in [0 .. 3 -> 0 .. 63]
  <2>1. \A k \in 0 .. 3 : o[k] \in 0 .. 43
    BY <1>1, UseHintInRange
  <2>2. \A n \in 0 .. 43 : n \in 0 .. 63
    BY SMT
  <2> QED BY <2>1, <2>2
<1>21. o = [k \in 0 .. 3 |-> FipsUseHint(h[k], r[k])]
  BY <1>1, UseHintLaneIsAlgorithm40
<1>22. Gather(Word(o)) = Pack6(o)
  <2> HIDE DEF o
  <2> QED BY <1>20, GatherPacks
<1> QED
  BY <1>19, <1>21, <1>22

-----------------------------------------------------------------------------
(* O10: the twelve terms <<byte, shift>> a group of nine bytes is assembled*)
(* from, their sum, and the bit string FIPS 204 cuts into 18-bit fields.   *)
Z_TERMS == << <<0, 0>>, <<1, 8>>, <<2, 16>>, <<2, 62>>, <<3, 70>>, <<4, 78>>,
              <<4, 124>>, <<5, 132>>, <<6, 140>>, <<6, 186>>, <<7, 194>>, <<8, 202>> >>
TermsDisjoint == \A i, j \in 1 .. 12 : i < j => Z_TERMS[i][2] + 8 <= Z_TERMS[j][2]
Assembled(b) ==
  b[0]
  + b[1] * 256
  + b[2] * 65536
  + b[2] * 4611686018427387904
  + b[3] * 1180591620717411303424
  + b[4] * 302231454903657293676544
  + b[4] * 21267647932558653966460912964485513216
  + b[5] * 5444517870735015415413993718908291383296
  + b[6] * 1393796574908163946345982392040522594123776
  + b[6] * 98079714615416886934934209737619787751599303819750539264
  + b[7] * 25108406941546723055343157692830665664409421777856138051584
  + b[8] * 6427752177035961102167848369364650410088811975131171341205504
BitString(b) ==
  b[0] + b[1] * 256 + b[2] * 65536 + b[3] * 16777216
  + b[4] * 4294967296 + b[5] * 1099511627776 + b[6] * 281474976710656
  + b[7] * 72057594037927936 + b[8] * 18446744073709551616
ExtractShipped(b) == Fields(Assembled(b), 262144)
ExtractFips(b) ==
  [k \in 0 .. 3 |-> (BitString(b) \div <<1, 262144, 68719476736, 18014398509481984>>[k + 1]) % 262144]

(* E14: the message representative of a context and a message, and the one *)
(* of a message that was hashed first; oid names the hash.                 *)
Pure(ctx, m) == <<0, Len(ctx)>> \o ctx \o m
PreHash(ctx, oid, m) == <<1, Len(ctx)>> \o ctx \o oid \o m

(* O10: the terms share no bit, so their or is their sum, and the one mask *)
(* leaves FIPS 204's four fields, for each of the 2^72 groups: the suite   *)
(* settles it by a sweep of the axes and an argument of additivity.        *)
THEOREM ExtractionIsBitUnpack ==
  ASSUME NEW b \in [0 .. 8 -> 0 .. 255]
  PROVE  TermsDisjoint /\ ExtractShipped(b) = ExtractFips(b)
<1> DEFINE b0 == b[0]
           b1 == b[1]
           b2 == b[2]
           b3 == b[3]
           b4 == b[4]
           b5 == b[5]
           b6 == b[6]
           b7 == b[7]
           b8 == b[8]
           w  == Assembled(b)
           n  == BitString(b)
<1>1. TermsDisjoint
  BY SMT DEF TermsDisjoint, Z_TERMS
<1>2. /\ b0 \in 0 .. 255 /\ b1 \in 0 .. 255 /\ b2 \in 0 .. 255
      /\ b3 \in 0 .. 255 /\ b4 \in 0 .. 255 /\ b5 \in 0 .. 255
      /\ b6 \in 0 .. 255 /\ b7 \in 0 .. 255 /\ b8 \in 0 .. 255
  OBVIOUS
<1>3. /\ w = b0
             + b1 * 256
             + b2 * 65536
             + b2 * 4611686018427387904
             + b3 * 1180591620717411303424
             + b4 * 302231454903657293676544
             + b4 * 21267647932558653966460912964485513216
             + b5 * 5444517870735015415413993718908291383296
             + b6 * 1393796574908163946345982392040522594123776
             + b6 * 98079714615416886934934209737619787751599303819750539264
             + b7 * 25108406941546723055343157692830665664409421777856138051584
             + b8 * 6427752177035961102167848369364650410088811975131171341205504
      /\ n = b0
             + b1 * 256
             + b2 * 65536
             + b3 * 16777216
             + b4 * 4294967296
             + b5 * 1099511627776
             + b6 * 281474976710656
             + b7 * 72057594037927936
             + b8 * 18446744073709551616
  BY DEF Assembled, BitString
<1> HIDE DEF b0, b1, b2, b3, b4, b5, b6, b7, b8, w, n
<1>4. PICK h2 \in 0 .. 63, l2 \in 0 .. 3 : b2 = 4 * h2 + l2
  <2>1. b2 \div 4 \in 0 .. 63 /\ b2 % 4 \in 0 .. 3 /\ b2 = 4 * (b2 \div 4) + (b2 % 4)
    BY <1>2, SMT
  <2> QED BY <2>1
<1>5. PICK h4 \in 0 .. 15, l4 \in 0 .. 15 : b4 = 16 * h4 + l4
  <2>1. b4 \div 16 \in 0 .. 15 /\ b4 % 16 \in 0 .. 15 /\ b4 = 16 * (b4 \div 16) + (b4 % 16)
    BY <1>2, SMT
  <2> QED BY <2>1
<1>6. PICK h6 \in 0 .. 3, l6 \in 0 .. 63 : b6 = 64 * h6 + l6
  <2>1. b6 \div 64 \in 0 .. 3 /\ b6 % 64 \in 0 .. 63 /\ b6 = 64 * (b6 \div 64) + (b6 % 64)
    BY <1>2, SMT
  <2> QED BY <2>1
(* The four fields.                                                        *)
<1> DEFINE f0 == b0 + 256 * b1 + 65536 * l2
           f1 == h2 + 64 * b3 + 16384 * l4
           f2 == h4 + 16 * b5 + 4096 * l6
           f3 == h6 + 4 * b7 + 1024 * b8
<1>7. /\ f0 \in Nat /\ f0 <= 262143 /\ f1 \in Nat /\ f1 <= 262143
      /\ f2 \in Nat /\ f2 <= 262143 /\ f3 \in Nat /\ f3 <= 262143
  BY <1>2, <1>4, <1>5, <1>6, SMT
<1>8. n = f0 + 262144 * f1 + 68719476736 * f2 + 18014398509481984 * f3
  BY <1>2, <1>3, <1>4, <1>5, <1>6, SMT
<1>9. w = f0 + h2 * 262144 + l2 * 4611686018427387904 + f1 * 18446744073709551616 + h4 * 4835703278458516698824704
            + l4 * 21267647932558653966460912964485513216 + f2 * 340282366920938463463374607431768211456 + h6 * 89202980794122492566142873090593446023921664
            + l6 * 98079714615416886934934209737619787751599303819750539264 + f3 * 6277101735386680763835789423207666416102355444464034512896
  BY <1>2, <1>3, <1>4, <1>5, <1>6, SMT
<1> HIDE DEF f0, f1, f2, f3
<1>10. /\ n % 262144 = f0
       /\ n \div 262144 = f1 + 262144 * f2 + 68719476736 * f3
       /\ n \div 68719476736 = f2 + 262144 * f3
       /\ n \div 18014398509481984 = f3
  BY <1>7, <1>8, SMT
<1>11. /\ (f1 + 262144 * f2 + 68719476736 * f3) % 262144 = f1
       /\ (f2 + 262144 * f3) % 262144 = f2 /\ f3 % 262144 = f3
  BY <1>7, SMT
<1>12. /\ w % 262144 = f0
       /\ w \div 18446744073709551616 = f1 + h4 * 262144 + l4 * 1152921504606846976 + f2 * 18446744073709551616
            + h6 * 4835703278458516698824704 + l6 * 5316911983139663491615228241121378304 + f3 * 340282366920938463463374607431768211456
       /\ w \div 340282366920938463463374607431768211456 = f2 + h6 * 262144 + l6 * 288230376151711744 + f3 * 18446744073709551616
       /\ w \div 6277101735386680763835789423207666416102355444464034512896 = f3
  BY <1>7, <1>9, SMT
<1>13. /\ (f1 + h4 * 262144 + l4 * 1152921504606846976 + f2 * 18446744073709551616
            + h6 * 4835703278458516698824704 + l6 * 5316911983139663491615228241121378304 + f3 * 340282366920938463463374607431768211456) % 262144 = f1
       /\ (f2 + h6 * 262144 + l6 * 288230376151711744 + f3 * 18446744073709551616) % 262144 = f2
  BY <1>7, SMT
<1>14. /\ Base(0) = 1 /\ Base(1) = 18446744073709551616 /\ Base(2) = 340282366920938463463374607431768211456
       /\ Base(3) = 6277101735386680763835789423207666416102355444464034512896 /\ w \div 1 = w /\ n \div 1 = n
  BY <1>2, <1>3, SMT DEF Base, Two64, Two128, Two192
<1>15. \A k \in 0 .. 3 : (w \div Base(k)) % 262144 =
         (n \div <<1, 262144, 68719476736, 18014398509481984>>[k + 1]) % 262144
  <2>1. /\ (w \div Base(0)) % 262144 = f0 /\ (w \div Base(1)) % 262144 = f1
        /\ (w \div Base(2)) % 262144 = f2 /\ (w \div Base(3)) % 262144 = f3
    BY <1>11, <1>12, <1>13, <1>14
  <2>2. \A k \in 0 .. 3 : <<1, 262144, 68719476736, 18014398509481984>>[k + 1] =
          IF k = 0 THEN 1 ELSE IF k = 1 THEN 262144 ELSE IF k = 2 THEN 68719476736 ELSE 18014398509481984
    BY SMT
  <2>3. \A k \in 0 .. 3 : k = 0 \/ k = 1 \/ k = 2 \/ k = 3
    BY SMT
  <2>4. 0 # 1 /\ 0 # 2 /\ 1 # 2 /\ 3 # 0 /\ 3 # 1 /\ 3 # 2
    BY SMT
  <2> HIDE DEF Base
  <2> QED BY <1>10, <1>11, <1>14, <2>1, <2>2, <2>3, <2>4
<1> QED
  BY <1>1, <1>15 DEF ExtractShipped, ExtractFips, Fields, w, n

(* O7: a product of a canonical key coefficient and a lazy lane stays in   *)
(* its lane, shifted to any of them.                                       *)
THEOREM MatvecProductStaysInLane ==
  ASSUME NEW x \in Nat, x < Q, NEW z \in Nat, z <= 17 * Q - 1, NEW k \in 0 .. 3
  PROVE  /\ x * z < Two64
         /\ (x * z) * Base(k) < Two64 * Base(k)
<1>1. x * z <= 8380416 * 142467088 /\ x * z \in Nat
  <2>1. x <= 8380416 /\ z <= 142467088
    BY SMT DEF Q
  <2> QED BY <2>1, ProductBound, SMT
<1> DEFINE p == x * z
<1>2. p \in Nat /\ p < Two64
  BY <1>1, SMT DEF Two64
<1> HIDE DEF p
<1>3. p * Base(k) < Two64 * Base(k)
  BY <1>2, SMT DEF Base, Two64, Two128, Two192
<1> QED
  BY <1>2, <1>3 DEF p

(* The word of a lane k in place, as and(w, L_k) leaves it, times a key    *)
(* coefficient.                                                            *)
LaneProduct(x, w, k) == x * (((w \div Base(k)) % Two64) * Base(k))

(* O7, the word: mul(a, and(w, L_k)) is the product with lane k of w, in   *)
(* the place of lane k, and leaves it; a lane of w is below 17q.           *)
THEOREM LaneProductIsInPlace ==
  ASSUME NEW x \in Nat, x < Q, NEW z \in [0 .. 3 -> Nat], \A k \in 0 .. 3 : z[k] <= 17 * Q - 1,
         NEW k \in 0 .. 3
  PROVE  /\ LaneProduct(x, Word(z), k) = (x * z[k]) * Base(k)
         /\ LaneProduct(x, Word(z), k) < Two64 * Base(k)
<1>1. \A i \in 0 .. 3 : z[i] < Two64
  <2>1. 17 * Q - 1 < Two64 /\ 17 * Q - 1 \in Nat
    BY SMT DEF Q, Two64
  <2> HIDE DEF Q, Two64
  <2>2. Two64 \in Nat
    BY SMT DEF Two64
  <2> QED BY <2>1, <2>2, SMT
<1>2. (Word(z) \div Base(k)) % Two64 = z[k]
  BY <1>1, LanesRoundTrip
<1>3. x * z[k] < Two64 /\ (x * z[k]) * Base(k) < Two64 * Base(k)
  BY MatvecProductStaysInLane
<1>4. x * (z[k] * Base(k)) = (x * z[k]) * Base(k)
  <2>1. Base(k) \in Nat /\ z[k] \in Nat
    BY SMT DEF Base, Two64, Two128, Two192
  <2> QED BY <2>1, SMT
<1> QED
  BY <1>2, <1>3, <1>4 DEF LaneProduct

(* O8: what the row's accumulator promises to the inverse transform, for   *)
(* key coefficients below amax.                                            *)
MV_KQ28REP == Word(Rep(KQ28))
AccumulatorContract(amax) ==
  /\ (amax - 1) * (17 * Q - 1) < KQ28
  /\ AccEntryAt(amax) < 9007199254740992
  /\ KQ28 % Q = 0
  /\ Fields(MV_KQ28REP, Two64) = Rep(KQ28)
  /\ AccEntryAt(amax) <= ACCQ30

(* O8: the contract holds for canonical keys, and for none with            *)
(* coefficients of 2q.                                                     *)
THEOREM AccumulatorIsSafe ==
  /\ AccumulatorContract(Q)
  /\ \A amax \in Nat \ {0} : amax >= 2 * Q => ~ AccumulatorContract(amax)
<1>1. (Q - 1) * (17 * Q - 1) < KQ28 /\ AccEntryAt(Q) < 9007199254740992 /\ KQ28 % Q = 0
  <2>1. (Q - 1) * (17 * Q - 1) < KQ28
    BY SMT DEF Q, KQ28
  <2>2. AccEntryAt(Q) < 9007199254740992
    BY SMT DEF AccEntryAt, Q, KQ28
  <2>3. KQ28 % Q = 0
    BY SMT DEF KQ28, Q
  <2> QED BY <2>1, <2>2, <2>3
<1>2. Fields(MV_KQ28REP, Two64) = Rep(KQ28)
  <2>1. Rep(KQ28) \in [0 .. 3 -> Nat] /\ \A k \in 0 .. 3 : Rep(KQ28)[k] < Two64
    BY SMT DEF Rep, KQ28, Q, Two64
  <2>2. \A k \in 0 .. 3 : (Word(Rep(KQ28)) \div Base(k)) % Two64 = Rep(KQ28)[k]
    BY <2>1, LanesRoundTrip
  <2> QED BY <2>1, <2>2 DEF Fields, MV_KQ28REP, Rep
<1>3. AccEntryAt(Q) <= ACCQ30
  BY CanonicalKeyIsTheMargin, SMT DEF EntryOffsetDominates, Q
<1>4. ASSUME NEW amax \in Nat \ {0}, amax >= 2 * Q
      PROVE  ~ AccumulatorContract(amax)
  <2>1. AccEntryAt(amax) = 569868352 * (amax - 1) + 2249601058865152
    BY SMT DEF AccEntryAt, Q, KQ28
  <2> QED
    BY <1>4, <2>1, SMT DEF AccumulatorContract, Q, ACCQ30
<1> QED
  BY <1>1, <1>2, <1>3, <1>4 DEF AccumulatorContract

(* O9: four decoded fields in one word, and lane k read back, when the     *)
(* lanes are m apart.                                                      *)
PackAt(a, m) == a[0] + a[1] * m + a[2] * (m * m) + a[3] * (m * m * m)
CanonicalLane(v) == (Z_UOFF - v) % Q

(* O9: every field becomes a lane below q and below 2^23, so the four      *)
(* lanes of a word come back out of it.                                    *)
THEOREM PackedStoreIsDisjoint ==
  ASSUME NEW v \in [0 .. 3 -> Nat], \A k \in 0 .. 3 : v[k] < 262144
  PROVE  \A k \in 0 .. 3 :
           /\ CanonicalLane(v[k]) \in Nat /\ CanonicalLane(v[k]) < Q /\ CanonicalLane(v[k]) < 8388608
           /\ (Word([i \in 0 .. 3 |-> CanonicalLane(v[i])]) \div Base(k)) % Two64 = CanonicalLane(v[k])
<1> DEFINE a == [i \in 0 .. 3 |-> CanonicalLane(v[i])]
<1>1. \A k \in 0 .. 3 : CanonicalLane(v[k]) \in Nat /\ CanonicalLane(v[k]) < Q /\ CanonicalLane(v[k]) < 8388608
  BY SMT DEF CanonicalLane, Z_UOFF, Q
<1>2. a \in [0 .. 3 -> Nat] /\ \A k \in 0 .. 3 : a[k] < Two64
  <2>1. \A k \in 0 .. 3 : CanonicalLane(v[k]) \in Nat /\ CanonicalLane(v[k]) < Two64
    BY <1>1, SMT DEF Two64
  <2> QED BY <2>1
<1>3. \A k \in 0 .. 3 : (Word(a) \div Base(k)) % Two64 = a[k]
  BY <1>2, LanesRoundTrip
<1> QED
  BY <1>1, <1>3

(* O9: a stride of 63 bits does not do: lane 1 of this word reads back the *)
(* low bit of lane 2 as well.                                              *)
THEOREM NarrowStrideOverlaps ==
  LET m == 9223372036854775808
      a == [k \in 0 .. 3 |-> IF k = 0 THEN 0 ELSE IF k = 1 THEN Q - 1 ELSE IF k = 2 THEN 1 ELSE Q - 2]
  IN  (PackAt(a, m) \div m) % Two64 # a[1]
<1> DEFINE m == 9223372036854775808
           a == [k \in 0 .. 3 |-> IF k = 0 THEN 0 ELSE IF k = 1 THEN Q - 1 ELSE IF k = 2 THEN 1 ELSE Q - 2]
           r == 8380416 + m + 8380415 * (m * m)
<1>1. a[0] = 0 /\ a[1] = 8380416 /\ a[2] = 1 /\ a[3] = 8380415
  BY SMT DEF Q
<1> HIDE DEF a
<1>2. PackAt(a, m) = m * r
  BY <1>1, SMT DEF PackAt
<1>3. (m * r) \div m = r
  BY SMT
<1>4. r % Two64 = 8380416 + 9223372036854775808
  BY SMT DEF Two64
<1> QED
  BY <1>1, <1>2, <1>3, <1>4, SMT DEF a

(* O10, the multiplications: bytes 2, 4 and 6 occur twice among the terms, *)
(* and each is placed by one multiplication with a sum of two powers.      *)
MulLow(i) == IF i = 1 THEN 65536
  ELSE IF i = 2 THEN 302231454903657293676544
  ELSE 1393796574908163946345982392040522594123776
MulHigh(i) == IF i = 1 THEN 4611686018427387904
  ELSE IF i = 2 THEN 21267647932558653966460912964485513216
  ELSE 98079714615416886934934209737619787751599303819750539264
MulConst(i) == IF i = 1 THEN 4611686018427453440
  ELSE IF i = 2 THEN 21267647932558956197915816621779189760
  ELSE 98079714615418280731509117901566133733991344342344663040

(* O10: each constant is the sum of the two powers of the terms, and the   *)
(* multiplication puts the two copies of a byte where they share no bit.   *)
THEOREM FusedMultiplyIsTheTwoTerms ==
  ASSUME NEW i \in 1 .. 3, NEW b \in Nat, b < 256
  PROVE  /\ MulConst(i) = MulLow(i) + MulHigh(i)
         /\ b * MulConst(i) = b * MulLow(i) + b * MulHigh(i)
         /\ b * MulLow(i) < MulHigh(i)
<1>1. i = 1 \/ i = 2 \/ i = 3
  BY SMT
<1>2. CASE i = 1
  <2>1. MulLow(i) = 65536 /\ MulHigh(i) = 4611686018427387904
        /\ MulConst(i) = 4611686018427453440
    BY <1>2 DEF MulLow, MulHigh, MulConst
  <2>2. /\ 65536 + 4611686018427387904 = 4611686018427453440
        /\ b * 4611686018427453440 = b * 65536 + b * 4611686018427387904
        /\ b * 65536 < 4611686018427387904
    BY SMT
  <2> QED BY <2>1, <2>2
<1>3. CASE i = 2
  <2>1. MulLow(i) = 302231454903657293676544 /\ MulHigh(i) = 21267647932558653966460912964485513216
        /\ MulConst(i) = 21267647932558956197915816621779189760
    BY <1>3 DEF MulLow, MulHigh, MulConst
  <2>2. /\ 302231454903657293676544 + 21267647932558653966460912964485513216 = 21267647932558956197915816621779189760
        /\ b * 21267647932558956197915816621779189760 = b * 302231454903657293676544 + b * 21267647932558653966460912964485513216
        /\ b * 302231454903657293676544 < 21267647932558653966460912964485513216
    BY SMT
  <2> QED BY <2>1, <2>2
<1>4. CASE i = 3
  <2>1. MulLow(i) = 1393796574908163946345982392040522594123776 /\ MulHigh(i) = 98079714615416886934934209737619787751599303819750539264
        /\ MulConst(i) = 98079714615418280731509117901566133733991344342344663040
    BY <1>4 DEF MulLow, MulHigh, MulConst
  <2>2. /\ 1393796574908163946345982392040522594123776 + 98079714615416886934934209737619787751599303819750539264 = 98079714615418280731509117901566133733991344342344663040
        /\ b * 98079714615418280731509117901566133733991344342344663040 = b * 1393796574908163946345982392040522594123776 + b * 98079714615416886934934209737619787751599303819750539264
        /\ b * 1393796574908163946345982392040522594123776 < 98079714615416886934934209737619787751599303819750539264
    BY SMT
  <2> QED BY <2>1, <2>2
<1> QED
  BY <1>1, <1>2, <1>3, <1>4

(* E14: a signature made for one context is not one for another, nor one   *)
(* of a message that was hashed first: the first representative determines *)
(* both the context and the message, and the two kinds never meet.         *)
THEOREM RepresentativeIsInjective ==
  ASSUME NEW Byte, NEW c1 \in Seq(Byte), NEW m1 \in Seq(Byte),
         NEW c2 \in Seq(Byte), NEW m2 \in Seq(Byte), NEW oid \in Seq(Byte)
  PROVE  /\ Pure(c1, m1) = Pure(c2, m2) => c1 = c2 /\ m1 = m2
         /\ Pure(c1, m1) # PreHash(c2, oid, m2)
<1>1. Pure(c1, m1)[1] = 0 /\ PreHash(c2, oid, m2)[1] = 1
  BY SMT DEF Pure, PreHash
<1>2. ASSUME Pure(c1, m1) = Pure(c2, m2)
      PROVE  c1 = c2 /\ m1 = m2
  <2> DEFINE p == Pure(c1, m1)
  <2>1. Len(c1) = Len(c2)
    <3>1. Pure(c1, m1)[2] = Len(c1) /\ Pure(c2, m2)[2] = Len(c2)
      BY SMT DEF Pure
    <3> QED BY <1>2, <3>1
  <2>2. Len(m1) = Len(m2)
    <3>1. /\ Len(Pure(c1, m1)) = 2 + Len(c1) + Len(m1)
          /\ Len(Pure(c2, m2)) = 2 + Len(c2) + Len(m2)
      BY SMT DEF Pure
    <3> QED BY <1>2, <2>1, <3>1, SMT
  <2>3. \A i \in 1 .. Len(c1) : c1[i] = c2[i]
    <3>1. \A i \in 1 .. Len(c1) : Pure(c1, m1)[2 + i] = c1[i]
      BY SMT DEF Pure
    <3>2. \A i \in 1 .. Len(c2) : Pure(c2, m2)[2 + i] = c2[i]
      BY SMT DEF Pure
    <3> QED BY <1>2, <2>1, <3>1, <3>2
  <2>4. \A i \in 1 .. Len(m1) : m1[i] = m2[i]
    <3>1. \A i \in 1 .. Len(m1) : Pure(c1, m1)[2 + Len(c1) + i] = m1[i]
      BY SMT DEF Pure
    <3>2. \A i \in 1 .. Len(m2) : Pure(c2, m2)[2 + Len(c2) + i] = m2[i]
      BY SMT DEF Pure
    <3> QED BY <1>2, <2>1, <2>2, <3>1, <3>2
  <2>5. c1 = c2
    BY ONLY <2>1, <2>3, c1 \in Seq(Byte), c2 \in Seq(Byte), SeqEqual
  <2>6. m1 = m2
    BY ONLY <2>2, <2>4, m1 \in Seq(Byte), m2 \in Seq(Byte), SeqEqual
  <2> QED
    BY <2>5, <2>6
<1> QED
  BY <1>1, <1>2, SMT

=============================================================================
