----------------------------- MODULE AgentsProofs -----------------------------
(***************************************************************************)
(* What can be proved of the operators an agent's reply is made of, for    *)
(* every knowledge base, catalogue, text and history: which skills an      *)
(* agent has, and what a reply is read off and cites.                      *)
(***************************************************************************)
EXTENDS Agents, FiniteSetTheorems, SequenceTheorems, WellFoundedInduction, TLAPS

\* A set of natural numbers with members has a smallest one, and Min is it.
LEMMA MinOfNaturals ==
  ASSUME NEW S \in SUBSET Nat, S # {}
  PROVE  Min(S) \in S /\ \A x \in S : Min(S) <= x
<1>1. IsWellFoundedOn(OpToRel(<, Nat), Nat)
  BY NatLessThanWellFounded
<1>2. PICK x \in S : \A y \in S : ~ (<<y, x>> \in OpToRel(<, Nat))
  BY <1>1, WFMin
<1>3. ASSUME NEW y \in S PROVE x <= y
  <2>1. x \in Nat /\ y \in Nat
    OBVIOUS
  <2>2. y < x => <<y, x>> \in OpToRel(<, Nat)
    BY <2>1 DEF OpToRel
  <2>3. ~(y < x)
    BY <1>2, <2>2
  <2> QED BY <2>1, <2>3
<1> QED BY <1>3 DEF Min

\* A set of natural numbers up to a bound has a largest one, and Max is it.
LEMMA MaxOfNaturals ==
  ASSUME NEW L \in Nat, NEW S \in SUBSET (1..L), S # {}
  PROVE  Max(S) \in S /\ \A x \in S : Max(S) >= x
<1> DEFINE T == {L - x : x \in S}
<1>1. \A t \in T : t \in Nat
  OBVIOUS
<1>2. T # {}
  OBVIOUS
<1>3. Min(T) \in T /\ \A t \in T : Min(T) <= t
  <2> HIDE DEF T
  <2> QED BY <1>1, <1>2, MinOfNaturals
<1>4. PICK x \in S : L - x = Min(T)
  BY <1>3
<1>5. ASSUME NEW y \in S PROVE x >= y
  <2>1. L - y \in T
    OBVIOUS
  <2>2. L - x <= L - y
    BY <1>3, <1>4, <2>1
  <2> QED BY <2>2
<1> QED BY <1>5 DEF Max

------------------------------------------------------------------------------
(* The text of a dialogue *)

\* Flattening is what its recursive definition says: the pieces put together one
\* after the other.  Such a function exists for every number of pieces.
LEMMA Flattens ==
  ASSUME NEW S, NEW s \in Seq(Seq(S)), s # <<>>
  PROVE  \E f \in [1..Len(s) -> Seq(S)] :
           /\ FlattenSeq(s) = f[Len(s)]
           /\ \A i \in 1..Len(s) : f[i] = IF i = 1 THEN s[i] ELSE f[i - 1] \o s[i]
<1> DEFINE L == Len(s)
           IsFlat(f, n) == /\ f \in [1..n -> Seq(S)]
                           /\ \A i \in 1..n : f[i] = IF i = 1 THEN s[i] ELSE f[i - 1] \o s[i]
           Good == {n \in 1..L : \E f : IsFlat(f, n)}
           Bad == (1..L) \ Good
<1>1. L \in Nat \ {0} /\ \A i \in 1..L : s[i] \in Seq(S)
  OBVIOUS
<1>2. Bad = {}
  <2> SUFFICES ASSUME Bad # {} PROVE FALSE
    OBVIOUS
  <2>1. Bad \subseteq Nat /\ Min(Bad) \in Bad /\ \A x \in Bad : Min(Bad) <= x
    <3>1. Bad \in SUBSET Nat
      BY <1>1
    <3> HIDE DEF Bad
    <3> QED BY <3>1, MinOfNaturals
  <2> DEFINE n == Min(Bad)
  <2>2. n \in 1..L /\ n \notin Good
    <3> HIDE DEF Good
    <3> QED BY <2>1
  <2>3. \A k \in 1..L : k < n => k \in Good
    <3>1. \A x \in (1..L) \ Good : n <= x
      BY <2>1
    <3>2. n \in Nat
      BY <2>2
    <3> HIDE DEF Good, n
    <3> QED BY <1>1, <3>1, <3>2
  <2> HIDE DEF Bad, n
  <2>4. CASE n = 1
    <3> DEFINE g == [i \in 1..1 |-> s[1]]
    <3>1. IsFlat(g, 1)
      BY <1>1
    <3>2. \E f : IsFlat(f, 1)
      <4> HIDE DEF IsFlat, g
      <4> QED BY <3>1
    <3> QED BY <2>2, <2>4, <3>2
  <2>5. CASE n > 1
    <3>0. n - 1 \in Good
      <4> HIDE DEF Good
      <4> QED BY <1>1, <2>2, <2>3, <2>5
    <3>1. PICK f : IsFlat(f, n - 1)
      <4>1. \E f : IsFlat(f, n - 1)
        BY <3>0
      <4> HIDE DEF IsFlat
      <4> QED BY <4>1
    <3> DEFINE e == f[n - 1] \o s[n]
               g == [i \in 1..n |-> IF i = n THEN e ELSE f[i]]
    <3>2. e \in Seq(S)
      BY <1>1, <2>2, <2>5, <3>1
    <3> HIDE DEF e
    <3>3. g \in [1..n -> Seq(S)]
      BY <2>2, <3>1, <3>2
    <3>4. ASSUME NEW i \in 1..n PROVE g[i] = IF i = 1 THEN s[i] ELSE g[i - 1] \o s[i]
      <4>1. /\ n \in Nat /\ i \in Nat /\ g[n] = e
            /\ i # n => i \in 1..n - 1 /\ g[i] = f[i]
            /\ i # 1 => i - 1 \in 1..n - 1 /\ g[i - 1] = f[i - 1]
        <5>1. n \in Nat /\ i \in Nat /\ 1 <= i /\ i <= n
          BY <1>1, <2>2
        <5>2. \A k \in 1..n : g[k] = IF k = n THEN e ELSE f[k]
          OBVIOUS
        <5> HIDE DEF g
        <5>3. g[n] = e
          BY <2>5, <5>1, <5>2
        <5>4. i # n => i \in 1..n - 1 /\ g[i] = f[i]
          BY <2>5, <5>1, <5>2
        <5>5. i # 1 => i - 1 \in 1..n - 1 /\ g[i - 1] = f[i - 1]
          BY <2>5, <5>1, <5>2
        <5> QED BY <5>1, <5>3, <5>4, <5>5
      <4>2. \A k \in 1..n - 1 : f[k] = IF k = 1 THEN s[k] ELSE f[k - 1] \o s[k]
        BY <3>1
      <4> HIDE DEF g
      <4>3. CASE i = n
        <5>1. g[i] = e /\ i # 1 /\ g[i - 1] = f[n - 1] /\ s[i] = s[n]
          BY <2>5, <4>1, <4>3
        <5> QED BY <5>1 DEF e
      <4>4. CASE i # n
        <5>1. i \in 1..n - 1
          BY <4>1, <4>4
        <5>2. f[i] = IF i = 1 THEN s[i] ELSE f[i - 1] \o s[i]
          BY <4>2, <5>1
        <5> QED BY <4>1, <4>4, <5>2
      <4> QED BY <4>3, <4>4
    <3>5. IsFlat(g, n)
      <4> HIDE DEF g
      <4> QED BY <3>3, <3>4
    <3>6. \E h : IsFlat(h, n)
      <4> HIDE DEF IsFlat, g
      <4> QED BY <3>5
    <3> QED BY <2>2, <3>6
  <2> QED BY <2>2, <2>4, <2>5
<1>3. PICK f : IsFlat(f, L)
  <2>1. L \in Good
    <3>1. L \in 1..L
      <4> HIDE DEF L
      <4> QED BY <1>1
    <3> HIDE DEF Good, L
    <3> QED BY <1>2, <3>1
  <2>2. \E f : IsFlat(f, L)
    BY <2>1
  <2> HIDE DEF IsFlat, L
  <2> QED BY <2>2
<1> DEFINE Def(h) == [i \in 1..L |-> IF i = 1 THEN s[i] ELSE h[i - 1] \o s[i]]
           g == CHOOSE h : h = Def(h)
<1>4. f = Def(f)
  BY <1>3
<1>5. g = Def(g)
  <2> HIDE DEF Def
  <2> QED BY <1>4
<1>6. FlattenSeq(s) = g[L]
  BY <1>1 DEF FlattenSeq
<1> HIDE DEF g
<1>7. \A i \in 1..L : g[i] = IF i = 1 THEN s[i] ELSE g[i - 1] \o s[i]
  BY <1>5
<1>8. \A i \in 1..L : g[i] \in Seq(S)
  <2> DEFINE Odd == {i \in 1..L : g[i] \notin Seq(S)}
  <2> SUFFICES ASSUME Odd # {} PROVE FALSE
    OBVIOUS
  <2>1. Min(Odd) \in Odd /\ \A x \in Odd : Min(Odd) <= x
    <3>1. Odd \in SUBSET Nat
      BY <1>1
    <3> HIDE DEF Odd
    <3> QED BY <3>1, MinOfNaturals
  <2> DEFINE n == Min(Odd)
  <2>2. n \in 1..L /\ g[n] \notin Seq(S)
    BY <2>1
  <2>3. n > 1 => g[n - 1] \in Seq(S)
    <3>1. n > 1 => n - 1 \in 1..L /\ n - 1 \notin Odd
      <4> HIDE DEF Odd
      <4> QED BY <1>1, <2>1, <2>2
    <3> HIDE DEF n
    <3> QED BY <3>1
  <2> HIDE DEF n, Odd
  <2>4. g[n] = IF n = 1 THEN s[n] ELSE g[n - 1] \o s[n]
    BY <1>7, <2>2
  <2> QED BY <1>1, <2>2, <2>3, <2>4
<1>9. g \in [1..L -> Seq(S)]
  BY <1>5, <1>8
<1> QED BY <1>6, <1>7, <1>9

\* What is flattened is made of the pieces' elements.
LEMMA FlattenTyped ==
  ASSUME NEW S, NEW s \in Seq(Seq(S))
  PROVE  FlattenSeq(s) \in Seq(S)
<1>1. CASE s = <<>>
  BY <1>1 DEF FlattenSeq
<1>2. CASE s # <<>>
  <2>1. Len(s) \in 1..Len(s)
    BY <1>2
  <2> QED BY <1>2, <2>1, Flattens
<1> QED BY <1>1, <1>2

\* One piece more.
LEMMA FlattenAppend ==
  ASSUME NEW S, NEW s \in Seq(Seq(S)), NEW e \in Seq(S)
  PROVE  FlattenSeq(s \o <<e>>) = FlattenSeq(s) \o e
<1> DEFINE L == Len(s)
           t == s \o <<e>>
<1>1. /\ L \in Nat /\ t \in Seq(Seq(S)) /\ t # <<>> /\ Len(t) = L + 1 /\ t[L + 1] = e
      /\ \A i \in 1..L : t[i] = s[i]
  <2>1. <<e>> \in Seq(Seq(S)) /\ Len(<<e>>) = 1
    OBVIOUS
  <2>2. t \in Seq(Seq(S)) /\ Len(t) = L + 1
    BY <2>1
  <2>3. t[L + 1] = e /\ \A i \in 1..L : t[i] = s[i]
    BY <2>1
  <2> QED BY <2>2, <2>3
<1> HIDE DEF t
<1>2. PICK g \in [1..L + 1 -> Seq(S)] :
        /\ FlattenSeq(t) = g[L + 1]
        /\ \A i \in 1..L + 1 : g[i] = IF i = 1 THEN t[i] ELSE g[i - 1] \o t[i]
  <2>1. \E g \in [1..Len(t) -> Seq(S)] :
          /\ FlattenSeq(t) = g[Len(t)]
          /\ \A i \in 1..Len(t) : g[i] = IF i = 1 THEN t[i] ELSE g[i - 1] \o t[i]
    BY <1>1, Flattens, Zenon
  <2> QED BY <1>1, <2>1, Zenon
<1>3. CASE s = <<>>
  <2>1. FlattenSeq(s) = <<>> /\ L = 0
    BY <1>3 DEF FlattenSeq
  <2>2. g[1] = e
    BY <1>1, <1>2, <2>1
  <2>3. <<>> \o e = e
    OBVIOUS
  <2> QED BY <1>2, <2>1, <2>2, <2>3 DEF t
<1>4. CASE s # <<>>
  <2>1. PICK f \in [1..L -> Seq(S)] :
          /\ FlattenSeq(s) = f[L]
          /\ \A i \in 1..L : f[i] = IF i = 1 THEN s[i] ELSE f[i - 1] \o s[i]
    BY <1>4, Flattens
  <2> DEFINE Odd == {i \in 1..L : f[i] # g[i]}
  <2>2. Odd = {}
    <3> SUFFICES ASSUME Odd # {} PROVE FALSE
      OBVIOUS
    <3>1. Min(Odd) \in Odd /\ \A x \in Odd : Min(Odd) <= x
      <4>1. Odd \in SUBSET Nat
        BY <1>1
      <4> HIDE DEF Odd
      <4> QED BY <4>1, MinOfNaturals
    <3> DEFINE n == Min(Odd)
    <3>2. n \in 1..L /\ f[n] # g[n]
      BY <3>1
    <3>3. n > 1 => f[n - 1] = g[n - 1]
      <4>1. n > 1 => n - 1 \in 1..L /\ n - 1 \notin Odd
        <5> HIDE DEF Odd
        <5> QED BY <1>1, <3>1, <3>2
      <4> HIDE DEF n
      <4> QED BY <4>1
    <3> HIDE DEF n, Odd
    <3>4. n \in 1..L + 1
      BY <1>1, <3>2
    <3>5. f[n] = IF n = 1 THEN s[n] ELSE f[n - 1] \o s[n]
      BY <2>1, <3>2
    <3>6. g[n] = IF n = 1 THEN t[n] ELSE g[n - 1] \o t[n]
      BY <1>2, <3>4
    <3>7. t[n] = s[n]
      BY <1>1, <3>2
    <3> QED BY <3>2, <3>3, <3>5, <3>6, <3>7
  <2>3. L \in 1..L /\ L + 1 \in 1..L + 1
    BY <1>1, <1>4
  <2>4. f[L] = g[L]
    BY <2>2, <2>3
  <2>5. g[L + 1] = g[L] \o e
    <3>1. PICK n \in 1..L + 1 : n = L + 1
      BY <2>3
    <3>2. g[n] = IF n = 1 THEN t[n] ELSE g[n - 1] \o t[n]
      BY <1>2
    <3>3. n # 1 /\ n - 1 = L /\ t[n] = e
      BY <1>1, <2>3, <3>1
    <3> HIDE DEF L
    <3> QED BY <3>1, <3>2, <3>3
  <2>6. FlattenSeq(t) = FlattenSeq(s) \o e
    BY <1>2, <2>1, <2>4, <2>5
  <2> QED BY <2>6 DEF t
<1> QED BY <1>3, <1>4

\* A text of messages whose texts are made of the members of S is made of them.
LEMMA JoinedTyped ==
  ASSUME NEW S, NEW M, \A m \in M : m.text \in Seq(S), NEW text \in Seq(M)
  PROVE  Joined(text) \in Seq(S)
<1>1. [i \in DOMAIN text |-> text[i].text] \in Seq(Seq(S))
  <2>1. DOMAIN text = 1..Len(text) /\ Len(text) \in Nat
    OBVIOUS
  <2>2. \A i \in 1..Len(text) : text[i].text \in Seq(S)
    OBVIOUS
  <2> QED BY <2>1, <2>2
<1> QED BY <1>1, FlattenTyped DEF Joined

LEMMA JoinedNothing == Joined(<<>>) = <<>>
  BY DEF Joined, FlattenSeq

\* One message more.
LEMMA JoinedAppend ==
  ASSUME NEW S, NEW M, \A m \in M : m.text \in Seq(S), NEW text \in Seq(M), NEW m \in M
  PROVE  Joined(text \o <<m>>) = Joined(text) \o m.text
<1> DEFINE parts(x) == [i \in DOMAIN x |-> x[i].text]
<1>1. /\ DOMAIN text = 1..Len(text) /\ Len(text) \in Nat
      /\ \A i \in 1..Len(text) : text[i].text \in Seq(S)
      /\ m.text \in Seq(S)
  OBVIOUS
<1>2. parts(text) \in Seq(Seq(S)) /\ Len(parts(text)) = Len(text)
      /\ \A i \in 1..Len(text) : parts(text)[i] = text[i].text
  BY <1>1
<1>3. /\ DOMAIN (text \o <<m>>) = 1..Len(text) + 1
      /\ \A i \in 1..Len(text) : (text \o <<m>>)[i] = text[i]
      /\ (text \o <<m>>)[Len(text) + 1] = m
  <2>1. <<m>> \in Seq(M) /\ Len(<<m>>) = 1
    OBVIOUS
  <2>2. text \o <<m>> \in Seq(M) /\ Len(text \o <<m>>) = Len(text) + 1
    BY <2>1
  <2> QED BY <1>1, <2>2
<1>4. parts(text \o <<m>>) = parts(text) \o <<m.text>>
  <2> DEFINE a == parts(text \o <<m>>)
             p == parts(text)
             b == p \o <<m.text>>
  <2>1. <<m.text>> \in Seq(Seq(S)) /\ Len(<<m.text>>) = 1
    BY <1>1
  <2>2. /\ DOMAIN a = 1..Len(text) + 1
        /\ \A i \in 1..Len(text) : a[i] = text[i].text
        /\ a[Len(text) + 1] = m.text
    BY <1>1, <1>3
  <2>3. a = [i \in DOMAIN a |-> a[i]]
    OBVIOUS
  <2> HIDE DEF a, parts
  <2>4. /\ b \in Seq(Seq(S)) /\ DOMAIN b = 1..Len(text) + 1
        /\ \A i \in 1..Len(text) : b[i] = text[i].text
        /\ b[Len(text) + 1] = m.text
    BY <1>1, <1>2, <2>1
  <2> HIDE DEF b
  <2>5. b = [i \in DOMAIN b |-> b[i]]
    BY <2>4
  <2>6. \A i \in 1..Len(text) + 1 : a[i] = b[i]
    <3> SUFFICES ASSUME NEW i \in 1..Len(text) + 1 PROVE a[i] = b[i]
      OBVIOUS
    <3>1. i \in 1..Len(text) \/ i = Len(text) + 1
      BY <1>1
    <3>2. CASE i \in 1..Len(text)
      BY <2>2, <2>4, <3>2, Zenon
    <3>3. CASE i = Len(text) + 1
      BY <2>2, <2>4, <3>3, Zenon
    <3> QED BY <3>1, <3>2, <3>3
  <2>7. a = b
    BY <2>2, <2>3, <2>4, <2>5, <2>6
  <2> QED BY <2>7 DEF a, b
<1>5. FlattenSeq(parts(text) \o <<m.text>>) = FlattenSeq(parts(text)) \o m.text
  BY <1>1, <1>2, FlattenAppend
<1> QED BY <1>4, <1>5 DEF Joined

\* Of finitely many scores one is the largest.
LEMMA BestOfSix ==
  ASSUME NEW f \in [1..6 -> Nat]
  PROVE  \E i \in 1..6 : \A j \in 1..6 : f[j] <= f[i]
<1>1. /\ f[1] \in Nat /\ f[2] \in Nat /\ f[3] \in Nat
      /\ f[4] \in Nat /\ f[5] \in Nat /\ f[6] \in Nat
  OBVIOUS
<1>2. \A j \in 1..6 : j = 1 \/ j = 2 \/ j = 3 \/ j = 4 \/ j = 5 \/ j = 6
  OBVIOUS
<1>3. PICK i \in 1..6 : f[1] <= f[i] /\ f[2] <= f[i] /\ f[3] <= f[i]
                     /\ f[4] <= f[i] /\ f[5] <= f[i] /\ f[6] <= f[i]
  <2>1. PICK p \in 1..3 : f[1] <= f[p] /\ f[2] <= f[p] /\ f[3] <= f[p]
    BY <1>1
  <2>2. PICK q \in 4..6 : f[4] <= f[q] /\ f[5] <= f[q] /\ f[6] <= f[q]
    BY <1>1
  <2>3. f[p] \in Nat /\ f[q] \in Nat
    OBVIOUS
  <2>4. CASE f[p] <= f[q]
    BY <1>1, <2>2, <2>1, <2>3, <2>4
  <2>5. CASE f[q] <= f[p]
    BY <1>1, <2>2, <2>1, <2>3, <2>5
  <2> QED BY <2>3, <2>4, <2>5
<1> QED BY <1>2, <1>3

\* One of four numbers is the largest.
LEMMA BestOfFour ==
  ASSUME NEW f \in [1..4 -> Nat]
  PROVE  \E i \in 1..4 : \A j \in 1..4 : f[j] <= f[i]
<1>1. f[1] \in Nat /\ f[2] \in Nat /\ f[3] \in Nat /\ f[4] \in Nat
  OBVIOUS
<1>2. PICK i \in 1..4 : f[1] <= f[i] /\ f[2] <= f[i] /\ f[3] <= f[i] /\ f[4] <= f[i]
  BY <1>1
<1> QED BY <1>2

\* The skills, by name.
LEMMA SkillTable ==
  Skill =
    {"vehicle_selection", "trade_in", "credit_leasing", "test_drive_booking", "order_status",
     "documentation_support", "customer_faq", "support_escalation", "warranty_consultation",
     "service_booking", "maintenance_consultation", "service_escalation", "internal_knowledge",
     "sales_coaching", "process_lookup", "manager_escalation", "competitor_research",
     "document_processing"}
BY DEF Skill, Keywords

\* Any six things are a finite set.
LEMMA SixAreFinite ==
  ASSUME NEW a, NEW b, NEW c, NEW d, NEW e, NEW f
  PROVE  IsFiniteSet({a, b, c, d, e, f})
<1>1. /\ IsFiniteSet({a}) /\ IsFiniteSet({b}) /\ IsFiniteSet({c})
      /\ IsFiniteSet({d}) /\ IsFiniteSet({e}) /\ IsFiniteSet({f})
  BY FS_Singleton
<1>2. IsFiniteSet({a} \cup {b})
  BY <1>1, FS_Union
<1>3. IsFiniteSet({a} \cup {b} \cup {c})
  BY <1>1, <1>2, FS_Union
<1>4. IsFiniteSet({a} \cup {b} \cup {c} \cup {d})
  BY <1>1, <1>3, FS_Union
<1>5. IsFiniteSet({a} \cup {b} \cup {c} \cup {d} \cup {e})
  BY <1>1, <1>4, FS_Union
<1>6. IsFiniteSet({a} \cup {b} \cup {c} \cup {d} \cup {e} \cup {f})
  BY <1>1, <1>5, FS_Union
<1>7. {a, b, c, d, e, f} = {a} \cup {b} \cup {c} \cup {d} \cup {e} \cup {f}
  OBVIOUS
<1> QED BY <1>6, <1>7

\* No skill has more than six keywords (of those told apart), so the number of
\* them in a text is a number.
LEMMA ScoreTyped ==
  ASSUME NEW skill \in Skill, NEW text
  PROVE  MatchScore(skill, text) \in Nat
<1>1. \E a, b, c, d, e, f : Keywords[skill] \subseteq {a, b, c, d, e, f}
  <2>1. CASE skill = "vehicle_selection"
    BY <2>1 DEF Keywords
  <2>2. CASE skill = "trade_in"
    BY <2>2 DEF Keywords
  <2>3. CASE skill = "credit_leasing"
    BY <2>3 DEF Keywords
  <2>4. CASE skill = "test_drive_booking"
    BY <2>4 DEF Keywords
  <2>5. CASE skill = "order_status"
    BY <2>5 DEF Keywords
  <2>6. CASE skill = "documentation_support"
    BY <2>6 DEF Keywords
  <2>7. CASE skill = "customer_faq"
    BY <2>7 DEF Keywords
  <2>8. CASE skill = "support_escalation"
    BY <2>8 DEF Keywords
  <2>9. CASE skill = "warranty_consultation"
    BY <2>9 DEF Keywords
  <2>10. CASE skill = "service_booking"
    BY <2>10 DEF Keywords
  <2>11. CASE skill = "maintenance_consultation"
    BY <2>11 DEF Keywords
  <2>12. CASE skill = "service_escalation"
    BY <2>12 DEF Keywords
  <2>13. CASE skill = "internal_knowledge"
    BY <2>13 DEF Keywords
  <2>14. CASE skill = "sales_coaching"
    BY <2>14 DEF Keywords
  <2>15. CASE skill = "process_lookup"
    BY <2>15 DEF Keywords
  <2>16. CASE skill = "manager_escalation"
    BY <2>16 DEF Keywords
  <2>17. CASE skill = "competitor_research"
    BY <2>17 DEF Keywords
  <2>18. CASE skill = "document_processing"
    BY <2>18 DEF Keywords
  <2> QED BY <2>1, <2>2, <2>3, <2>4, <2>5, <2>6, <2>7, <2>8, <2>9, <2>10, <2>11, <2>12, <2>13, <2>14, <2>15, <2>16, <2>17, <2>18,
          SkillTable
<1>2. IsFiniteSet(Keywords[skill])
  BY <1>1, SixAreFinite, FS_Subset
<1>3. IsFiniteSet(Keywords[skill] \cap WordsOf(text))
  BY <1>2, FS_Subset
<1> QED BY <1>3, FS_CardinalityType DEF MatchScore

\* Each agent has skills of its own, and one of them has the most keywords in a text.
LEMMA BestSkillTyped ==
  ASSUME NEW agent \in Agent, NEW text
  PROVE  BestSkill(agent, text) \in ToSet(SkillsOf[agent])
<1> DEFINE skills == SkillsOf[agent]
           I == {i \in 1..Len(skills) : \A t \in ToSet(skills) :
                                          MatchScore(t, text) <= MatchScore(skills[i], text)}
           f == [i \in 1..Len(skills) |-> MatchScore(skills[i], text)]
<1>1. /\ Len(skills) \in {4, 6}
      /\ DOMAIN skills = 1..Len(skills)
      /\ \A i \in 1..Len(skills) : skills[i] \in Skill
  <2>1. CASE agent = "SALES_AGENT"
    BY <2>1, SkillTable DEF SkillsOf
  <2>2. CASE agent = "SUPPORT_AGENT"
    BY <2>2, SkillTable DEF SkillsOf
  <2>3. CASE agent = "SERVICE_AGENT"
    BY <2>3, SkillTable DEF SkillsOf
  <2>4. CASE agent = "EMPLOYEE_AGENT"
    BY <2>4, SkillTable DEF SkillsOf
  <2> QED BY <2>1, <2>2, <2>3, <2>4 DEF Agent
<1> HIDE DEF skills
<1>2. f \in [1..Len(skills) -> Nat]
  BY <1>1, ScoreTyped
<1>3. PICK i \in 1..Len(skills) : \A j \in 1..Len(skills) : f[j] <= f[i]
  <2> HIDE DEF f
  <2>1. CASE Len(skills) = 4
    BY <1>2, <2>1, BestOfFour
  <2>2. CASE Len(skills) = 6
    BY <1>2, <2>2, BestOfSix
  <2> QED BY <1>1, <2>1, <2>2
<1>4. \A t \in ToSet(skills) : MatchScore(t, text) <= MatchScore(skills[i], text)
  BY <1>1, <1>3 DEF ToSet
<1>5. i \in I
  BY <1>4
<1>6. Min(I) \in I
  <2>1. I \in SUBSET Nat
    BY <1>1
  <2> HIDE DEF I
  <2> QED BY <1>5, <2>1, MinOfNaturals
<1>7. BestSkill(agent, text) = skills[Min(I)]
  BY <1>5 DEF BestSkill, SelectInSeq, skills
<1> QED BY <1>1, <1>6, <1>7 DEF ToSet, skills

\* An agent runs a skill of its own.
LEMMA SelectTyped ==
  ASSUME NEW agent \in Agent, NEW message, NEW text
  PROVE  Select(agent, message, text) \in ToSet(SkillsOf[agent])
<1>1. DefaultSkill[agent] \in ToSet(SkillsOf[agent])
  <2>1. CASE agent = "SALES_AGENT"
    BY <2>1 DEF SkillsOf, DefaultSkill, ToSet
  <2>2. CASE agent = "SUPPORT_AGENT"
    BY <2>2 DEF SkillsOf, DefaultSkill, ToSet
  <2>3. CASE agent = "SERVICE_AGENT"
    BY <2>3 DEF SkillsOf, DefaultSkill, ToSet
  <2>4. CASE agent = "EMPLOYEE_AGENT"
    BY <2>4 DEF SkillsOf, DefaultSkill, ToSet
  <2> QED BY <2>1, <2>2, <2>3, <2>4 DEF Agent
<1> QED BY <1>1, BestSkillTyped DEF Select

------------------------------------------------------------------------------
(* What the skills return *)

\* What a skill may read off a text.
FieldsOf(text) ==
  [name : {<<>>, CustomerName(text)}, phone : {<<>>, Phone(text)},
   lead : {FALSE, LeadRequested(text)},
   vehicle : {None, Vehicle(text)} \cup {model.name : model \in Catalog}]

\* The expressions match parts of a text.
LEMMA MatchesAreParts ==
  ASSUME NEW S, NEW t \in Seq(S)
  PROVE  /\ \A i \in Telephones(t) : TelephoneAt(t, i) \in Seq(S)
         /\ \A i \in Introduced(t) : NameAt(t, i) \in Seq(S)
<1>1. Len(t) \in Nat /\ DOMAIN t = 1..Len(t)
  OBVIOUS
<1>2. ASSUME NEW i \in Telephones(t) PROVE TelephoneAt(t, i) \in Seq(S)
  <2> DEFINE j == CHOOSE k \in i..Len(t) : IsRun(t, i, k)
             f == IF i > 1 /\ t[i - 1] = "+" THEN i - 1 ELSE i
  <2>1. i \in 1..Len(t) /\ \E k \in i..Len(t) : IsRun(t, i, k)
    BY <1>1 DEF Telephones
  <2>2. j \in i..Len(t)
    <3> HIDE DEF j
    <3> QED BY <2>1 DEF j
  <2>3. f \in 1..Len(t) /\ f <= i
    BY <1>1, <2>1
  <2> HIDE DEF j, f
  <2>4. SubSeq(t, f, j) \in Seq(S)
    BY <1>1, <2>2, <2>3, SubSeqProperties
  <2> QED BY <2>4 DEF TelephoneAt, j, f
<1>3. ASSUME NEW i \in Introduced(t) PROVE NameAt(t, i) \in Seq(S)
  <2> DEFINE J == {j \in i..Len(t) : j <= i + 2 /\ \A k \in i..j : t[k] \in Word}
  <2>1. i \in 1..Len(t) /\ t[i] \in Word
    BY <1>1 DEF Introduced
  <2>2. i \in J
    BY <1>1, <2>1
  <2>3. J \in SUBSET (1..Len(t))
    BY <1>1, <2>1
  <2>4. Max(J) \in 1..Len(t)
    <3> HIDE DEF J
    <3> QED BY <1>1, <2>2, <2>3, MaxOfNaturals
  <2> HIDE DEF J
  <2>5. SubSeq(t, i, Max(J)) \in Seq(S)
    BY <1>1, <2>1, <2>4, SubSeqProperties
  <2> QED BY <2>5 DEF NameAt, J
<1> QED BY <1>2, <1>3

\* A telephone is made of numbers and a plus, a name of words, and neither is empty.
LEMMA MatchesOfTokens ==
  ASSUME NEW S, NEW t \in Seq(S)
  PROVE  /\ \A i \in Telephones(t) : TelephoneAt(t, i) \in Seq(Number \cup {"+"}) \ {<<>>}
         /\ \A i \in Introduced(t) : NameAt(t, i) \in Seq(Word) \ {<<>>}
<1>1. Len(t) \in Nat /\ DOMAIN t = 1..Len(t)
  OBVIOUS
<1>2. ASSUME NEW i \in Telephones(t)
      PROVE  TelephoneAt(t, i) \in Seq(Number \cup {"+"}) \ {<<>>}
  <2> DEFINE j == CHOOSE k \in i..Len(t) : IsRun(t, i, k)
             f == IF i > 1 /\ t[i - 1] = "+" THEN i - 1 ELSE i
  <2>1. i \in 1..Len(t) /\ \E k \in i..Len(t) : IsRun(t, i, k)
    BY <1>1 DEF Telephones
  <2>2. j \in i..Len(t) /\ IsRun(t, i, j)
    <3> HIDE DEF j
    <3> QED BY <2>1 DEF j
  <2>3. f \in {i - 1, i} /\ (f = i - 1 => t[f] = "+")
    BY <1>1, <2>1
  <2> HIDE DEF j, f
  <2>4. \A k \in f..j : t[k] \in Number \cup {"+"}
    BY <1>1, <2>1, <2>2, <2>3 DEF IsRun
  <2>5. /\ SubSeq(t, f, j) \in Seq(Number \cup {"+"})
        /\ Len(SubSeq(t, f, j)) = IF f <= j THEN j - f + 1 ELSE 0
    BY <1>1, <2>1, <2>2, <2>3, <2>4, SubSeqProperties
  <2>6. f <= j /\ j - f + 1 # 0
    BY <1>1, <2>1, <2>2, <2>3
  <2>7. SubSeq(t, f, j) # <<>>
    BY <2>5, <2>6
  <2> QED BY <2>5, <2>7 DEF TelephoneAt, j, f
<1>3. ASSUME NEW i \in Introduced(t) PROVE NameAt(t, i) \in Seq(Word) \ {<<>>}
  <2> DEFINE J == {j \in i..Len(t) : j <= i + 2 /\ \A k \in i..j : t[k] \in Word}
  <2>1. i \in 1..Len(t) /\ t[i] \in Word
    BY <1>1 DEF Introduced
  <2>2. i \in J
    BY <1>1, <2>1
  <2>3. J \in SUBSET (1..Len(t))
    BY <1>1, <2>1
  <2>4. Max(J) \in J
    <3> HIDE DEF J
    <3> QED BY <1>1, <2>2, <2>3, MaxOfNaturals
  <2>5. Max(J) \in i..Len(t) /\ \A k \in i..Max(J) : t[k] \in Word
    BY <2>4
  <2> HIDE DEF J
  <2> DEFINE j == Max(J)
  <2>6. j \in Nat /\ i <= j /\ j - i + 1 # 0
    BY <1>1, <2>1, <2>5
  <2> HIDE DEF j
  <2>7. /\ SubSeq(t, i, j) \in Seq(Word)
        /\ Len(SubSeq(t, i, j)) = IF i <= j THEN j - i + 1 ELSE 0
    BY <2>1, <2>5, <2>6, SubSeqProperties DEF j
  <2>8. SubSeq(t, i, j) # <<>>
    BY <2>6, <2>7
  <2> QED BY <2>7, <2>8 DEF NameAt, J, j
<1> QED BY <1>2, <1>3

\* So is what is read off a text, unless it is nothing.
LEMMA ContactsOfTokens ==
  ASSUME NEW S, NEW M, \A m \in M : m.text \in Seq(S), NEW text \in Seq(M)
  PROVE  Phone(text) \in Seq(Number \cup {"+"}) /\ CustomerName(text) \in Seq(Word)
<1> DEFINE t == Joined(text)
<1>1. t \in Seq(S)
  BY JoinedTyped
<1> HIDE DEF t
<1>2. DOMAIN t \in SUBSET Nat
  BY <1>1
<1>3. /\ Telephones(t) \in SUBSET Nat /\ Introduced(t) \in SUBSET Nat
      /\ Mentioned(t) \in SUBSET Nat /\ \A i \in Mentioned(t) : t[i] \in Word
  <2>1. Telephones(t) \subseteq DOMAIN t /\ Introduced(t) \subseteq DOMAIN t
    BY Zenon DEF Telephones, Introduced
  <2>2. Mentioned(t) \subseteq DOMAIN t /\ \A i \in Mentioned(t) : t[i] \in Word
    BY Zenon DEF Mentioned
  <2> QED BY <1>2, <2>1, <2>2
<1>4. /\ Telephones(t) # {} => Min(Telephones(t)) \in Telephones(t)
      /\ Introduced(t) # {} => Min(Introduced(t)) \in Introduced(t)
      /\ Mentioned(t) # {} => Min(Mentioned(t)) \in Mentioned(t)
  BY <1>3, MinOfNaturals
<1>5. <<>> \in Seq(Word) /\ <<>> \in Seq(Number \cup {"+"})
  OBVIOUS
<1>6. \A w \in Word : <<w>> \in Seq(Word)
  OBVIOUS
<1>7. Phone(text) \in Seq(Number \cup {"+"})
  BY <1>1, <1>4, <1>5, MatchesOfTokens DEF Phone, t
<1>8. CustomerName(text) \in Seq(Word)
  BY <1>1, <1>3, <1>4, <1>5, <1>6, MatchesOfTokens DEF CustomerName, t
<1> QED BY <1>7, <1>8

\* What is read off a text consists of the tokens of its messages, in their order,
\* or is nothing.
LEMMA FieldsAreSaid ==
  ASSUME NEW S, NEW M, \A m \in M : m.text \in Seq(S), NEW text \in Seq(M)
  PROVE  /\ Phone(text) \in Seq(S)
         /\ CustomerName(text) \in Seq(S)
         /\ Vehicle(text) \in {None} \cup NovaModel
<1> DEFINE t == Joined(text)
<1>1. t \in Seq(S)
  BY JoinedTyped
<1> HIDE DEF t
<1>2. Len(t) \in Nat /\ DOMAIN t = 1..Len(t) /\ \A i \in 1..Len(t) : t[i] \in S
  BY <1>1
<1>3. Phone(text) \in Seq(S)
  <2>1. Telephones(t) \in SUBSET Nat
    <3>1. \A i \in DOMAIN t : i \in Nat
      BY <1>2
    <3>2. Telephones(t) \subseteq DOMAIN t
      BY Zenon DEF Telephones
    <3> QED BY <3>1, <3>2
  <2>2. Telephones(t) # {} => Min(Telephones(t)) \in Telephones(t)
    BY <2>1, MinOfNaturals
  <2>3. <<>> \in Seq(S)
    OBVIOUS
  <2> QED BY <1>1, <2>2, <2>3, MatchesAreParts DEF Phone, t
<1>4. CustomerName(text) \in Seq(S)
  <2>1. Introduced(t) \in SUBSET Nat /\ Mentioned(t) \in SUBSET (1..Len(t)) /\ Mentioned(t) \in SUBSET Nat
    <3>1. Introduced(t) \subseteq DOMAIN t /\ Mentioned(t) \subseteq DOMAIN t
      BY Zenon DEF Introduced, Mentioned
    <3>2. DOMAIN t = 1..Len(t) /\ \A i \in DOMAIN t : i \in Nat
      BY <1>2
    <3> QED BY <3>1, <3>2
  <2>2. Introduced(t) # {} => Min(Introduced(t)) \in Introduced(t)
    BY <2>1, MinOfNaturals
  <2>3. Mentioned(t) # {} => Min(Mentioned(t)) \in 1..Len(t)
    BY <2>1, MinOfNaturals
  <2>4. Mentioned(t) # {} => <<t[Min(Mentioned(t))]>> \in Seq(S)
    BY <1>2, <2>3
  <2>5. <<>> \in Seq(S)
    OBVIOUS
  <2> QED BY <1>1, <2>2, <2>4, <2>5, MatchesAreParts DEF CustomerName, t
<1>5. Vehicle(text) \in {None} \cup NovaModel
  <2> DEFINE named == {i \in 2..Len(t) : t[i - 1] = "nova" /\ t[i] \in NovaModel}
  <2>1. named \in SUBSET Nat /\ \A i \in named : t[i] \in NovaModel
    BY <1>2
  <2>2. named # {} => Min(named) \in named
    <3> HIDE DEF named
    <3> QED BY <2>1, MinOfNaturals
  <2>3. Vehicle(text) = IF named = {} THEN None ELSE t[Min(named)]
    BY DEF Vehicle, t
  <2> HIDE DEF named
  <2> QED BY <2>1, <2>2, <2>3
<1> QED BY <1>3, <1>4, <1>5

\* So are the fields a skill collects.
LEMMA FieldsAreParts ==
  ASSUME NEW T, NEW M, \A m \in M : m.text \in Seq(T), NEW text \in Seq(M)
  PROVE  /\ FieldsOf(text) \subseteq FieldsFrom(M)
         /\ \A fields \in FieldsOf(text) :
              fields.phone \in Seq(Number \cup {"+"}) /\ fields.name \in Seq(Word)
<1> DEFINE S == Pieces(M)
<1>1. ASSUME NEW m \in M PROVE m.text \in Seq(S)
  <2>1. m.text \in Seq(T)
    OBVIOUS
  <2>2. m.text \in [1..Len(m.text) -> T] /\ Len(m.text) \in Nat
    BY <2>1
  <2>3. ToSet(m.text) \subseteq S
    BY DEF Pieces
  <2>4. \A i \in 1..Len(m.text) : m.text[i] \in ToSet(m.text)
    BY <2>2 DEF ToSet
  <2> HIDE DEF S
  <2>5. m.text \in [1..Len(m.text) -> S]
    BY <2>2, <2>3, <2>4
  <2> QED BY <2>2, <2>5
<1> HIDE DEF S
<1>2. /\ Phone(text) \in Seq(S) /\ CustomerName(text) \in Seq(S)
      /\ Vehicle(text) \in {None} \cup NovaModel
  BY <1>1, FieldsAreSaid
<1>3. <<>> \in Seq(S)
  OBVIOUS
<1>4. LeadRequested(text) \in BOOLEAN
  BY DEF LeadRequested
<1>5. /\ Phone(text) \in Seq(Number \cup {"+"}) /\ CustomerName(text) \in Seq(Word)
      /\ <<>> \in Seq(Number \cup {"+"}) /\ <<>> \in Seq(Word)
  BY ContactsOfTokens
<1>6. \A fields \in FieldsOf(text) :
        fields.phone \in Seq(Number \cup {"+"}) /\ fields.name \in Seq(Word)
  BY <1>5 DEF FieldsOf
<1> QED BY <1>2, <1>3, <1>4, <1>6 DEF FieldsOf, FieldsFrom, S

\* A draft of an answer that cites some of these documents.
Target == Specialist \cup {None}
DraftFrom(text, cites) ==
  [skill : Skill, target : Target, fields : FieldsOf(text), cites : SUBSET cites]

\* Each form of collected fields is read off the text.
LEMMA FieldsTyped ==
  ASSUME NEW text, NEW utterance
  PROVE  /\ NoFields \in FieldsOf(text)
         /\ Contact(text) \in FieldsOf(text)
         /\ [NoFields EXCEPT !.vehicle = Vehicle(text)] \in FieldsOf(text)
         /\ SelectionFields(utterance, text) \in FieldsOf(text)
<1>1. NoFields \in FieldsOf(text)
  BY DEF NoFields, FieldsOf
<1>2. Contact(text) \in FieldsOf(text)
  BY DEF NoFields, FieldsOf, Contact
<1>3. [NoFields EXCEPT !.vehicle = Vehicle(text)] \in FieldsOf(text)
  BY DEF NoFields, FieldsOf
<1>4. SelectionFields(utterance, text) \in FieldsOf(text)
  <2> DEFINE body   == BodyType(text)
             budget == Budget(text)
             fits   == {model \in Catalog : ModelMatches(model, body, budget)}
             asked  == body # None \/ budget # 0
             single == asked /\ Cardinality(fits) = 1
             vehicle == IF single THEN (CHOOSE model \in fits : TRUE).name ELSE Vehicle(text)
  <2>1. single => fits # {}
    <3> HIDE DEF fits
    <3> QED BY FS_EmptySet
  <2>2. single => (CHOOSE model \in fits : TRUE) \in Catalog
    <3>1. fits \subseteq Catalog
      OBVIOUS
    <3> HIDE DEF fits
    <3> QED BY <2>1, <3>1
  <2>3. vehicle \in {None, Vehicle(text)} \cup {model.name : model \in Catalog}
    <3> HIDE DEF single, fits
    <3> QED BY <2>2
  <2>4. SelectionFields(utterance, text) =
          IF asked \/ LooksLikeVehicleQuery(utterance)
          THEN [name |-> CustomerName(text), phone |-> Phone(text), lead |-> LeadRequested(text),
                vehicle |-> vehicle]
          ELSE NoFields
    BY DEF SelectionFields
  <2> HIDE DEF vehicle, asked
  <2>5. [name |-> CustomerName(text), phone |-> Phone(text), lead |-> LeadRequested(text),
         vehicle |-> vehicle] \in FieldsOf(text)
    BY <2>3 DEF FieldsOf
  <2> QED BY <1>1, <2>4, <2>5
<1> QED BY <1>1, <1>2, <1>3, <1>4

\* A quotation cites what was retrieved.
LEMMA QuoteTyped ==
  ASSUME NEW text, NEW chunks, NEW skill \in Skill, NEW limit, NEW prefer,
         NEW target \in Target, NEW fields \in FieldsOf(text)
  PROVE  Quote(chunks, skill, limit, prefer, target, fields) \subseteq DraftFrom(text, chunks)
<1> SUFFICES ASSUME NEW picked \in Picks(chunks, skill, limit, prefer)
             PROVE  SkillResult(skill, target, fields, picked) \in DraftFrom(text, chunks)
  BY DEF Quote
<1>1. picked \subseteq chunks
  BY DEF Picks
<1> QED BY <1>1 DEF SkillResult, DraftFrom
\* The documents the selection of a vehicle names by their ids, retrieved or not.
VehicleDocuments(utterance) ==
  (IF OffCatalog(utterance) THEN {"conversation-parts"}
   ELSE {"sales-purchase-conditions", "sales-models"}) \cap Document

\* The selection of a vehicle cites the catalogue or nothing, with fields of the text.
LEMMA VehicleSelectionTyped ==
  ASSUME NEW message, NEW text, NEW chunks \in SUBSET Document
  PROVE  VehicleSelection(message, text, chunks)
           \subseteq DraftFrom(text, chunks \cup VehicleDocuments(Last(message)))
<1> DEFINE utterance == Last(message)
           named     == VehicleDocuments(utterance)
           inCatalog == \/ "sales-models" \in chunks
                        \/ LooksLikeVehicleQuery(utterance) /\ "sales-models" \in Document
<1> SUFFICES ASSUME NEW r \in VehicleSelection(message, text, chunks)
             PROVE  r \in DraftFrom(text, chunks \cup named)
  OBVIOUS
<1>1. /\ NoFields \in FieldsOf(text)
      /\ SelectionFields(utterance, text) \in FieldsOf(text)
  BY FieldsTyped
<1>2. \A target \in Target, fields \in FieldsOf(text), cites \in SUBSET (chunks \cup named) :
        SkillResult("vehicle_selection", target, fields, cites) \in DraftFrom(text, chunks \cup named)
  <2>1. "vehicle_selection" \in Skill
    BY SkillTable
  <2> HIDE DEF named
  <2> QED BY <2>1 DEF SkillResult, DraftFrom
<1>3. None \in Target /\ "sales_manager" \in Target /\ "vehicle_selection" \in Skill
  BY SkillTable DEF Target, Specialist
<1>4. CASE OffCatalog(utterance)
  <2>1. r = SkillResult("vehicle_selection", None, NoFields, {"conversation-parts"} \cap Document)
    BY <1>4 DEF VehicleSelection
  <2>2. {"conversation-parts"} \cap Document \subseteq named
    BY <1>4 DEF VehicleDocuments
  <2> HIDE DEF named
  <2> QED BY <1>1, <1>2, <1>3, <2>1, <2>2
<1>5. CASE ~OffCatalog(utterance) /\ "terms of purchase" \in utterance.says
  <2>1. CASE "sales-purchase-conditions" \in Document
    <3>1. r = SkillResult("vehicle_selection", None, NoFields,
                          {"sales-purchase-conditions"} \cap Document)
      BY <1>5, <2>1 DEF VehicleSelection
    <3>2. {"sales-purchase-conditions"} \cap Document \subseteq named
      BY <1>5 DEF VehicleDocuments
    <3> HIDE DEF named
    <3> QED BY <1>1, <1>2, <1>3, <3>1, <3>2
  <2>2. CASE "sales-purchase-conditions" \notin Document
    <3>1. r = SkillResult("vehicle_selection", "sales_manager", NoFields, {})
      BY <1>5, <2>2 DEF VehicleSelection
    <3> HIDE DEF named
    <3> QED BY <1>1, <1>2, <1>3, <3>1
  <2> QED BY <2>1, <2>2
<1>6. CASE ~OffCatalog(utterance) /\ "terms of purchase" \notin utterance.says /\ inCatalog
  <2>1. r = SkillResult("vehicle_selection", None, SelectionFields(utterance, text), {"sales-models"})
    BY <1>6 DEF VehicleSelection
  <2>2. {"sales-models"} \subseteq named
    BY <1>6 DEF VehicleDocuments
  <2> HIDE DEF named
  <2> QED BY <1>1, <1>2, <1>3, <2>1, <2>2
<1>7. CASE ~OffCatalog(utterance) /\ "terms of purchase" \notin utterance.says /\ ~inCatalog
  <2>1. r \in Quote(chunks, "vehicle_selection", 2, <<"sales-models">>, None, NoFields)
    BY <1>7 DEF VehicleSelection
  <2>2. r \in DraftFrom(text, chunks)
    BY <1>1, <1>3, <2>1, QuoteTyped
  <2> QED BY <2>2 DEF DraftFrom
<1> QED BY <1>4, <1>5, <1>6, <1>7

\* The skills that quote what was retrieved.
LEMMA QuotationsTyped ==
  ASSUME NEW message, NEW text, NEW chunks
  PROVE  /\ TradeIn(message, text, chunks) \subseteq DraftFrom(text, chunks)
         /\ CreditLeasing(message, text, chunks) \subseteq DraftFrom(text, chunks)
         /\ TestDriveBooking(message, text, chunks) \subseteq DraftFrom(text, chunks)
         /\ OrderStatus(message, text, chunks) \subseteq DraftFrom(text, chunks)
         /\ DocumentationSupport(message, text, chunks) \subseteq DraftFrom(text, chunks)
         /\ CustomerFaq(message, text, chunks) \subseteq DraftFrom(text, chunks)
         /\ WarrantyConsultation(message, text, chunks) \subseteq DraftFrom(text, chunks)
         /\ ServiceBooking(message, text, chunks) \subseteq DraftFrom(text, chunks)
         /\ MaintenanceConsultation(message, text, chunks) \subseteq DraftFrom(text, chunks)
         /\ InternalKnowledge(message, text, chunks) \subseteq DraftFrom(text, chunks)
         /\ SalesCoaching(message, text, chunks) \subseteq DraftFrom(text, chunks)
         /\ ProcessLookup(message, text, chunks) \subseteq DraftFrom(text, chunks)
<1>1. /\ NoFields \in FieldsOf(text) /\ Contact(text) \in FieldsOf(text)
      /\ [NoFields EXCEPT !.vehicle = Vehicle(text)] \in FieldsOf(text)
  BY FieldsTyped
<1>2. TradeIn(message, text, chunks) \subseteq DraftFrom(text, chunks)
  <2>1. "trade_in" \in Skill /\ None \in Target
    BY SkillTable DEF Target, Specialist
  <2> QED BY <1>1, <2>1, QuoteTyped DEF TradeIn
<1>3. CreditLeasing(message, text, chunks) \subseteq DraftFrom(text, chunks)
  <2>1. "credit_leasing" \in Skill /\ None \in Target /\ "finance_specialist" \in Target
    BY SkillTable DEF Target, Specialist
  <2> QED BY <1>1, <2>1, QuoteTyped DEF CreditLeasing
<1>4. TestDriveBooking(message, text, chunks) \subseteq DraftFrom(text, chunks)
  <2>1. "test_drive_booking" \in Skill /\ None \in Target /\ "sales_manager" \in Target
    BY SkillTable DEF Target, Specialist
  <2> QED BY <1>1, <2>1, QuoteTyped DEF TestDriveBooking
<1>5. OrderStatus(message, text, chunks) \subseteq DraftFrom(text, chunks)
  <2>1. "order_status" \in Skill /\ None \in Target /\ "support_specialist" \in Target
    BY SkillTable DEF Target, Specialist
  <2> QED BY <1>1, <2>1, QuoteTyped DEF OrderStatus
<1>6. DocumentationSupport(message, text, chunks) \subseteq DraftFrom(text, chunks)
  <2>1. "documentation_support" \in Skill /\ None \in Target
    BY SkillTable DEF Target, Specialist
  <2> QED BY <1>1, <2>1, QuoteTyped DEF DocumentationSupport
<1>7. CustomerFaq(message, text, chunks) \subseteq DraftFrom(text, chunks)
  <2>1. "customer_faq" \in Skill /\ None \in Target
    BY SkillTable DEF Target, Specialist
  <2> QED BY <1>1, <2>1, QuoteTyped DEF CustomerFaq
<1>8. WarrantyConsultation(message, text, chunks) \subseteq DraftFrom(text, chunks)
  <2>1. "warranty_consultation" \in Skill /\ None \in Target /\ "service_engineer" \in Target
    BY SkillTable DEF Target, Specialist
  <2> QED BY <1>1, <2>1, QuoteTyped DEF WarrantyConsultation
<1>9. ServiceBooking(message, text, chunks) \subseteq DraftFrom(text, chunks)
  <2>1. "service_booking" \in Skill /\ None \in Target /\ "service_advisor" \in Target
    BY SkillTable DEF Target, Specialist
  <2> QED BY <1>1, <2>1, QuoteTyped DEF ServiceBooking
<1>10. MaintenanceConsultation(message, text, chunks) \subseteq DraftFrom(text, chunks)
  <2>1. "maintenance_consultation" \in Skill /\ None \in Target
    BY SkillTable DEF Target, Specialist
  <2> QED BY <1>1, <2>1, QuoteTyped DEF MaintenanceConsultation
<1>11. InternalKnowledge(message, text, chunks) \subseteq DraftFrom(text, chunks)
  <2>1. "internal_knowledge" \in Skill /\ None \in Target
    BY SkillTable DEF Target, Specialist
  <2> QED BY <1>1, <2>1, QuoteTyped DEF InternalKnowledge
<1>12. SalesCoaching(message, text, chunks) \subseteq DraftFrom(text, chunks)
  <2>1. "sales_coaching" \in Skill /\ None \in Target
    BY SkillTable DEF Target, Specialist
  <2> QED BY <1>1, <2>1, QuoteTyped DEF SalesCoaching
<1>13. ProcessLookup(message, text, chunks) \subseteq DraftFrom(text, chunks)
  <2>1. "process_lookup" \in Skill /\ None \in Target
    BY SkillTable DEF Target, Specialist
  <2> QED BY <1>1, <2>1, QuoteTyped DEF ProcessLookup
<1> QED BY <1>2, <1>3, <1>4, <1>5, <1>6, <1>7, <1>8, <1>9, <1>10, <1>11, <1>12, <1>13

\* These cite all there is.
LEMMA EscalationsTyped ==
  ASSUME NEW message, NEW text, NEW chunks
  PROVE  /\ SupportEscalation(message, text, chunks) \subseteq DraftFrom(text, chunks)
         /\ ServiceEscalation(message, text, chunks) \subseteq DraftFrom(text, chunks)
         /\ ManagerEscalation(message, text, chunks) \subseteq DraftFrom(text, chunks)
         /\ CompetitorResearch(message, text, chunks) \subseteq DraftFrom(text, chunks)
         /\ DocumentProcessing(message, text, chunks) \subseteq DraftFrom(text, chunks)
<1>1. NoFields \in FieldsOf(text)
  BY FieldsTyped
<1> USE <1>1, SkillTable DEF DraftFrom, SkillResult, Target, Specialist
<1>2. SupportEscalation(message, text, chunks) \subseteq DraftFrom(text, chunks)
  BY DEF SupportEscalation
<1>3. ServiceEscalation(message, text, chunks) \subseteq DraftFrom(text, chunks)
  BY DEF ServiceEscalation
<1>4. ManagerEscalation(message, text, chunks) \subseteq DraftFrom(text, chunks)
  BY DEF ManagerEscalation
<1>5. CompetitorResearch(message, text, chunks) \subseteq DraftFrom(text, chunks)
  BY DEF CompetitorResearch
<1>6. DocumentProcessing(message, text, chunks) \subseteq DraftFrom(text, chunks)
  BY DEF DocumentProcessing
<1> QED BY <1>2, <1>3, <1>4, <1>5, <1>6

------------------------------------------------------------------------------
(* What the agents reply *)

\* The documents an agent may name whether they were retrieved or not: only the
\* selection of a vehicle does so, and only the sales agent has it.
NamedBy(agent, message) ==
  IF agent = "SALES_AGENT" THEN VehicleDocuments(Last(message)) ELSE {}

\* Every skill answers with a draft from the text and the documents it was given.
LEMMA RunSkillTyped ==
  ASSUME NEW agent \in Agent, NEW message, NEW text,
         NEW chunks \in SUBSET Document
  PROVE  RunSkill(agent, message, text, chunks)
           \subseteq DraftFrom(text, chunks \cup NamedBy(agent, message))
<1> DEFINE skill == Select(agent, message, text)
           drafts == DraftFrom(text, chunks \cup NamedBy(agent, message))
<1>1. /\ skill \in Skill
      /\ skill = "vehicle_selection" => agent = "SALES_AGENT"
  <2>1. skill \in ToSet(SkillsOf[agent])
    BY SelectTyped
  <2> HIDE DEF skill
  <2>2. CASE agent = "SALES_AGENT"
    BY <2>1, <2>2, SkillTable DEF SkillsOf, ToSet
  <2>3. CASE agent = "SUPPORT_AGENT"
    BY <2>1, <2>3, SkillTable DEF SkillsOf, ToSet
  <2>4. CASE agent = "SERVICE_AGENT"
    BY <2>1, <2>4, SkillTable DEF SkillsOf, ToSet
  <2>5. CASE agent = "EMPLOYEE_AGENT"
    BY <2>1, <2>5, SkillTable DEF SkillsOf, ToSet
  <2> QED BY <2>2, <2>3, <2>4, <2>5 DEF Agent
<1>2. RunSkill(agent, message, text, chunks) = Handler(skill, message, text, chunks)
  BY DEF RunSkill
<1>3. DraftFrom(text, chunks) \subseteq drafts
  BY DEF DraftFrom
<1> SUFFICES RunSkill(agent, message, text, chunks) \subseteq drafts
  OBVIOUS
<1> HIDE DEF skill, drafts
<1>4. CASE skill = "vehicle_selection"
  <2>1. Handler(skill, message, text, chunks) = VehicleSelection(message, text, chunks)
    BY <1>4 DEF Handler
  <2>2. drafts = DraftFrom(text, chunks \cup VehicleDocuments(Last(message)))
    BY <1>1, <1>4 DEF drafts, NamedBy
  <2> QED BY <1>2, <2>1, <2>2, VehicleSelectionTyped
<1>5. CASE skill = "trade_in"
  <2>1. Handler(skill, message, text, chunks) = TradeIn(message, text, chunks)
    BY <1>5 DEF Handler
  <2> QED BY <1>2, <1>3, <2>1, QuotationsTyped
<1>6. CASE skill = "credit_leasing"
  <2>1. Handler(skill, message, text, chunks) = CreditLeasing(message, text, chunks)
    BY <1>6 DEF Handler
  <2> QED BY <1>2, <1>3, <2>1, QuotationsTyped
<1>7. CASE skill = "test_drive_booking"
  <2>1. Handler(skill, message, text, chunks) = TestDriveBooking(message, text, chunks)
    BY <1>7 DEF Handler
  <2> QED BY <1>2, <1>3, <2>1, QuotationsTyped
<1>8. CASE skill = "order_status"
  <2>1. Handler(skill, message, text, chunks) = OrderStatus(message, text, chunks)
    BY <1>8 DEF Handler
  <2> QED BY <1>2, <1>3, <2>1, QuotationsTyped
<1>9. CASE skill = "documentation_support"
  <2>1. Handler(skill, message, text, chunks) = DocumentationSupport(message, text, chunks)
    BY <1>9 DEF Handler
  <2> QED BY <1>2, <1>3, <2>1, QuotationsTyped
<1>10. CASE skill = "customer_faq"
  <2>1. Handler(skill, message, text, chunks) = CustomerFaq(message, text, chunks)
    BY <1>10 DEF Handler
  <2> QED BY <1>2, <1>3, <2>1, QuotationsTyped
<1>11. CASE skill = "support_escalation"
  <2>1. Handler(skill, message, text, chunks) = SupportEscalation(message, text, chunks)
    BY <1>11 DEF Handler
  <2> QED BY <1>2, <1>3, <2>1, EscalationsTyped
<1>12. CASE skill = "warranty_consultation"
  <2>1. Handler(skill, message, text, chunks) = WarrantyConsultation(message, text, chunks)
    BY <1>12 DEF Handler
  <2> QED BY <1>2, <1>3, <2>1, QuotationsTyped
<1>13. CASE skill = "service_booking"
  <2>1. Handler(skill, message, text, chunks) = ServiceBooking(message, text, chunks)
    BY <1>13 DEF Handler
  <2> QED BY <1>2, <1>3, <2>1, QuotationsTyped
<1>14. CASE skill = "maintenance_consultation"
  <2>1. Handler(skill, message, text, chunks) = MaintenanceConsultation(message, text, chunks)
    BY <1>14 DEF Handler
  <2> QED BY <1>2, <1>3, <2>1, QuotationsTyped
<1>15. CASE skill = "service_escalation"
  <2>1. Handler(skill, message, text, chunks) = ServiceEscalation(message, text, chunks)
    BY <1>15 DEF Handler
  <2> QED BY <1>2, <1>3, <2>1, EscalationsTyped
<1>16. CASE skill = "internal_knowledge"
  <2>1. Handler(skill, message, text, chunks) = InternalKnowledge(message, text, chunks)
    BY <1>16 DEF Handler
  <2> QED BY <1>2, <1>3, <2>1, QuotationsTyped
<1>17. CASE skill = "sales_coaching"
  <2>1. Handler(skill, message, text, chunks) = SalesCoaching(message, text, chunks)
    BY <1>17 DEF Handler
  <2> QED BY <1>2, <1>3, <2>1, QuotationsTyped
<1>18. CASE skill = "process_lookup"
  <2>1. Handler(skill, message, text, chunks) = ProcessLookup(message, text, chunks)
    BY <1>18 DEF Handler
  <2> QED BY <1>2, <1>3, <2>1, QuotationsTyped
<1>19. CASE skill = "manager_escalation"
  <2>1. Handler(skill, message, text, chunks) = ManagerEscalation(message, text, chunks)
    BY <1>19 DEF Handler
  <2> QED BY <1>2, <1>3, <2>1, EscalationsTyped
<1>20. CASE skill = "competitor_research"
  <2>1. Handler(skill, message, text, chunks) = CompetitorResearch(message, text, chunks)
    BY <1>20 DEF Handler
  <2> QED BY <1>2, <1>3, <2>1, EscalationsTyped
<1>21. CASE skill = "document_processing"
  <2>1. Handler(skill, message, text, chunks) = DocumentProcessing(message, text, chunks)
    BY <1>21 DEF Handler
  <2> QED BY <1>2, <1>3, <2>1, EscalationsTyped
<1> QED BY <1>1, <1>4, <1>5, <1>6, <1>7, <1>8, <1>9, <1>10, <1>11, <1>12,
          <1>13, <1>14, <1>15, <1>16, <1>17, <1>18, <1>19, <1>20, <1>21,
          SkillTable

\* So does the skill that the agent chooses.
LEMMA DraftTyped ==
  ASSUME NEW agent \in Agent, NEW message, NEW text,
         NEW chunks \in SUBSET Document
  PROVE  Draft(agent, message, text, chunks)
           \subseteq DraftFrom(text, chunks \cup NamedBy(agent, message))
<1> DEFINE cites == chunks \cup NamedBy(agent, message)
<1>1. NoFields \in FieldsOf(text)
  BY FieldsTyped
<1>2. /\ "internal_knowledge" \in Skill /\ "customer_faq" \in Skill
      /\ "vehicle_selection" \in Skill
      /\ "security_owner" \in Target /\ "sales_manager" \in Target /\ "employee" \in Target
  BY SkillTable DEF Target, Specialist
<1>3. \A s \in Skill, target \in Target, c \in SUBSET cites :
        SkillResult(s, target, NoFields, c) \in DraftFrom(text, cites)
  <2> HIDE DEF cites
  <2> QED BY <1>1 DEF SkillResult, DraftFrom
<1>4. chunks \in SUBSET cites /\ {} \in SUBSET cites
  OBVIOUS
<1>5. RunSkill(agent, message, text, chunks) \subseteq DraftFrom(text, cites)
  BY RunSkillTyped
<1> SUFFICES Draft(agent, message, text, chunks) \subseteq DraftFrom(text, cites)
  OBVIOUS
<1> HIDE DEF cites
<1>6. CASE "forbidden" \in WordsOf(message)
  BY <1>2, <1>3, <1>4, <1>6 DEF Draft
<1>7. CASE "forbidden" \notin WordsOf(message) /\ "invent a discount" \in WordsOf(message)
  BY <1>2, <1>3, <1>4, <1>7 DEF Draft
<1>8. CASE /\ "forbidden" \notin WordsOf(message) /\ "invent a discount" \notin WordsOf(message)
           /\ chunks = {}
  BY <1>2, <1>3, <1>4, <1>8 DEF Draft
<1>9. CASE /\ "forbidden" \notin WordsOf(message) /\ "invent a discount" \notin WordsOf(message)
           /\ chunks # {}
  BY <1>5, <1>9 DEF Draft
<1> QED BY <1>6, <1>7, <1>8, <1>9

ReplyFrom(agent, text, cites) ==
  [agent : {agent}, skill : Skill, target : Target, fields : FieldsOf(text), cites : SUBSET cites]

\* What an agent replies is read off the dialogue, and cites what the agent may
\* read or what it names.
LEMMA RepliesTyped ==
  ASSUME NEW agent \in Agent, NEW message, NEW history,
         NEW reply \in Replies(agent, message, history)
  PROVE  reply \in ReplyFrom(agent, history \o message, ForAgent(agent) \cup NamedBy(agent, message))
<1> DEFINE text == history \o message
           cites == ForAgent(agent) \cup NamedBy(agent, message)
<1>1. PICK chunks \in Retrieved(agent) :
        \E draft \in Draft(agent, message, text, chunks) :
          \E r \in Composed(draft, chunks) :
            reply = [agent |-> agent, skill |-> r.skill, target |-> r.target, fields |-> r.fields,
                     cites |-> IF r.cites = {} THEN chunks ELSE r.cites]
  BY DEF Replies
<1>2. PICK draft \in Draft(agent, message, text, chunks) :
        \E r \in Composed(draft, chunks) :
          reply = [agent |-> agent, skill |-> r.skill, target |-> r.target, fields |-> r.fields,
                   cites |-> IF r.cites = {} THEN chunks ELSE r.cites]
  BY <1>1
<1>3. PICK r \in Composed(draft, chunks) :
        reply = [agent |-> agent, skill |-> r.skill, target |-> r.target, fields |-> r.fields,
                 cites |-> IF r.cites = {} THEN chunks ELSE r.cites]
  BY <1>2
<1>4. chunks \subseteq ForAgent(agent)
  BY DEF Retrieved
<1>5. chunks \subseteq cites /\ chunks \in SUBSET Document
  BY <1>4 DEF ForAgent
<1>7. draft \in DraftFrom(text, chunks \cup NamedBy(agent, message))
  <2> HIDE DEF text
  <2> QED BY <1>5, DraftTyped
<1>8. draft \in DraftFrom(text, cites)
  BY <1>4, <1>7 DEF DraftFrom
<1>9. r \in DraftFrom(text, cites)
  <2>1. CASE r = draft
    BY <1>8, <2>1
  <2>2. CASE r # draft
    <3>1. PICK output \in LlmOutput :
            Grounded(output, draft, chunks) /\ r = [draft EXCEPT !.cites = output.ids]
      BY <2>2 DEF Composed
    <3>2. output.ids \in SUBSET cites
      BY <1>5, <3>1 DEF Grounded
    <3> HIDE DEF cites
    <3> QED BY <1>8, <3>1, <3>2 DEF DraftFrom
  <2> QED BY <2>1, <2>2
<1> DEFINE s == [r EXCEPT !.cites = IF r.cites = {} THEN chunks ELSE r.cites]
<1> SUFFICES reply \in ReplyFrom(agent, text, cites)
  OBVIOUS
<1> HIDE DEF cites
<1>10. s \in DraftFrom(text, cites)
  BY <1>5, <1>9 DEF DraftFrom
<1>11. reply = [agent |-> agent, skill |-> s.skill, target |-> s.target, fields |-> s.fields,
                cites |-> s.cites]
  BY <1>3, <1>9 DEF DraftFrom
<1> HIDE DEF s
<1> QED BY <1>10, <1>11 DEF DraftFrom, ReplyFrom

------------------------------------------------------------------------------
(* What is read off texts that are put together *)

\* What the expressions find first in a text.  A name that is only mentioned is
\* left aside.
PhoneIn(t) == IF Telephones(t) = {} THEN <<>> ELSE TelephoneAt(t, Min(Telephones(t)))
NameIn(t) == IF Introduced(t) = {} THEN <<>> ELSE NameAt(t, Min(Introduced(t)))
ContactIn(t, f) == IF f = "phone" THEN PhoneIn(t) ELSE NameIn(t)

\* A text after which no match goes on: it ends in a mark, or like the words the
\* program puts before a question that it continues.
Closed(t) ==
  t # <<>> => LET L == Len(t)
              IN  t[L] \in {".", "?"} \/ (L > 1 /\ t[L] = ":" /\ t[L - 1] = "user")

\* A mark is no word and no number.
LEMMA ClosingMarks ==
  /\ \A c \in {".", "?", ":"} : c \notin Number /\ c \notin Word /\ c \notin EndsInYa
  /\ \A c \in {"clarification", "user"} : c \notin Number /\ c \in Word
<1>1. {".", "?", ":", "I"} \subseteq Sign /\ EndsInYa \subseteq Word \cup {"I"}
  BY MessagesAssumption
<1>2. Number \cap Sign = {} /\ Word \cap Sign = {} /\ Word \cap Number = {}
  BY MessagesAssumption
<1>3. {"clarification", "user"} \subseteq Word
  BY MessagesAssumption DEF OwnWords
<1>4. \A c \in {".", "?", ":"} : c # "I"
  OBVIOUS
<1> QED BY <1>1, <1>2, <1>3, <1>4

\* Two texts, one after the other.
LEMMA TextsApart ==
  ASSUME NEW t \in Seq(Token), NEW u \in Seq(Token), Closed(t)
  PROVE  LET w == t \o u
             L == Len(t)
             K == Len(u)
         IN  /\ L \in Nat /\ K \in Nat /\ w \in Seq(Token) /\ Len(w) = L + K
             /\ DOMAIN t = 1..L /\ DOMAIN u = 1..K /\ DOMAIN w = 1..(L + K)
             /\ \A i \in 1..L : w[i] = t[i]
             /\ \A i \in 1..K : w[L + i] = u[i]
             /\ L > 0 => /\ w[L] \in {".", "?", ":"}
                         /\ w[L] = ":" => L > 1 /\ w[L - 1] = "user"
<1> DEFINE w == t \o u
           L == Len(t)
           K == Len(u)
<1>1. /\ L \in Nat /\ K \in Nat /\ w \in Seq(Token) /\ Len(w) = L + K
      /\ \A i \in 1..L + K : w[i] = IF i <= L THEN t[i] ELSE u[i - L]
  BY ConcatProperties, LenProperties
<1>2. DOMAIN t = 1..L /\ DOMAIN u = 1..K /\ DOMAIN w = 1..(L + K)
  BY <1>1, LenProperties
<1>3. L > 0 => t # <<>>
  OBVIOUS
<1> HIDE DEF w
<1>4. (\A i \in 1..L : w[i] = t[i]) /\ (\A i \in 1..K : w[L + i] = u[i])
  <2> HIDE DEF L, K
  <2>1. ASSUME NEW i \in 1..L PROVE w[i] = t[i]
    BY <1>1
  <2>2. ASSUME NEW i \in 1..K PROVE w[L + i] = u[i]
    <3>1. L + i \in 1..L + K /\ ~(L + i <= L) /\ (L + i) - L = i
      BY <1>1
    <3> QED BY <1>1, <3>1
  <2> QED BY <2>1, <2>2
<1>5. L > 0 => /\ t[L] \in {".", "?", ":"}
               /\ t[L] = ":" => L > 1 /\ t[L - 1] = "user"
  <2>1. L > 0 => t[L] \in {".", "?"} \/ (L > 1 /\ t[L] = ":" /\ t[L - 1] = "user")
    BY <1>3 DEF Closed
  <2> QED BY <2>1
<1>6. L > 0 => w[L] = t[L] /\ (L > 1 => w[L - 1] = t[L - 1])
  <2> HIDE DEF L, K
  <2>1. (L > 0 => L \in 1..L) /\ (L > 1 => L - 1 \in 1..L)
    BY <1>1
  <2> QED BY <1>4, <2>1
<1>7. L > 0 => /\ w[L] \in {".", "?", ":"}
               /\ w[L] = ":" => L > 1 /\ w[L - 1] = "user"
  <2> HIDE DEF L, K
  <2> QED BY <1>5, <1>6
<1> QED BY <1>1, <1>2, <1>4, <1>7 DEF w

\* The places of a text that comes after L tokens.
Shifted(L, B) == {L + i : i \in B}

\* The first match is in the first text that has one.
LEMMA FirstOfTwo ==
  ASSUME NEW L \in Nat, NEW A \in SUBSET (1..L), NEW B \in SUBSET (Nat \ {0})
  PROVE  LET C == A \cup Shifted(L, B)
         IN  /\ A # {} => Min(A) \in A /\ Min(C) = Min(A)
             /\ A = {} /\ B # {} => Min(B) \in B /\ Min(C) = L + Min(B)
             /\ C = {} <=> A = {} /\ B = {}
<1> DEFINE C == A \cup Shifted(L, B)
<1>0. /\ \A x \in A : x \in Nat /\ 1 <= x /\ x <= L
      /\ \A x \in B : x \in Nat /\ 1 <= x /\ L + x \in Nat /\ L + x \in C
      /\ \A x \in A : x \in C
      /\ \A x \in C : x \in A \/ \E i \in B : x = L + i
  <2>1. \A x \in A : x \in 1..L
    OBVIOUS
  <2>2. \A x \in 1..L : x \in Nat /\ 1 <= x /\ x <= L
    OBVIOUS
  <2>3. \A x \in B : x \in Nat \ {0}
    OBVIOUS
  <2>4. \A x \in Nat \ {0} : x \in Nat /\ 1 <= x /\ L + x \in Nat
    OBVIOUS
  <2>5. /\ \A x \in B : L + x \in C
        /\ \A x \in A : x \in C
        /\ \A x \in C : x \in A \/ \E i \in B : x = L + i
    BY DEF Shifted
  <2> QED BY <2>1, <2>2, <2>3, <2>4, <2>5
<1>1. C \in SUBSET Nat /\ A \in SUBSET Nat /\ B \in SUBSET Nat
  <2>1. \A x \in C : x \in Nat
    BY <1>0
  <2> QED BY <1>0, <2>1
<1> HIDE DEF C
<1>2. ASSUME NEW S \in SUBSET Nat, NEW x \in S, \A y \in S : x <= y PROVE Min(S) = x
  <2>1. Min(S) \in S /\ \A y \in S : Min(S) <= y
    BY <1>2, MinOfNaturals
  <2>2. Min(S) <= x /\ x <= Min(S) /\ Min(S) \in Nat /\ x \in Nat
    BY <1>2, <2>1
  <2> QED BY <2>2
<1>3. ASSUME A # {} PROVE Min(A) \in A /\ Min(C) = Min(A)
  <2>1. Min(A) \in A /\ \A y \in A : Min(A) <= y
    BY <1>1, <1>3, MinOfNaturals
  <2>2. \A y \in C : Min(A) <= y
    <3>1. Min(A) \in Nat /\ Min(A) <= L
      BY <1>0, <2>1
    <3>2. \A i \in B : Min(A) <= L + i
      BY <1>0, <3>1
    <3> QED BY <1>0, <2>1, <3>2
  <2>3. Min(A) \in C
    BY <1>0, <2>1
  <2> QED BY <1>1, <1>2, <2>1, <2>2, <2>3
<1>4. ASSUME A = {}, B # {} PROVE Min(B) \in B /\ Min(C) = L + Min(B)
  <2>1. Min(B) \in B /\ \A y \in B : Min(B) <= y
    BY <1>1, <1>4, MinOfNaturals
  <2>2. L + Min(B) \in C /\ \A y \in C : L + Min(B) <= y
    <3>1. \A i \in B : L + Min(B) <= L + i
      <4> SUFFICES ASSUME NEW i \in B PROVE L + Min(B) <= L + i
        OBVIOUS
      <4> DEFINE m == Min(B)
      <4>1. m \in Nat /\ i \in Nat /\ m <= i
        BY <1>0, <2>1
      <4> HIDE DEF m
      <4>2. L + m <= L + i
        BY <4>1
      <4> QED BY <4>2 DEF m
    <3> QED BY <1>0, <1>4, <2>1, <3>1
  <2> QED BY <1>1, <1>2, <2>1, <2>2
<1>5. C = {} <=> A = {} /\ B = {}
  BY <1>0
<1> QED BY <1>3, <1>4, <1>5 DEF C

\* A stretch ends in one place.
LEMMA RunsEnd ==
  ASSUME NEW S, NEW t \in Seq(S), NEW i \in 1..Len(t), NEW j \in i..Len(t), NEW k \in i..Len(t),
         IsRun(t, i, j), IsRun(t, i, k)
  PROVE  j = k
<1>1. i \in Nat /\ j \in Nat /\ k \in Nat /\ Len(t) \in Nat
  OBVIOUS
<1>2. ASSUME NEW a \in i..Len(t), NEW b \in i..Len(t), IsRun(t, i, a), IsRun(t, i, b), a < b
      PROVE  FALSE
  <2>1. a + 1 \in i..b /\ a < Len(t)
    BY <1>1, <1>2
  <2> QED BY <1>2, <2>1 DEF IsRun
<1>3. ~(j < k) /\ ~(k < j)
  BY <1>2
<1> QED BY <1>1, <1>3

\* No stretch of numbers goes from a closed text into the next one.
LEMMA RunsApart ==
  ASSUME NEW t \in Seq(Token), NEW u \in Seq(Token), Closed(t)
  PROVE  LET w == t \o u
             L == Len(t)
             K == Len(u)
         IN  /\ \A i \in 1..L : \A j \in i..L : IsRun(w, i, j) <=> IsRun(t, i, j)
             /\ \A i \in 1..L : \A j \in i..(L + K) : IsRun(w, i, j) => j \in i..L
             /\ \A i \in 1..K : \A j \in i..K : IsRun(w, L + i, L + j) <=> IsRun(u, i, j)
<1> DEFINE w == t \o u
           L == Len(t)
           K == Len(u)
<1>1. /\ L \in Nat /\ K \in Nat /\ w \in Seq(Token) /\ Len(w) = L + K
      /\ \A i \in 1..L : w[i] = t[i]
      /\ \A i \in 1..K : w[L + i] = u[i]
      /\ L > 0 => w[L] \notin Number
  BY TextsApart, ClosingMarks
<1>2. /\ \A i \in 1..L : \A j \in 1..L : SubSeq(w, i, j) = SubSeq(t, i, j)
      /\ \A i \in 1..K : \A j \in 1..K : SubSeq(w, L + i, L + j) = SubSeq(u, i, j)
  <2>1. \A i \in 1..L : \A j \in 1..L : SubSeq(w, i, j) = SubSeq(t, i, j)
    BY SubSeqOfConcat1
  <2>2. ASSUME NEW i \in 1..K, NEW j \in 1..K PROVE SubSeq(w, L + i, L + j) = SubSeq(u, i, j)
    <3>1. L + i \in L+1..L+K /\ L + j \in L+1..L+K /\ (L + i) - L = i /\ (L + j) - L = j
      BY <1>1
    <3>2. SubSeq(w, L + i, L + j) = SubSeq(u, (L + i) - L, (L + j) - L)
      BY <3>1, SubSeqOfConcat2
    <3> QED BY <3>1, <3>2
  <2> QED BY <2>1, <2>2
<1>3. Len(t) = L /\ Len(u) = K
  OBVIOUS
<1> HIDE DEF w, L, K
<1>4. ASSUME NEW i \in 1..L, NEW j \in i..L PROVE IsRun(w, i, j) <=> IsRun(t, i, j)
  <2>1. /\ i \in Nat /\ j \in Nat /\ j \in 1..L /\ i <= j
        /\ \A k \in i..j : w[k] = t[k]
        /\ i > 1 => w[i - 1] = t[i - 1]
        /\ j < L => w[j + 1] = t[j + 1] /\ j < L + K
    BY <1>1
  <2>2. CASE j = L
    <3>1. w[L] \notin Number /\ t[L] \notin Number /\ L \in i..j
      BY <1>1, <2>1, <2>2
    <3> QED BY <3>1 DEF IsRun
  <2>3. CASE j # L
    <3>1. j < L /\ j < L + K
      BY <1>1, <2>1, <2>3
    <3> QED BY <1>1, <1>2, <1>3, <2>1, <3>1 DEF IsRun
  <2> QED BY <2>2, <2>3
<1>5. ASSUME NEW i \in 1..L, NEW j \in i..(L + K), IsRun(w, i, j) PROVE j \in i..L
  <2>1. ~(j > L)
    <3>1. j > L => L \in i..j /\ L > 0
      BY <1>1
    <3> QED BY <1>1, <1>5, <3>1 DEF IsRun
  <2> QED BY <1>1, <2>1
<1>6. ASSUME NEW i \in 1..K, NEW j \in i..K PROVE IsRun(w, L + i, L + j) <=> IsRun(u, i, j)
  <2>1. i \in Nat /\ j \in Nat /\ j \in 1..K /\ i <= j
    BY <1>1
  <2>2. (\A k \in (L + i)..(L + j) : w[k] \in Number) <=> (\A k \in i..j : u[k] \in Number)
    <3>1. \A k \in i..j : L + k \in (L + i)..(L + j) /\ w[L + k] = u[k]
      <4>1. \A k \in i..j : k \in 1..K /\ L + k \in (L + i)..(L + j)
        BY <1>1, <2>1
      <4> QED BY <1>1, <4>1
    <3>2. \A k \in (L + i)..(L + j) : k - L \in i..j /\ w[k] = u[k - L]
      <4> SUFFICES ASSUME NEW k \in (L + i)..(L + j) PROVE k - L \in i..j /\ w[k] = u[k - L]
        OBVIOUS
      <4>1. k - L \in i..j /\ k = L + (k - L)
        BY <1>1, <2>1
      <4> QED BY <3>1, <4>1
    <3> QED BY <3>1, <3>2
  <2>3. (L + i > 1 => w[(L + i) - 1] \notin Number) <=> (i > 1 => u[i - 1] \notin Number)
    <3>1. CASE i = 1
      <4>1. (L + i) - 1 = L /\ (L + i > 1 => L > 0)
        BY <1>1, <3>1
      <4> QED BY <1>1, <3>1, <4>1
    <3>2. CASE i # 1
      <4>1. i > 1 /\ L + i > 1 /\ i - 1 \in 1..K /\ (L + i) - 1 = L + (i - 1)
        BY <1>1, <2>1, <3>2
      <4> QED BY <1>1, <4>1
    <3> QED BY <3>1, <3>2
  <2>4. (L + j < L + K => w[(L + j) + 1] \notin Number) <=> (j < K => u[j + 1] \notin Number)
    <3>1. L + j < L + K <=> j < K
      BY <1>1, <2>1
    <3>2. ASSUME j < K PROVE w[(L + j) + 1] = u[j + 1]
      <4>1. PICK k \in 1..K : k = j + 1
        BY <1>1, <2>1, <3>2
      <4>2. (L + j) + 1 = L + k
        BY <1>1, <2>1, <4>1
      <4>3. w[L + k] = u[k]
        BY <1>1
      <4> QED BY <4>1, <4>2, <4>3
    <3> QED BY <3>1, <3>2
  <2>5. SubSeq(w, L + i, L + j) = SubSeq(u, i, j)
    BY <1>2, <2>1
  <2> QED BY <1>1, <1>3, <2>2, <2>3, <2>4, <2>5 DEF IsRun
<1> QED BY <1>4, <1>5, <1>6 DEF w, L, K

\* So each telephone of the two is a telephone of one of them.
LEMMA TelephonesApart ==
  ASSUME NEW t \in Seq(Token), NEW u \in Seq(Token), Closed(t)
  PROVE  LET w == t \o u
             L == Len(t)
         IN  /\ Telephones(w) = Telephones(t) \cup Shifted(L, Telephones(u))
             /\ \A i \in Telephones(t) : TelephoneAt(w, i) = TelephoneAt(t, i)
             /\ \A i \in Telephones(u) : TelephoneAt(w, L + i) = TelephoneAt(u, i)
<1> DEFINE w == t \o u
           L == Len(t)
           K == Len(u)
<1>1. /\ L \in Nat /\ K \in Nat /\ w \in Seq(Token) /\ Len(w) = L + K
      /\ DOMAIN t = 1..L /\ DOMAIN u = 1..K /\ DOMAIN w = 1..(L + K)
      /\ \A i \in 1..L : w[i] = t[i]
      /\ \A i \in 1..K : w[L + i] = u[i]
      /\ L > 0 => w[L] # "+"
  BY TextsApart
<1>2. /\ \A i \in 1..L : \A j \in i..L : IsRun(w, i, j) <=> IsRun(t, i, j)
      /\ \A i \in 1..L : \A j \in i..(L + K) : IsRun(w, i, j) => j \in i..L
      /\ \A i \in 1..K : \A j \in i..K : IsRun(w, L + i, L + j) <=> IsRun(u, i, j)
  BY RunsApart
<1>3. /\ \A i \in 1..L : \A j \in 1..L : SubSeq(w, i, j) = SubSeq(t, i, j)
      /\ \A i \in 1..K : \A j \in 1..K : SubSeq(w, L + i, L + j) = SubSeq(u, i, j)
  <2>1. \A i \in 1..L : \A j \in 1..L : SubSeq(w, i, j) = SubSeq(t, i, j)
    BY SubSeqOfConcat1
  <2>2. ASSUME NEW i \in 1..K, NEW j \in 1..K PROVE SubSeq(w, L + i, L + j) = SubSeq(u, i, j)
    <3>1. L + i \in L+1..L+K /\ L + j \in L+1..L+K /\ (L + i) - L = i /\ (L + j) - L = j
      BY <1>1
    <3>2. SubSeq(w, L + i, L + j) = SubSeq(u, (L + i) - L, (L + j) - L)
      BY <3>1, SubSeqOfConcat2
    <3> QED BY <3>1, <3>2
  <2> QED BY <2>1, <2>2
<1>4. Len(t) = L /\ Len(u) = K
  OBVIOUS
<1> HIDE DEF w, L, K
<1>5. ASSUME NEW s \in Seq(Token)
      PROVE  \A i \in 1..Len(s) : i \in Telephones(s) <=> \E j \in i..Len(s) : IsRun(s, i, j)
  BY DEF Telephones
<1>6. Telephones(w) = Telephones(t) \cup {L + i : i \in Telephones(u)}
  <2>1. /\ Telephones(t) \subseteq 1..L /\ Telephones(u) \subseteq 1..K
        /\ Telephones(w) \subseteq 1..(L + K)
    BY <1>1 DEF Telephones
  <2>2. ASSUME NEW i \in 1..L PROVE i \in Telephones(w) <=> i \in Telephones(t)
    <3>1. i \in 1..(L + K) /\ \A j \in i..L : j \in i..(L + K)
      BY <1>1
    <3>2. i \in Telephones(w) <=> \E j \in i..(L + K) : IsRun(w, i, j)
      BY <1>1, <1>5, <3>1
    <3>3. i \in Telephones(t) <=> \E j \in i..L : IsRun(t, i, j)
      BY <1>4, <1>5
    <3> QED BY <1>2, <3>1, <3>2, <3>3
  <2>3. ASSUME NEW i \in 1..K PROVE L + i \in Telephones(w) <=> i \in Telephones(u)
    <3>1. /\ L + i \in 1..(L + K)
          /\ \A j \in i..K : L + j \in (L + i)..(L + K)
          /\ \A j \in (L + i)..(L + K) : j - L \in i..K /\ L + (j - L) = j
      BY <1>1
    <3>2. L + i \in Telephones(w) <=> \E j \in (L + i)..(L + K) : IsRun(w, L + i, j)
      BY <1>1, <1>5, <3>1
    <3>3. i \in Telephones(u) <=> \E j \in i..K : IsRun(u, i, j)
      BY <1>4, <1>5
    <3>4. ASSUME NEW j \in (L + i)..(L + K), IsRun(w, L + i, j) PROVE i \in Telephones(u)
      <4>1. j - L \in i..K /\ IsRun(w, L + i, L + (j - L))
        BY <3>1, <3>4
      <4> QED BY <1>2, <3>3, <4>1
    <3>5. ASSUME NEW j \in i..K, IsRun(u, i, j) PROVE L + i \in Telephones(w)
      BY <1>2, <3>1, <3>2, <3>5
    <3> QED BY <3>2, <3>3, <3>4, <3>5
  <2>4. \A i \in 1..(L + K) : i \in 1..L \/ (i - L \in 1..K /\ L + (i - L) = i)
    BY <1>1
  <2> HIDE DEF Telephones
  <2>5. ASSUME NEW i \in Telephones(w)
        PROVE  i \in Telephones(t) \cup {L + k : k \in Telephones(u)}
    <3>1. CASE i \in 1..L
      BY <2>2, <3>1
    <3>2. CASE i - L \in 1..K /\ L + (i - L) = i
      <4>1. i - L \in Telephones(u)
        BY <2>3, <3>2
      <4> QED BY <3>2, <4>1
    <3> QED BY <2>1, <2>4, <3>1, <3>2
  <2>6. \A i \in Telephones(t) : i \in Telephones(w)
    BY <2>1, <2>2
  <2>7. \A i \in Telephones(u) : L + i \in Telephones(w)
    BY <2>1, <2>3
  <2> QED BY <2>5, <2>6, <2>7
<1>7. ASSUME NEW i \in Telephones(t) PROVE TelephoneAt(w, i) = TelephoneAt(t, i)
  <2> DEFINE a == CHOOSE j \in i..Len(w) : IsRun(w, i, j)
             b == CHOOSE j \in i..Len(t) : IsRun(t, i, j)
             f == IF i > 1 /\ w[i - 1] = "+" THEN i - 1 ELSE i
             g == IF i > 1 /\ t[i - 1] = "+" THEN i - 1 ELSE i
  <2>1. i \in 1..L /\ \E j \in i..L : IsRun(t, i, j)
    BY <1>1, <1>4 DEF Telephones
  <2>2. b \in i..L /\ IsRun(t, i, b)
    <3> HIDE DEF b
    <3> QED BY <1>4, <2>1 DEF b
  <2>3. \E j \in i..Len(w) : IsRun(w, i, j)
    <3>1. \A j \in i..L : j \in i..Len(w)
      BY <1>1, <2>1
    <3> HIDE DEF b
    <3> QED BY <1>2, <2>1, <3>1
  <2>4. a \in i..Len(w) /\ IsRun(w, i, a)
    <3> HIDE DEF a
    <3> QED BY <2>3 DEF a
  <2>5. f = g /\ f \in 1..L
    <3>1. i > 1 => i - 1 \in 1..L /\ w[i - 1] = t[i - 1]
      BY <1>1, <2>1
    <3> QED BY <2>1, <3>1
  <2> HIDE DEF a, b, f, g
  <2>6. a \in i..L /\ IsRun(t, i, a)
    BY <1>1, <1>2, <2>1, <2>4
  <2>7. a = b
    BY <1>4, <2>1, <2>2, <2>6, RunsEnd
  <2>8. SubSeq(w, f, a) = SubSeq(t, g, b)
    <3>1. a \in 1..L
      BY <1>1, <2>1, <2>6
    <3> QED BY <1>3, <2>5, <2>7, <3>1
  <2> QED BY <2>8 DEF TelephoneAt, a, b, f, g
<1>8. ASSUME NEW i \in Telephones(u) PROVE TelephoneAt(w, L + i) = TelephoneAt(u, i)
  <2> DEFINE a == CHOOSE j \in (L + i)..Len(w) : IsRun(w, L + i, j)
             b == CHOOSE j \in i..Len(u) : IsRun(u, i, j)
             f == IF L + i > 1 /\ w[(L + i) - 1] = "+" THEN (L + i) - 1 ELSE L + i
             g == IF i > 1 /\ u[i - 1] = "+" THEN i - 1 ELSE i
  <2>1. i \in 1..K /\ \E j \in i..K : IsRun(u, i, j)
    BY <1>1, <1>4 DEF Telephones
  <2>2. b \in i..K /\ IsRun(u, i, b)
    <3> HIDE DEF b
    <3> QED BY <1>4, <2>1 DEF b
  <2> HIDE DEF b
  <2>3. L + b \in (L + i)..Len(w) /\ IsRun(w, L + i, L + b)
    BY <1>1, <1>2, <2>1, <2>2
  <2>4. a \in (L + i)..Len(w) /\ IsRun(w, L + i, a)
    <3> HIDE DEF a
    <3> QED BY <2>3 DEF a
  <2>5. f = L + g /\ g \in 1..K
    <3>1. CASE i = 1
      <4>1. (L + i) - 1 = L /\ (L + i > 1 => L > 0)
        BY <1>1, <3>1
      <4>2. g = i
        BY <3>1
      <4>3. f = L + i
        BY <1>1, <4>1
      <4> QED BY <2>1, <4>2, <4>3
    <3>2. CASE i # 1
      <4>1. i > 1 /\ L + i > 1 /\ i - 1 \in 1..K /\ (L + i) - 1 = L + (i - 1)
        BY <1>1, <2>1, <3>2
      <4>2. w[(L + i) - 1] = u[i - 1]
        BY <1>1, <4>1
      <4> QED BY <2>1, <4>1, <4>2
    <3> QED BY <3>1, <3>2
  <2> HIDE DEF a, f, g
  <2>6. L + i \in 1..Len(w)
    BY <1>1, <2>1
  <2>7. a = L + b
    BY <1>1, <2>3, <2>4, <2>6, RunsEnd
  <2>8. SubSeq(w, f, a) = SubSeq(u, g, b)
    <3>1. b \in 1..K
      BY <1>1, <2>1, <2>2
    <3> QED BY <1>3, <2>5, <2>7, <3>1
  <2> QED BY <2>8 DEF TelephoneAt, a, b, f, g
<1> QED BY <1>6, <1>7, <1>8 DEF w, L, Shifted

\* No introduction leads from a closed text into the next one.
LEMMA IntroducedApart ==
  ASSUME NEW t \in Seq(Token), NEW u \in Seq(Token), Closed(t)
  PROVE  LET w == t \o u
             L == Len(t)
             K == Len(u)
         IN  /\ \A i \in 1..L : i \in Introduced(w) <=> i \in Introduced(t)
             /\ \A i \in 1..K : L + i \in Introduced(w) <=> i \in Introduced(u)
             /\ Mentioned(t) = {} /\ Mentioned(u) = {} => Mentioned(w) = {}
<1> DEFINE w == t \o u
           L == Len(t)
           K == Len(u)
           Led(s, i) == /\ LeadIn(s, i) >= 1
                        /\ \/ s[LeadIn(s, i)] \in {"name", "full name"}
                           \/ /\ LeadIn(s, i) > 1 /\ s[LeadIn(s, i)] = "called"
                              /\ s[LeadIn(s, i) - 1] = "me"
           Said(s, i) == /\ LeadIn(s, i) >= 1
                         /\ s[i - 1] \in EndsInYa \/ s[LeadIn(s, i)] = "client"
<1>1. /\ L \in Nat /\ K \in Nat /\ w \in Seq(Token) /\ Len(w) = L + K
      /\ DOMAIN t = 1..L /\ DOMAIN u = 1..K /\ DOMAIN w = 1..(L + K)
      /\ \A i \in 1..L : w[i] = t[i]
      /\ \A i \in 1..K : w[L + i] = u[i]
      /\ L > 0 => /\ w[L] \in {".", "?", ":"}
                  /\ w[L] = ":" => L > 1 /\ w[L - 1] = "user"
  BY TextsApart
<1>2. Len(t) = L /\ Len(u) = K
  OBVIOUS
<1>3. /\ \A s, i : i \in Introduced(s) <=> i \in DOMAIN s /\ s[i] \in Word /\ Led(s, i)
      /\ \A s, i : i \in Mentioned(s) <=>
           /\ i \in DOMAIN s /\ s[i] \in Word /\ Said(s, i)
           /\ i < Len(s) /\ s[i + 1] \in {".", "telephone"}
  BY DEF Introduced, Mentioned
<1> HIDE DEF w, L, K
<1>4. ASSUME NEW i \in 1..L
      PROVE  (Led(w, i) <=> Led(t, i)) /\ (Said(w, i) <=> Said(t, i))
  <2> DEFINE l == LeadIn(t, i)
  <2>1. /\ i \in Nat /\ i >= 1 /\ i <= L
        /\ i > 1 => i - 1 \in 1..L /\ w[i - 1] = t[i - 1]
    BY <1>1
  <2>2. l \in {i - 1, i - 2} /\ LeadIn(w, i) = l
    BY <2>1 DEF LeadIn
  <2>3. l \in Int /\ l < i
    BY <2>1, <2>2
  <2> HIDE DEF l
  <2>4. l >= 1 => l \in 1..L /\ w[l] = t[l] /\ i > 1
    BY <1>1, <2>1, <2>3
  <2>5. l > 1 => l - 1 \in 1..L /\ w[l - 1] = t[l - 1]
    BY <1>1, <2>1, <2>3
  <2>6. LeadIn(t, i) = l /\ LeadIn(w, i) = l
    BY <2>2 DEF l
  <2>7. l > 1 => l >= 1
    BY <2>3
  <2> QED BY <2>1, <2>4, <2>5, <2>6, <2>7
<1>5. ASSUME NEW i \in 1..K
      PROVE  (Led(w, L + i) <=> Led(u, i)) /\ (Said(w, L + i) => Said(u, i))
  <2> DEFINE l == LeadIn(u, i)
             k == LeadIn(w, L + i)
  <2>1. i \in Nat /\ i >= 1 /\ i <= K
    BY <1>1
  <2>2. CASE i = 1
    <3>1. l = 0
      BY <2>2 DEF LeadIn
    <3>2. ~Led(u, i) /\ ~Said(u, i)
      BY <3>1
    <3>3. k = IF L + i > 1 /\ w[(L + i) - 1] = ":" THEN (L + i) - 2 ELSE (L + i) - 1
      BY DEF LeadIn
    <3>4. (L + i) - 1 = L /\ (L + i) - 2 = L - 1
      BY <1>1, <2>2
    <3>5. k = (IF L > 0 /\ w[L] = ":" THEN L - 1 ELSE L)
      BY <1>1, <2>2, <3>3, <3>4
    <3> HIDE DEF k
    <3>6. k >= 1 => /\ L > 0 /\ w[k] \in {".", "?", "user"}
                    /\ w[(L + i) - 1] \in {".", "?", ":"}
      BY <1>1, <3>4, <3>5
    <3>7. ~Led(w, L + i) /\ ~Said(w, L + i)
      BY <3>6, ClosingMarks DEF k
    <3> QED BY <3>2, <3>7
  <2>3. CASE i # 1
    <3>0. i > 1 /\ i - 1 \in 1..K /\ (L + i) - 1 = L + (i - 1) /\ L + i > 1
      BY <1>1, <2>1, <2>3
    <3>1. w[(L + i) - 1] = u[i - 1]
      BY <1>1, <3>0
    <3>2. l \in {i - 1, i - 2} /\ k = L + l /\ (l = i - 2 => u[i - 1] = ":")
      <4>1. l = IF u[i - 1] = ":" THEN i - 2 ELSE i - 1
        BY <3>0 DEF LeadIn
      <4>2. k = IF u[i - 1] = ":" THEN (L + i) - 2 ELSE (L + i) - 1
        BY <3>0, <3>1 DEF LeadIn
      <4> HIDE DEF l, k
      <4> QED BY <1>1, <2>1, <4>1, <4>2
    <3> HIDE DEF l, k
    <3>3. CASE l >= 1
      <4>1. l \in 1..K /\ w[k] = u[l] /\ k >= 1
        BY <1>1, <2>1, <3>2, <3>3
      <4>2. l > 1 => k > 1 /\ w[k - 1] = u[l - 1]
        <5> SUFFICES ASSUME l > 1 PROVE k > 1 /\ w[k - 1] = u[l - 1]
          OBVIOUS
        <5>1. PICK j \in 1..K : j = l - 1
          BY <1>1, <4>1
        <5>2. k - 1 = L + j /\ k > 1
          BY <1>1, <3>2, <4>1, <5>1
        <5> QED BY <1>1, <5>1, <5>2
      <4>3. ~(l > 1) => ~(k > 1 /\ w[k - 1] = "me")
        <5> SUFFICES ASSUME ~(l > 1), k > 1 PROVE w[k - 1] # "me"
          OBVIOUS
        <5>1. l = 1 /\ k - 1 = L /\ L > 0
          BY <1>1, <3>2, <3>3, <4>1
        <5> QED BY <1>1, <5>1
      <4> QED BY <3>1, <3>3, <4>1, <4>2, <4>3 DEF l, k
    <3>4. CASE ~(l >= 1)
      <4>1. l = 0 /\ k = L /\ u[i - 1] = ":"
        BY <1>1, <2>1, <3>0, <3>2, <3>4
      <4>2. k >= 1 => w[k] \in {".", "?", ":"}
        BY <1>1, <4>1
      <4> QED BY <3>1, <3>4, <4>1, <4>2, ClosingMarks DEF l, k
    <3> QED BY <3>3, <3>4
  <2> QED BY <2>2, <2>3
<1> HIDE DEF Led, Said
<1>6. ASSUME NEW i \in 1..L PROVE i \in Introduced(w) <=> i \in Introduced(t)
  <2>1. i \in DOMAIN w
    BY <1>1
  <2> QED BY <1>1, <1>3, <1>4, <2>1
<1>7. ASSUME NEW i \in 1..K PROVE L + i \in Introduced(w) <=> i \in Introduced(u)
  <2>1. L + i \in DOMAIN w /\ i \in DOMAIN u /\ w[L + i] = u[i]
    BY <1>1
  <2>2. Led(w, L + i) <=> Led(u, i)
    BY <1>5
  <2> QED BY <1>3, <2>1, <2>2, Zenon
<1>8. ASSUME Mentioned(t) = {}, Mentioned(u) = {}, NEW i \in Mentioned(w) PROVE FALSE
  <2>1. /\ i \in 1..(L + K) /\ w[i] \in Word /\ Said(w, i)
        /\ i < L + K /\ w[i + 1] \in {".", "telephone"}
    BY <1>1, <1>3
  <2>2. CASE i \in 1..L
    <3>1. i # L
      BY <1>1, <2>1, <2>2, ClosingMarks
    <3>2. i < L /\ i + 1 \in 1..L
      BY <1>1, <2>2, <3>1
    <3>3. i \in Mentioned(t)
      BY <1>1, <1>2, <1>3, <1>4, <2>1, <2>2, <3>2
    <3> QED BY <1>8, <3>3
  <2>3. CASE i \notin 1..L
    <3>1. PICK j \in 1..K : i = L + j
      <4>1. i - L \in 1..K /\ i = L + (i - L)
        BY <1>1, <2>1, <2>3
      <4> QED BY <4>1
    <3>2. j < K
      BY <1>1, <2>1, <3>1
    <3>3. PICK k \in 1..K : k = j + 1
      BY <1>1, <3>2
    <3>4. i + 1 = L + k
      BY <1>1, <3>1, <3>3
    <3>5. u[j] \in Word /\ u[j + 1] \in {".", "telephone"} /\ Said(u, j)
      BY <1>1, <1>5, <2>1, <3>1, <3>3, <3>4
    <3>6. j \in Mentioned(u)
      BY <1>1, <1>2, <1>3, <3>2, <3>5
    <3> QED BY <1>8, <3>6
  <2> QED BY <2>2, <2>3
<1> QED BY <1>6, <1>7, <1>8 DEF w, L, K

\* A name ends where its text does.
LEMMA NamesApart ==
  ASSUME NEW t \in Seq(Token), NEW u \in Seq(Token), Closed(t)
  PROVE  LET w == t \o u
             L == Len(t)
         IN  /\ \A i \in Introduced(t) : NameAt(w, i) = NameAt(t, i)
             /\ \A i \in Introduced(u) : NameAt(w, L + i) = NameAt(u, i)
<1> DEFINE w == t \o u
           L == Len(t)
           K == Len(u)
           Ends(s, i) == {j \in i..Len(s) : j <= i + 2 /\ \A k \in i..j : s[k] \in Word}
<1>1. /\ L \in Nat /\ K \in Nat /\ w \in Seq(Token) /\ Len(w) = L + K
      /\ DOMAIN t = 1..L /\ DOMAIN u = 1..K
      /\ \A i \in 1..L : w[i] = t[i]
      /\ \A i \in 1..K : w[L + i] = u[i]
      /\ L > 0 => w[L] \notin Word
  BY TextsApart, ClosingMarks
<1>2. /\ \A i \in 1..L : \A j \in 1..L : SubSeq(w, i, j) = SubSeq(t, i, j)
      /\ \A i \in 1..K : \A j \in 1..K : SubSeq(w, L + i, L + j) = SubSeq(u, i, j)
  <2>1. \A i \in 1..L : \A j \in 1..L : SubSeq(w, i, j) = SubSeq(t, i, j)
    BY SubSeqOfConcat1
  <2>2. ASSUME NEW i \in 1..K, NEW j \in 1..K PROVE SubSeq(w, L + i, L + j) = SubSeq(u, i, j)
    <3>1. L + i \in L+1..L+K /\ L + j \in L+1..L+K /\ (L + i) - L = i /\ (L + j) - L = j
      BY <1>1
    <3>2. SubSeq(w, L + i, L + j) = SubSeq(u, (L + i) - L, (L + j) - L)
      BY <3>1, SubSeqOfConcat2
    <3> QED BY <3>1, <3>2
  <2> QED BY <2>1, <2>2
<1>3. Len(t) = L /\ Len(u) = K
  OBVIOUS
<1> HIDE DEF w, L, K
<1>4. ASSUME NEW s \in Seq(Token), NEW i \in Introduced(s)
      PROVE  i \in 1..Len(s) /\ Ends(s, i) \in SUBSET (1..Len(s)) /\ Max(Ends(s, i)) \in Ends(s, i)
             /\ \A x \in Ends(s, i) : Max(Ends(s, i)) >= x
  <2>1. i \in 1..Len(s) /\ s[i] \in Word /\ Len(s) \in Nat
    <3>1. \A k \in Introduced(s) : k \in DOMAIN s /\ s[k] \in Word
      BY Zenon DEF Introduced
    <3>2. DOMAIN s = 1..Len(s) /\ Len(s) \in Nat
      OBVIOUS
    <3> QED BY <3>1, <3>2
  <2>2. Ends(s, i) \in SUBSET (1..Len(s))
    BY <2>1
  <2>3. i \in Ends(s, i)
    BY <2>1
  <2> HIDE DEF Ends
  <2> QED BY <2>1, <2>2, <2>3, MaxOfNaturals
<1>5. ASSUME NEW i \in Introduced(t) PROVE NameAt(w, i) = NameAt(t, i)
  <2>1. i \in 1..L
    BY <1>3, <1>4
  <2>2. ASSUME NEW j \in i..Len(w), \A k \in i..j : w[k] \in Word
        PROVE  j \in i..L
    <3>1. j > L => L \in i..j /\ L > 0
      BY <1>1, <2>1
    <3>2. ~(j > L)
      BY <1>1, <2>2, <3>1
    <3> QED BY <1>1, <2>1, <3>2
  <2>3. ASSUME NEW j \in i..L
        PROVE  j \in i..Len(w) /\ \A k \in i..j : w[k] = t[k]
    BY <1>1, <2>1
  <2>4. Ends(w, i) = Ends(t, i)
    BY <1>3, <2>2, <2>3
  <2>5. Max(Ends(t, i)) \in 1..L
    <3> HIDE DEF Ends
    <3> QED BY <1>3, <1>4
  <2> HIDE DEF Ends
  <2>6. SubSeq(w, i, Max(Ends(w, i))) = SubSeq(t, i, Max(Ends(t, i)))
    BY <1>2, <2>1, <2>4, <2>5
  <2> QED BY <2>6 DEF NameAt, Ends
<1>6. ASSUME NEW i \in Introduced(u) PROVE NameAt(w, L + i) = NameAt(u, i)
  <2> DEFINE E == Ends(u, i)
             F == Ends(w, L + i)
             m == Max(E)
  <2>1. i \in 1..K /\ E \in SUBSET (1..K) /\ m \in E /\ \A x \in E : m >= x
    <3> HIDE DEF Ends
    <3> QED BY <1>3, <1>4
  <2>2. \A j : j \in E <=> j \in i..K /\ j <= i + 2 /\ \A k \in i..j : u[k] \in Word
    BY <1>3
  <2>3. \A j : j \in F <=> /\ j \in (L + i)..(L + K) /\ j <= (L + i) + 2
                           /\ \A k \in (L + i)..j : w[k] \in Word
    BY <1>1
  <2> HIDE DEF E, F, m
  <2>4. ASSUME NEW j \in i..K PROVE L + j \in F <=> j \in E
    <3>0. /\ i \in Nat /\ j \in Nat /\ i <= j /\ j <= K /\ i >= 1
          /\ L + j \in (L + i)..(L + K)
          /\ (L + j <= (L + i) + 2) <=> (j <= i + 2)
      BY <1>1, <2>1
    <3>1. /\ \A k \in i..j : k \in 1..K /\ L + k \in (L + i)..(L + j)
          /\ \A k \in (L + i)..(L + j) : \E h \in i..j : k = L + h
      <4>1. \A k \in i..j : k \in 1..K /\ L + k \in (L + i)..(L + j)
        BY <1>1, <3>0
      <4>2. ASSUME NEW k \in (L + i)..(L + j) PROVE \E h \in i..j : k = L + h
        <5>1. k - L \in i..j /\ k = L + (k - L)
          BY <1>1, <3>0
        <5> QED BY <5>1
      <4> QED BY <4>1, <4>2
    <3>2. \A k \in i..j : w[L + k] = u[k]
      BY <1>1, <3>1
    <3>3. (\A k \in (L + i)..(L + j) : w[k] \in Word) => \A k \in i..j : u[k] \in Word
      BY <3>1, <3>2
    <3>4. (\A k \in i..j : u[k] \in Word) => \A k \in (L + i)..(L + j) : w[k] \in Word
      <4> SUFFICES ASSUME \A k \in i..j : u[k] \in Word, NEW k \in (L + i)..(L + j)
                   PROVE  w[k] \in Word
        OBVIOUS
      <4>1. PICK h \in i..j : k = L + h
        BY <3>1
      <4> QED BY <3>2, <4>1
    <3> QED BY <2>2, <2>3, <3>0, <3>3, <3>4
  <2>5. m \in i..K /\ L + m \in F
    BY <2>1, <2>2, <2>4
  <2>6. \A y \in F : L + m >= y
    <3> SUFFICES ASSUME NEW y \in F PROVE L + m >= y
      OBVIOUS
    <3>1. PICK j \in i..K : y = L + j
      <4>1. y \in (L + i)..(L + K)
        BY <2>3
      <4>2. y - L \in i..K /\ y = L + (y - L)
        BY <1>1, <2>1, <4>1
      <4> QED BY <4>2
    <3>2. m >= j
      BY <2>1, <2>4, <3>1
    <3> QED BY <1>1, <2>1, <2>5, <3>1, <3>2
  <2>7. Max(F) = L + m
    <3>1. F \in SUBSET (1..(L + K)) /\ L + K \in Nat
      BY <1>1, <2>1, <2>3
    <3>2. Max(F) \in F /\ \A x \in F : Max(F) >= x
      BY <2>5, <3>1, MaxOfNaturals
    <3> DEFINE z == Max(F)
    <3>3. z \in 1..(L + K) /\ z >= L + m /\ L + m >= z
      BY <2>5, <2>6, <3>1, <3>2
    <3>4. m \in 1..K
      BY <2>1
    <3> HIDE DEF z
    <3>5. z = L + m
      <4>1. z \in Int /\ L \in Int /\ m \in Int
        BY <1>1, <3>3, <3>4
      <4>2. \A a, b, c \in Int : a >= b + c /\ b + c >= a => a = b + c
        OBVIOUS
      <4> QED BY <3>3, <4>1, <4>2
    <3> QED BY <3>5 DEF z
  <2>8. SubSeq(w, L + i, Max(F)) = SubSeq(u, i, m)
    BY <1>1, <1>2, <2>1, <2>5, <2>7
  <2> QED BY <2>8 DEF NameAt, E, F, m
<1> QED BY <1>5, <1>6 DEF w, L

\* What a text says of a contact, the texts after it do not change; where it says
\* nothing, the next one is heard.
LEMMA ContactsApart ==
  ASSUME NEW t \in Seq(Token), NEW u \in Seq(Token), Closed(t), NEW f
  PROVE  ContactIn(t \o u, f) = IF ContactIn(t, f) # <<>> THEN ContactIn(t, f) ELSE ContactIn(u, f)
<1> DEFINE w == t \o u
           L == Len(t)
<1>1. L \in Nat /\ DOMAIN t = 1..L /\ DOMAIN u \subseteq Nat \ {0}
      /\ DOMAIN u = 1..Len(u) /\ Len(u) \in Nat /\ DOMAIN w = 1..(L + Len(u))
  BY TextsApart
<1>2. /\ Telephones(w) = Telephones(t) \cup Shifted(L, Telephones(u))
      /\ \A i \in Telephones(t) : TelephoneAt(w, i) = TelephoneAt(t, i)
      /\ \A i \in Telephones(u) : TelephoneAt(w, L + i) = TelephoneAt(u, i)
  BY TelephonesApart
<1>3. /\ \A i \in 1..L : i \in Introduced(w) <=> i \in Introduced(t)
      /\ \A i \in 1..Len(u) : L + i \in Introduced(w) <=> i \in Introduced(u)
      /\ \A i \in Introduced(t) : NameAt(w, i) = NameAt(t, i)
      /\ \A i \in Introduced(u) : NameAt(w, L + i) = NameAt(u, i)
  BY IntroducedApart, NamesApart
<1>4. /\ Telephones(t) \in SUBSET (1..L) /\ Telephones(u) \in SUBSET (Nat \ {0})
      /\ Introduced(t) \in SUBSET (1..L) /\ Introduced(u) \in SUBSET (Nat \ {0})
      /\ Introduced(w) \subseteq 1..(L + Len(u)) /\ Introduced(u) \subseteq 1..Len(u)
  BY <1>1 DEF Telephones, Introduced
<1>5. /\ \A i \in Telephones(t) : TelephoneAt(t, i) # <<>>
      /\ \A i \in Introduced(t) : NameAt(t, i) # <<>>
  BY MatchesOfTokens
<1> HIDE DEF w, L
<1>6. \A x : x \in Introduced(w) <=> x \in Introduced(t) \/ \E i \in Introduced(u) : x = L + i
  <2>1. \A x \in 1..(L + Len(u)) : x \in 1..L \/ \E i \in 1..Len(u) : x = L + i
    <3> SUFFICES ASSUME NEW x \in 1..(L + Len(u)), x \notin 1..L PROVE \E i \in 1..Len(u) : x = L + i
      OBVIOUS
    <3>1. x - L \in 1..Len(u) /\ x = L + (x - L)
      BY <1>1
    <3> QED BY <3>1
  <2> QED BY <1>3, <1>4, <2>1
<1>7. PhoneIn(w) = IF PhoneIn(t) # <<>> THEN PhoneIn(t) ELSE PhoneIn(u)
  <2> DEFINE A == Telephones(t)
             B == Telephones(u)
             C == Telephones(w)
  <2>1. /\ A \in SUBSET (1..L) /\ B \in SUBSET (Nat \ {0})
        /\ C = A \cup Shifted(L, B)
    BY <1>2, <1>4
  <2> HIDE DEF A, B, C
  <2>2. /\ A # {} => Min(A) \in A /\ Min(C) = Min(A)
        /\ A = {} /\ B # {} => Min(B) \in B /\ Min(C) = L + Min(B)
        /\ C = {} <=> A = {} /\ B = {}
    <3>1. L \in Nat
      BY <1>1
    <3> DEFINE X == A \cup Shifted(L, B)
    <3>2. /\ A # {} => Min(A) \in A /\ Min(X) = Min(A)
          /\ A = {} /\ B # {} => Min(B) \in B /\ Min(X) = L + Min(B)
          /\ X = {} <=> A = {} /\ B = {}
      BY ONLY <2>1, <3>1, FirstOfTwo
    <3> QED BY <2>1, <3>2
  <2>3. CASE A # {}
    <3>1. PhoneIn(t) = TelephoneAt(t, Min(A)) /\ PhoneIn(w) = TelephoneAt(w, Min(A))
      BY <2>2, <2>3 DEF PhoneIn, A, C
    <3> QED BY <1>2, <1>5, <2>2, <2>3, <3>1 DEF A
  <2>4. CASE A = {} /\ B # {}
    <3>1. /\ PhoneIn(t) = <<>> /\ PhoneIn(u) = TelephoneAt(u, Min(B))
          /\ PhoneIn(w) = TelephoneAt(w, L + Min(B))
      BY <2>2, <2>4 DEF PhoneIn, A, B, C
    <3> QED BY <1>2, <2>2, <2>4, <3>1 DEF B
  <2>5. CASE A = {} /\ B = {}
    BY <2>2, <2>5 DEF PhoneIn, A, B, C
  <2> QED BY <2>3, <2>4, <2>5
<1>8. NameIn(w) = IF NameIn(t) # <<>> THEN NameIn(t) ELSE NameIn(u)
  <2> DEFINE A == Introduced(t)
             B == Introduced(u)
             C == Introduced(w)
  <2>1. /\ A \in SUBSET (1..L) /\ B \in SUBSET (Nat \ {0})
        /\ C = A \cup Shifted(L, B)
    <3>1. \A x : x \in A \cup Shifted(L, B) <=> x \in A \/ \E i \in B : x = L + i
      BY DEF Shifted
    <3> HIDE DEF A, B, C
    <3>2. C = A \cup Shifted(L, B)
      BY <1>6, <3>1 DEF A, B, C
    <3> QED BY <1>4, <3>2 DEF A, B
  <2> HIDE DEF A, B, C
  <2>2. /\ A # {} => Min(A) \in A /\ Min(C) = Min(A)
        /\ A = {} /\ B # {} => Min(B) \in B /\ Min(C) = L + Min(B)
        /\ C = {} <=> A = {} /\ B = {}
    <3>1. L \in Nat
      BY <1>1
    <3> DEFINE X == A \cup Shifted(L, B)
    <3>2. /\ A # {} => Min(A) \in A /\ Min(X) = Min(A)
          /\ A = {} /\ B # {} => Min(B) \in B /\ Min(X) = L + Min(B)
          /\ X = {} <=> A = {} /\ B = {}
      BY ONLY <2>1, <3>1, FirstOfTwo
    <3> QED BY <2>1, <3>2
  <2>3. CASE A # {}
    <3>1. NameIn(t) = NameAt(t, Min(A)) /\ NameIn(w) = NameAt(w, Min(A))
      BY <2>2, <2>3 DEF NameIn, A, C
    <3> QED BY <1>3, <1>5, <2>2, <2>3, <3>1 DEF A
  <2>4. CASE A = {} /\ B # {}
    <3>1. /\ NameIn(t) = <<>> /\ NameIn(u) = NameAt(u, Min(B))
          /\ NameIn(w) = NameAt(w, L + Min(B))
      BY <2>2, <2>4 DEF NameIn, A, B, C
    <3> QED BY <1>3, <2>2, <2>4, <3>1 DEF B
  <2>5. CASE A = {} /\ B = {}
    BY <2>2, <2>5 DEF NameIn, A, B, C
  <2> QED BY <2>3, <2>4, <2>5
<1> QED BY <1>7, <1>8 DEF ContactIn, w

\* What holds of no message, and of one message more, holds of every text.
LEMMA SequencesGrow ==
  ASSUME NEW M, NEW Q, <<>> \in Q, \A s \in Seq(M) : \A m \in M : s \in Q => s \o <<m>> \in Q
  PROVE  Seq(M) \subseteq Q
<1> SUFFICES ASSUME NEW s \in Seq(M), s \notin Q PROVE FALSE
  OBVIOUS
<1> DEFINE L   == Len(s)
           Bad == {n \in 0..L : SubSeq(s, 1, n) \notin Q}
<1>1. L \in Nat /\ SubSeq(s, 1, L) = s
  BY SubSeqFull
<1>2. Bad \in SUBSET Nat /\ L \in Bad
  <2>1. SubSeq(s, 1, L) \notin Q
    BY <1>1
  <2>2. L \in 0..L /\ \A n \in 0..L : n \in Nat
    <3> HIDE DEF L
    <3> QED BY <1>1
  <2> HIDE DEF L
  <2> QED BY <2>1, <2>2
<1>3. Min(Bad) \in Bad /\ \A x \in Bad : Min(Bad) <= x
  <2> HIDE DEF Bad
  <2> QED BY <1>2, MinOfNaturals
<1> DEFINE n == Min(Bad)
<1>4. n \in 0..L /\ SubSeq(s, 1, n) \notin Q
  BY <1>3
<1>5. n # 0
  <2>1. SubSeq(s, 1, 0) = <<>>
    BY SubSeqEmpty
  <2> HIDE DEF n
  <2> QED BY <1>4, <2>1
<1>6. n - 1 \in 0..L /\ n - 1 \notin Bad
  <2> HIDE DEF Bad
  <2>1. n - 1 \in 0..L
    <3> HIDE DEF n
    <3> QED BY <1>1, <1>4, <1>5
  <2>2. ~(n <= n - 1)
    <3> HIDE DEF n
    <3> QED BY <1>1, <1>4
  <2> QED BY <1>3, <2>1, <2>2
<1>7. SubSeq(s, 1, n - 1) \in Q
  BY <1>6
<1> HIDE DEF n, Bad
<1>8. /\ SubSeq(s, 1, n) = SubSeq(s, 1, n - 1) \o <<s[n]>> /\ s[n] \in M
      /\ SubSeq(s, 1, n - 1) \in Seq(M)
  <2>1. 1 \in 1..Len(s) /\ n \in 1..Len(s) /\ \A i \in 1..n - 1 : i \in 1..Len(s)
    BY <1>1, <1>4, <1>5
  <2>2. SubSeq(s, 1, n) = SubSeq(s, 1, n - 1) \o <<s[n]>>
    BY <2>1, SubSeqRecursiveSecond
  <2>3. n - 1 \in Int /\ s[n] \in M
    BY <2>1
  <2>4. SubSeq(s, 1, n - 1) \in Seq(M)
    BY <2>1, <2>3, SubSeqProperties
  <2> QED BY <2>2, <2>3, <2>4
<1> QED BY <1>4, <1>7, <1>8

\* A text that ends in a mark, and where every name is introduced.
Neat(t) ==
  /\ t # <<>> => t[Len(t)] \in {".", "?"}
  /\ Mentioned(t) = {}

\* It stays so when another one follows.
LEMMA NeatApart ==
  ASSUME NEW t \in Seq(Token), NEW u \in Seq(Token), Neat(t), Neat(u)
  PROVE  Closed(t) /\ t \o u \in Seq(Token) /\ Neat(t \o u)
<1> DEFINE w == t \o u
           L == Len(t)
           K == Len(u)
<1>1. Closed(t)
  BY DEF Neat, Closed
<1>2. /\ L \in Nat /\ K \in Nat /\ w \in Seq(Token) /\ Len(w) = L + K
      /\ \A i \in 1..L : w[i] = t[i]
      /\ \A i \in 1..K : w[L + i] = u[i]
  BY <1>1, TextsApart
<1>3. Mentioned(w) = {}
  BY <1>1, IntroducedApart DEF Neat
<1>4. w # <<>> => w[Len(w)] \in {".", "?"}
  <2>1. CASE K = 0
    <3>1. u = <<>> /\ w = t
      BY <2>1, ConcatEmptySeq
    <3> QED BY <3>1 DEF Neat
  <2>2. CASE K # 0
    <3>1. u[K] \in {".", "?"}
      <4>1. u # <<>>
        BY <2>2
      <4> QED BY <4>1 DEF Neat
    <3> HIDE DEF w, L, K
    <3>2. K \in 1..K /\ w[Len(w)] = u[K]
      BY <1>2, <2>2
    <3> QED BY <3>1, <3>2
  <2> QED BY <2>1, <2>2
<1> HIDE DEF w
<1>5. w \in Seq(Token) /\ Neat(w)
  BY <1>2, <1>3, <1>4 DEF Neat
<1> QED BY <1>1, <1>5 DEF w

\* Tidy messages, put together, make such a text.
LEMMA NeatJoined ==
  ASSUME NEW M, \A m \in M : m.text \in Seq(Token) /\ Neat(m.text), NEW text \in Seq(M)
  PROVE  Joined(text) \in Seq(Token) /\ Neat(Joined(text))
<1> DEFINE Q == {s \in Seq(M) : Joined(s) \in Seq(Token) /\ Neat(Joined(s))}
<1>1. <<>> \in Q
  <2>1. Mentioned(<<>>) = {}
    BY DEF Mentioned
  <2>2. Joined(<<>>) \in Seq(Token) /\ Neat(Joined(<<>>))
    <3>1. <<>> \in Seq(Token)
      OBVIOUS
    <3> QED BY <2>1, <3>1, JoinedNothing, Zenon DEF Neat
  <2> QED BY <2>2
<1>2. ASSUME NEW s \in Seq(M), NEW m \in M, s \in Q PROVE s \o <<m>> \in Q
  <2>1. Joined(s \o <<m>>) = Joined(s) \o m.text
    BY JoinedAppend
  <2>2. Joined(s) \in Seq(Token) /\ Neat(Joined(s)) /\ m.text \in Seq(Token) /\ Neat(m.text)
    BY <1>2
  <2>3. Joined(s) \o m.text \in Seq(Token) /\ Neat(Joined(s) \o m.text)
    BY <2>2, NeatApart
  <2>4. s \o <<m>> \in Seq(M)
    BY ConcatProperties
  <2> QED BY <2>1, <2>3, <2>4
<1>3. Seq(M) \subseteq Q
  <2> HIDE DEF Q
  <2> QED BY <1>1, <1>2, SequencesGrow
<1> QED BY <1>3

\* What such a text says of a contact stays when tidy messages follow it.
LEMMA ContactStays ==
  ASSUME NEW M, \A m \in M : m.text \in Seq(Token) /\ Neat(m.text),
         NEW s \in Seq(M), NEW t \in Seq(M), NEW f, ContactIn(Joined(s), f) # <<>>
  PROVE  ContactIn(Joined(s \o t), f) = ContactIn(Joined(s), f)
<1> DEFINE v == ContactIn(Joined(s), f)
           Q == {u \in Seq(M) : ContactIn(Joined(s \o u), f) = v}
<1>1. <<>> \in Q
  <2>1. s \o <<>> = s
    BY ConcatEmptySeq
  <2> QED BY <2>1
<1>2. ASSUME NEW u \in Seq(M), NEW m \in M, u \in Q PROVE u \o <<m>> \in Q
  <2>1. /\ s \o u \in Seq(M) /\ <<m>> \in Seq(M) /\ u \o <<m>> \in Seq(M)
        /\ (s \o u) \o <<m>> = s \o (u \o <<m>>)
    <3>1. <<m>> \in Seq(M)
      OBVIOUS
    <3> QED BY <3>1, ConcatProperties, ConcatAssociative
  <2>2. Joined((s \o u) \o <<m>>) = Joined(s \o u) \o m.text
    <3> DEFINE x == s \o u
    <3>1. x \in Seq(M)
      BY <2>1
    <3> HIDE DEF x
    <3>2. Joined(x \o <<m>>) = Joined(x) \o m.text
      BY <3>1, JoinedAppend
    <3> QED BY <3>2 DEF x
  <2>3. Joined(s \o u) \in Seq(Token) /\ Neat(Joined(s \o u))
    BY <2>1, NeatJoined
  <2>4. Closed(Joined(s \o u))
    BY <2>3 DEF Neat, Closed
  <2>5. ContactIn(Joined(s \o u), f) # <<>>
    BY <1>2
  <2>6. ContactIn(Joined(s \o u) \o m.text, f) = ContactIn(Joined(s \o u), f)
    BY <2>3, <2>4, <2>5, ContactsApart
  <2>7. ContactIn(Joined(s \o (u \o <<m>>)), f) = v
    BY <1>2, <2>1, <2>2, <2>6
  <2> QED BY <2>1, <2>7
<1>3. Seq(M) \subseteq Q
  <2> HIDE DEF Q
  <2> QED BY <1>1, <1>2, SequencesGrow
<1> QED BY <1>3

\* Where such a text gives no contact, neither does any message of it.
LEMMA PartsGiveNothing ==
  ASSUME NEW M, \A m \in M : m.text \in Seq(Token) /\ Neat(m.text),
         NEW s \in Seq(M), NEW f, ContactIn(Joined(s), f) = <<>>, NEW k \in 1..Len(s)
  PROVE  ContactIn(s[k].text, f) = <<>>
<1> DEFINE Q == {u \in Seq(M) : ContactIn(Joined(u), f) = <<>>
                                => \A i \in 1..Len(u) : ContactIn(u[i].text, f) = <<>>}
<1>1. <<>> \in Q
  OBVIOUS
<1>2. ASSUME NEW u \in Seq(M), NEW m \in M, u \in Q PROVE u \o <<m>> \in Q
  <2>1. /\ u \o <<m>> \in Seq(M) /\ Len(u \o <<m>>) = Len(u) + 1 /\ Len(u) \in Nat
        /\ \A i \in 1..Len(u) : (u \o <<m>>)[i] = u[i]
        /\ (u \o <<m>>)[Len(u) + 1] = m
    <3>1. <<m>> \in Seq(M) /\ Len(<<m>>) = 1
      OBVIOUS
    <3>2. u \o <<m>> \in Seq(M) /\ Len(u \o <<m>>) = Len(u) + 1
      BY <3>1
    <3> QED BY <3>1, <3>2
  <2>2. Joined(u \o <<m>>) = Joined(u) \o m.text
    BY JoinedAppend
  <2>3. Joined(u) \in Seq(Token) /\ Neat(Joined(u))
    BY NeatJoined
  <2>4. Closed(Joined(u))
    BY <2>3 DEF Neat, Closed
  <2>5. ContactIn(Joined(u) \o m.text, f) =
          IF ContactIn(Joined(u), f) # <<>> THEN ContactIn(Joined(u), f) ELSE ContactIn(m.text, f)
    BY <2>3, <2>4, ContactsApart
  <2>6. ASSUME ContactIn(Joined(u \o <<m>>), f) = <<>>, NEW i \in 1..Len(u) + 1
        PROVE  ContactIn((u \o <<m>>)[i].text, f) = <<>>
    <3>1. ContactIn(Joined(u), f) = <<>> /\ ContactIn(m.text, f) = <<>>
      BY <2>2, <2>5, <2>6
    <3>2. \A j \in 1..Len(u) : ContactIn(u[j].text, f) = <<>>
      BY <1>2, <3>1
    <3>3. i \in 1..Len(u) \/ i = Len(u) + 1
      BY <2>1
    <3> QED BY <2>1, <3>1, <3>2, <3>3
  <2> QED BY <2>1, <2>6
<1>3. Seq(M) \subseteq Q
  <2> HIDE DEF Q
  <2> QED BY <1>1, <1>2, SequencesGrow
<1> QED BY <1>3
=============================================================================
