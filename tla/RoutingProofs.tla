--------------------------- MODULE RoutingProofs ---------------------------
(***************************************************************************)
(* Theorems about the configurations two kernel packages build from one    *)
(* specification: the same inbound, and the same way for every connection. *)
(***************************************************************************)
EXTENDS ConfigIntake, FiniteSetTheorems, TLAPS

----------------------------------------------------------------------------
(* Induction over numbers, by least elements.                              *)

LEMMA LeastElement ==
  ASSUME NEW T, T \subseteq Nat, T # {}
  PROVE  \E x \in T : \A y \in T : x <= y
<1> DEFINE R == OpToRel(<, Nat)
<1>1. IsWellFoundedOn(R, Nat)
  BY NatLessThanWellFounded
<1>2. \A x, y \in Nat : y < x => <<y, x>> \in R
  BY DEF OpToRel
<1> HIDE DEF R
<1>3. PICK x \in T : \A y \in T : ~ (<<y, x>> \in R)
  BY <1>1, WFMin
<1>4. \A y \in T : ~(y < x)
  BY <1>2, <1>3
<1> QED BY <1>3, <1>4

LEMMA Induction ==
  ASSUME NEW T, 0 \in T, \A n \in Nat : n \in T => n + 1 \in T
  PROVE  Nat \subseteq T
<1> SUFFICES ASSUME Nat \ T # {} PROVE FALSE
  OBVIOUS
<1>1. PICK x \in Nat \ T : \A y \in Nat \ T : x <= y
  BY LeastElement
<1>2. x - 1 \in Nat /\ x - 1 < x /\ (x - 1) + 1 = x
  BY <1>1
<1>3. x - 1 \in T
  BY <1>1, <1>2
<1> QED BY <1>1, <1>2, <1>3

----------------------------------------------------------------------------
(* The first entry that takes a connection.                                *)

\* No prover takes a literal for a STRING, so those that occur are added.
Kinds == RuleKinds \cup {"keywords", "geosites"}
Words   == STRING \cup {"direct", "block"}
Meets   == (STRING \cup Kinds) \X (STRING \cup {"private4", "private6"})
Rows    == [any : SUBSET Meets, out : Words]

LEMMA EntriesAreRows == Seq(Entries) \subseteq Seq(Rows)
<1>1. Entries \subseteq Rows
  BY DEF Entries, Rows, Criteria, Meets, Words
<1> QED BY <1>1

Takers(rules, c) == {i \in DOMAIN rules : rules[i].any \cap c # {}}

LEMMA FirstDecides ==
  ASSUME NEW rules \in Seq(Rows), NEW c, NEW i \in Takers(rules, c),
         \A j \in Takers(rules, c) : i <= j
  PROVE  Decide(rules, c) = rules[i].out
<1>1. Takers(rules, c) = {j \in 1..Len(rules) : rules[j].any \cap c # {}}
  BY DEF Takers
<1>2. Min(Takers(rules, c)) = i /\ i # 0
  <2>1. Takers(rules, c) \subseteq Nat \ {0}
    BY <1>1
  <2> QED BY <2>1 DEF Min
<1>3. SelectInSeq(rules, LAMBDA e : e.any \cap c # {}) = i
  BY <1>1, <1>2 DEF SelectInSeq
<1> QED BY <1>2, <1>3 DEF Decide

LEMMA NobodyDecides ==
  ASSUME NEW rules \in Seq(Rows), NEW c, Takers(rules, c) = {}
  PROVE  Decide(rules, c) = "direct"
<1>1. {j \in 1..Len(rules) : rules[j].any \cap c # {}} = {}
  BY DEF Takers
<1>2. SelectInSeq(rules, LAMBDA e : e.any \cap c # {}) = 0
  BY <1>1 DEF SelectInSeq
<1> QED BY <1>2 DEF Decide

LEMMA Somebody ==
  ASSUME NEW rules \in Seq(Rows), NEW c, Takers(rules, c) # {}
  PROVE  \E i \in Takers(rules, c) :
           (\A j \in Takers(rules, c) : i <= j) /\ Decide(rules, c) = rules[i].out
<1>1. Takers(rules, c) \subseteq Nat
  BY DEF Takers
<1> QED BY <1>1, LeastElement, FirstDecides

\* A list decides unless none of its entries takes the connection; then the next one does.
LEMMA ConcatDecides ==
  ASSUME NEW a \in Seq(Rows), NEW b \in Seq(Rows), NEW c
  PROVE  /\ Takers(a \o b, c) = {} <=> Takers(a, c) = {} /\ Takers(b, c) = {}
         /\ Decide(a \o b, c) = IF Takers(a, c) # {} THEN Decide(a, c) ELSE Decide(b, c)
<1> DEFINE ab == a \o b
<1>1. /\ ab \in Seq(Rows) /\ Len(ab) = Len(a) + Len(b)
      /\ DOMAIN ab = 1..Len(ab) /\ DOMAIN a = 1..Len(a) /\ DOMAIN b = 1..Len(b)
      /\ Len(a) \in Nat /\ Len(b) \in Nat
      /\ \A i \in 1..Len(a) : ab[i] = a[i]
      /\ \A i \in 1..Len(b) : ab[Len(a) + i] = b[i]
  OBVIOUS
<1>2. \A i \in DOMAIN a : i \in Takers(ab, c) <=> i \in Takers(a, c)
  BY <1>1 DEF Takers
<1>3. \A i \in DOMAIN b : Len(a) + i \in Takers(ab, c) <=> i \in Takers(b, c)
  BY <1>1 DEF Takers
<1>4. \A i \in Takers(ab, c) :
        i \in DOMAIN a \/ \E j \in DOMAIN b : i = Len(a) + j
  <2> SUFFICES ASSUME NEW i \in Takers(ab, c), i \notin DOMAIN a
               PROVE  \E j \in DOMAIN b : i = Len(a) + j
    OBVIOUS
  <2>1. i \in 1..Len(ab)
    BY <1>1 DEF Takers
  <2>2. i - Len(a) \in DOMAIN b /\ i = Len(a) + (i - Len(a))
    BY <1>1, <2>1
  <2> QED BY <2>2
<1>5. Takers(ab, c) \subseteq DOMAIN ab /\ Takers(a, c) \subseteq DOMAIN a
      /\ Takers(b, c) \subseteq DOMAIN b
  BY DEF Takers
<1> HIDE DEF ab
<1>6. Takers(ab, c) = {} <=> Takers(a, c) = {} /\ Takers(b, c) = {}
  BY <1>1, <1>2, <1>3, <1>4, <1>5
<1>7. CASE Takers(a, c) # {}
  <2>1. PICK i \in Takers(a, c) :
          (\A j \in Takers(a, c) : i <= j) /\ Decide(a, c) = a[i].out
    BY <1>7, Somebody
  <2>2. \A j \in Takers(ab, c) : i <= j
    BY <1>1, <1>2, <1>4, <1>5, <2>1
  <2>3. Decide(ab, c) = ab[i].out
    BY <1>1, <1>2, <1>5, <2>2, FirstDecides
  <2> QED BY <1>1, <1>5, <1>6, <1>7, <2>1, <2>3 DEF ab
<1>8. CASE Takers(a, c) = {} /\ Takers(b, c) # {}
  <2>1. PICK i \in Takers(b, c) :
          (\A j \in Takers(b, c) : i <= j) /\ Decide(b, c) = b[i].out
    BY <1>8, Somebody
  <2>2. Len(a) + i \in Takers(ab, c)
    BY <1>3, <1>5
  <2>3. \A j \in Takers(ab, c) : Len(a) + i <= j
    BY <1>1, <1>2, <1>3, <1>4, <1>5, <1>8, <2>1, SMTT(30)
  <2>4. Decide(ab, c) = ab[Len(a) + i].out
    BY <1>1, <2>2, <2>3, FirstDecides
  <2> QED BY <1>1, <1>5, <1>6, <1>8, <2>1, <2>4 DEF ab
<1>9. CASE Takers(a, c) = {} /\ Takers(b, c) = {}
  BY <1>1, <1>6, <1>9, NobodyDecides DEF ab
<1> QED BY <1>7, <1>8, <1>9

\* Two lists that do the same with a connection.
Same(a, b, c) ==
  (Takers(a, c) = {} <=> Takers(b, c) = {}) /\ Decide(a, c) = Decide(b, c)

LEMMA SameConcat ==
  ASSUME NEW a \in Seq(Rows), NEW b \in Seq(Rows), NEW x \in Seq(Rows),
         NEW y \in Seq(Rows), NEW c, Same(a, b, c), Same(x, y, c)
  PROVE  Same(a \o x, b \o y, c)
BY ConcatDecides DEF Same

----------------------------------------------------------------------------
(* Lists put together from parts.                                          *)

\* FlattenSeq by the lists it has put together after each part.
Joins(f, s) ==
  f[0] = <<>> /\ \A i \in 1..Len(s) : f[i] = f[i - 1] \o s[i]

Joining(f, s, n) ==
  f = [i \in 1..n |-> IF i = 1 THEN s[i] ELSE f[i - 1] \o s[i]]

LEMMA JoiningExists ==
  ASSUME NEW E, NEW s \in Seq(Seq(E))
  PROVE  \E f : Joining(f, s, Len(s))
<1> DEFINE T == {n \in Nat : \E f : Joining(f, s, n)}
<1>1. 0 \in T
  <2>1. Joining(<<>>, s, 0)
    BY DEF Joining
  <2> QED BY <2>1
<1>2. ASSUME NEW n \in Nat, n \in T PROVE n + 1 \in T
  <2>1. PICK f : Joining(f, s, n)
    BY <1>2
  <2> DEFINE g == [i \in 1..(n + 1) |->
                     IF i <= n THEN f[i] ELSE IF i = 1 THEN s[i] ELSE f[i - 1] \o s[i]]
  <2>2. \A i \in 1..n : f[i] = IF i = 1 THEN s[i] ELSE f[i - 1] \o s[i]
    BY <2>1 DEF Joining
  <2>3. ASSUME NEW i \in 1..(n + 1)
        PROVE  g[i] = IF i = 1 THEN s[i] ELSE g[i - 1] \o s[i]
    <3>1. i # 1 => i - 1 \in 1..(n + 1) /\ i - 1 <= n
      OBVIOUS
    <3>2. i # 1 => g[i - 1] = f[i - 1]
      BY <3>1
    <3>3. g[i] = IF i <= n THEN f[i] ELSE IF i = 1 THEN s[i] ELSE f[i - 1] \o s[i]
      OBVIOUS
    <3> HIDE DEF g
    <3> QED BY <2>2, <3>2, <3>3
  <2>4. Joining(g, s, n + 1)
    <3>1. g = [i \in 1..(n + 1) |-> g[i]]
      OBVIOUS
    <3> HIDE DEF g
    <3> QED BY <2>3, <3>1 DEF Joining
  <2> QED BY <2>4
<1> HIDE DEF T
<1>3. Nat \subseteq T
  BY <1>1, <1>2, Induction
<1>4. Len(s) \in T
  BY <1>3
<1> QED BY <1>4 DEF T

LEMMA Flattening ==
  ASSUME NEW E, NEW s \in Seq(Seq(E))
  PROVE  \E f : Joins(f, s) /\ FlattenSeq(s) = f[Len(s)] /\ \A i \in 0..Len(s) : f[i] \in Seq(E)
<1> DEFINE n == Len(s)
           h == CHOOSE f : Joining(f, s, n)
           f == [i \in 0..n |-> IF i = 0 THEN <<>> ELSE h[i]]
           T == {m \in Nat : m <= n => f[m] \in Seq(E)}
<1>1. Joining(h, s, n)
  BY JoiningExists
<1>2. n \in Nat /\ \A i \in 1..n : s[i] \in Seq(E)
  OBVIOUS
<1>3. n # 0 => FlattenSeq(s) = h[n]
  BY DEF FlattenSeq, Joining
<1> HIDE DEF h, n
<1>4. \A i \in 1..n : h[i] = IF i = 1 THEN s[i] ELSE h[i - 1] \o s[i]
  BY <1>1 DEF Joining
<1>5. f[0] = <<>> /\ \A i \in 1..n : f[i] = h[i]
  BY <1>2
<1> HIDE DEF f
<1>6. ASSUME NEW i \in 1..n PROVE f[i] = f[i - 1] \o s[i]
  <2>1. CASE i = 1
    <3>1. <<>> \o s[i] = s[i]
      BY <1>2
    <3>2. f[i] = s[i] /\ f[i - 1] = <<>>
      BY <1>4, <1>5, <2>1
    <3> QED BY <3>1, <3>2
  <2>2. CASE i # 1
    <3>1. i - 1 \in 1..n
      BY <1>2, <2>2
    <3>2. f[i] = h[i] /\ f[i - 1] = h[i - 1]
      BY <1>5, <3>1
    <3> QED BY <1>4, <2>2, <3>2
  <2> QED BY <2>1, <2>2
<1>7. 0 \in T
  <2>1. <<>> \in Seq(E)
    OBVIOUS
  <2> QED BY <1>5, <2>1
<1>8. ASSUME NEW m \in Nat, m \in T PROVE m + 1 \in T
  <2> SUFFICES ASSUME m + 1 <= n PROVE f[m + 1] \in Seq(E)
    OBVIOUS
  <2>1. m + 1 \in 1..n /\ m <= n /\ (m + 1) - 1 = m
    BY <1>2
  <2>2. f[m] \in Seq(E) /\ s[m + 1] \in Seq(E)
    BY <1>2, <1>8, <2>1
  <2>3. f[m + 1] = f[m] \o s[m + 1]
    BY <1>6, <2>1
  <2> QED BY <2>2, <2>3
<1>9. Nat \subseteq T
  <2> HIDE DEF T
  <2> QED BY <1>7, <1>8, Induction
<1>10. ASSUME NEW i \in 0..n PROVE f[i] \in Seq(E)
  <2>1. i \in T /\ i <= n
    BY <1>2, <1>9
  <2> QED BY <2>1
<1>11. FlattenSeq(s) = f[n]
  <2>1. CASE n = 0
    <3>1. FlattenSeq(s) = s /\ s = <<>>
      BY <2>1 DEF FlattenSeq, n
    <3> QED BY <1>5, <2>1, <3>1
  <2>2. CASE n # 0
    BY <1>2, <1>3, <1>5, <2>2
  <2> QED BY <2>1, <2>2
<1> QED BY <1>5, <1>6, <1>10, <1>11 DEF Joins, n

LEMMA FlattenType ==
  ASSUME NEW E, NEW s \in Seq(Seq(E))
  PROVE  FlattenSeq(s) \in Seq(E)
BY Flattening

\* Lists of the same parts, one by one, do the same with a connection.
LEMMA FlattenSame ==
  ASSUME NEW s \in Seq(Seq(Rows)), NEW t \in Seq(Seq(Rows)), NEW c, Len(s) = Len(t),
         \A i \in 1..Len(s) : Same(s[i], t[i], c)
  PROVE  Same(FlattenSeq(s), FlattenSeq(t), c)
<1> DEFINE n == Len(s)
<1>0. n \in Nat /\ n = Len(t)
      /\ \A i \in 1..n : s[i] \in Seq(Rows) /\ t[i] \in Seq(Rows) /\ Same(s[i], t[i], c)
  OBVIOUS
<1>1. PICK f : Joins(f, s) /\ FlattenSeq(s) = f[n] /\ \A i \in 0..n : f[i] \in Seq(Rows)
  BY Flattening
<1>2. PICK g : Joins(g, t) /\ FlattenSeq(t) = g[n] /\ \A i \in 0..n : g[i] \in Seq(Rows)
  BY <1>0, Flattening
<1>3. f[0] = <<>> /\ g[0] = <<>>
      /\ \A i \in 1..n : f[i] = f[i - 1] \o s[i] /\ g[i] = g[i - 1] \o t[i]
  BY <1>0, <1>1, <1>2 DEF Joins
<1> HIDE DEF n
<1> DEFINE T == {m \in Nat : m <= n => Same(f[m], g[m], c)}
<1>4. 0 \in T
  BY <1>3 DEF Same
<1>5. ASSUME NEW m \in Nat, m \in T PROVE m + 1 \in T
  <2> SUFFICES ASSUME m + 1 <= n PROVE Same(f[m + 1], g[m + 1], c)
    OBVIOUS
  <2>1. m + 1 \in 1..n /\ m \in 0..n /\ (m + 1) - 1 = m
    BY <1>0
  <2>2. Same(f[m], g[m], c)
    BY <1>5, <2>1
  <2>3. f[m + 1] = f[m] \o s[m + 1] /\ g[m + 1] = g[m] \o t[m + 1]
    BY <1>3, <2>1
  <2>4. f[m] \in Seq(Rows) /\ g[m] \in Seq(Rows)
    BY <1>1, <1>2, <2>1
  <2>5. s[m + 1] \in Seq(Rows) /\ t[m + 1] \in Seq(Rows) /\ Same(s[m + 1], t[m + 1], c)
    BY <1>0, <2>1
  <2> QED BY <2>2, <2>3, <2>4, <2>5, SameConcat
<1>6. Nat \subseteq T
  <2> HIDE DEF T
  <2> QED BY <1>4, <1>5, Induction
<1>7. n \in T /\ n <= n
  BY <1>0, <1>6
<1> QED BY <1>1, <1>2, <1>7

LEMMA RangeConcat ==
  ASSUME NEW E, NEW a \in Seq(E), NEW b \in Seq(E)
  PROVE  Range(a \o b) = Range(a) \cup Range(b)
<1>1. \A e \in Range(a) : e \in Range(a \o b)
  <2> SUFFICES ASSUME NEW i \in 1..Len(a) PROVE a[i] \in Range(a \o b)
    BY DEF Range
  <2>1. i \in DOMAIN (a \o b) /\ (a \o b)[i] = a[i]
    OBVIOUS
  <2> QED BY <2>1 DEF Range
<1>2. \A e \in Range(b) : e \in Range(a \o b)
  <2> SUFFICES ASSUME NEW i \in 1..Len(b) PROVE b[i] \in Range(a \o b)
    BY DEF Range
  <2>1. Len(a) + i \in DOMAIN (a \o b) /\ (a \o b)[Len(a) + i] = b[i]
    OBVIOUS
  <2> QED BY <2>1 DEF Range
<1>3. \A e \in Range(a \o b) : e \in Range(a) \cup Range(b)
  <2> SUFFICES ASSUME NEW i \in 1..(Len(a) + Len(b)) PROVE (a \o b)[i] \in Range(a) \cup Range(b)
    BY DEF Range
  <2>1. CASE i <= Len(a)
    BY <2>1 DEF Range
  <2>2. CASE ~(i <= Len(a))
    <3>1. i - Len(a) \in DOMAIN b /\ (a \o b)[i] = b[i - Len(a)]
      BY <2>2
    <3> QED BY <3>1 DEF Range
  <2> QED BY <2>1, <2>2
<1> QED BY <1>1, <1>2, <1>3

LEMMA FlattenRange ==
  ASSUME NEW E, NEW s \in Seq(Seq(E))
  PROVE  Range(FlattenSeq(s)) = UNION {Range(s[i]) : i \in DOMAIN s}
<1> DEFINE n == Len(s)
<1>0. n \in Nat /\ DOMAIN s = 1..n /\ \A i \in 1..n : s[i] \in Seq(E)
  OBVIOUS
<1>1. PICK f : Joins(f, s) /\ FlattenSeq(s) = f[n] /\ \A i \in 0..n : f[i] \in Seq(E)
  BY Flattening
<1>2. f[0] = <<>> /\ \A i \in 1..n : f[i] = f[i - 1] \o s[i]
  BY <1>1 DEF Joins
<1> HIDE DEF n
<1> DEFINE Holds(m) == \A e : e \in Range(f[m]) <=> \E i \in 1..m : e \in Range(s[i])
           T == {m \in Nat : m <= n => Holds(m)}
<1>3. 0 \in T
  <2>1. Range(f[0]) = {}
    BY <1>2 DEF Range
  <2> QED BY <2>1
<1>4. ASSUME NEW m \in Nat, m \in T PROVE m + 1 \in T
  <2> SUFFICES ASSUME m + 1 <= n PROVE Holds(m + 1)
    OBVIOUS
  <2>1. m + 1 \in 1..n /\ m \in 0..n /\ (m + 1) - 1 = m
    BY <1>0
  <2>2. Holds(m)
    BY <1>4, <2>1
  <2>3. f[m + 1] = f[m] \o s[m + 1]
    BY <1>2, <2>1
  <2>4. Range(f[m + 1]) = Range(f[m]) \cup Range(s[m + 1])
    BY <1>0, <1>1, <2>1, <2>3, RangeConcat
  <2>5. 1..(m + 1) = (1..m) \cup {m + 1}
    OBVIOUS
  <2> QED BY <2>2, <2>4, <2>5
<1>5. Nat \subseteq T
  <2> HIDE DEF T
  <2> QED BY <1>3, <1>4, Induction
<1>6. Holds(n)
  <2>1. n \in T
    BY <1>0, <1>5
  <2> HIDE DEF Holds
  <2> QED BY <1>0, <2>1
<1> QED BY <1>0, <1>1, <1>6

\* What takes a connection is an entry of the list, wherever it stands.
LEMMA TakenByEntry ==
  ASSUME NEW rules, NEW c
  PROVE  Takers(rules, c) # {} <=> \E e \in Range(rules) : e.any \cap c # {}
BY DEF Takers, Range

\* A list whose entries share an outbound.
LEMMA Uniform ==
  ASSUME NEW rules \in Seq(Rows), NEW c, NEW out, \A e \in Range(rules) : e.out = out
  PROVE  Decide(rules, c) = IF Takers(rules, c) # {} THEN out ELSE "direct"
<1>1. CASE Takers(rules, c) # {}
  <2>1. PICK i \in Takers(rules, c) : Decide(rules, c) = rules[i].out
    BY <1>1, Somebody
  <2>2. rules[i] \in Range(rules)
    BY DEF Takers, Range
  <2> QED BY <1>1, <2>1, <2>2
<1>2. CASE Takers(rules, c) = {}
  BY <1>2, NobodyDecides
<1> QED BY <1>1, <1>2

----------------------------------------------------------------------------
(* What the packages make of a rule.                                       *)

KernelTypes == {"singbox", "xray"}

\* A list that sends to `out` the connections that meet one of `match`.
Sends(rules, match, out) ==
  /\ rules \in Seq(Rows)
  /\ \A e \in Range(rules) : e.out = out
  /\ \A c : Takers(rules, c) # {} <=> match \cap c # {}

LEMMA SendsSame ==
  ASSUME NEW a, NEW b, NEW here, NEW there, NEW out, Sends(a, here, out), Sends(b, there, out),
         NEW c, here \cap c # {} <=> there \cap c # {}
  PROVE  Same(a, b, c)
<1>1. Decide(a, c) = IF Takers(a, c) # {} THEN out ELSE "direct"
  BY Uniform DEF Sends
<1>2. Decide(b, c) = IF Takers(b, c) # {} THEN out ELSE "direct"
  BY Uniform DEF Sends
<1>3. Takers(a, c) # {} <=> Takers(b, c) # {}
  BY DEF Sends
<1> QED BY <1>1, <1>2, <1>3 DEF Same

LEMMA MentionsSends ==
  ASSUME NEW match \in SUBSET Meets, NEW kinds, NEW out \in Words
  PROVE  Sends(Mentions(match, kinds, out), {m \in match : m[1] \in kinds}, out)
<1> DEFINE some == {m \in match : m[1] \in kinds}
           list == Mentions(match, kinds, out)
<1>1. CASE some = {}
  <2>1. list = <<>> /\ Range(list) = {}
    BY <1>1 DEF Mentions, Range
  <2>2. list \in Seq(Rows)
    BY <2>1
  <2> HIDE DEF list
  <2>3. \A c : Takers(list, c) = {}
    BY <2>1, TakenByEntry
  <2> QED BY <1>1, <2>1, <2>2, <2>3 DEF Sends, list
<1>2. CASE some # {}
  <2>1. list = <<Entry(some, out)>>
    BY <1>2 DEF Mentions
  <2>2. Entry(some, out) \in Rows
    BY DEF Entry, Rows
  <2>3. Range(list) = {Entry(some, out)} /\ list \in Seq(Rows)
    BY <2>1, <2>2 DEF Range
  <2>4. Entry(some, out).any = some /\ Entry(some, out).out = out
    BY DEF Entry
  <2> HIDE DEF list, some
  <2>5. \A c : Takers(list, c) # {} <=> some \cap c # {}
    BY <2>3, <2>4, TakenByEntry
  <2> QED BY <2>3, <2>4, <2>5 DEF Sends, list, some
<1> QED BY <1>1, <1>2

\* The kinds of criteria a kernel is given.
KindsTo(k) ==
  IF k = "xray" THEN (RuleKinds \ {"domains"}) \cup {"keywords", "geosites"} ELSE RuleKinds

LEMMA GroupsType ==
  ASSUME NEW k \in KernelTypes
  PROVE  /\ Groups(k) \in Seq(SUBSET Kinds)
         /\ UNION {Groups(k)[i] : i \in DOMAIN Groups(k)} = KindsTo(k)
<1>1. Groups("singbox") = SingboxGroups /\ Groups("xray") = XrayGroups
  BY DEF Groups
<1> DEFINE T == SUBSET Kinds
<1>0. /\ {"domains"} \in T /\ {"domain_suffixes"} \in T
      /\ {"keywords", "geosites", "domain_suffixes"} \in T
      /\ {"ip_cidrs"} \in T /\ {"ports"} \in T /\ {"networks"} \in T
      /\ {"source_cidrs"} \in T /\ {"source_ports"} \in T
  BY DEF Kinds, RuleKinds
<1>2. SingboxGroups \in Seq(T)
  <2> HIDE DEF T
  <2> QED BY <1>0 DEF SingboxGroups
<1>3. XrayGroups \in Seq(T)
  <2> HIDE DEF T
  <2> QED BY <1>0 DEF XrayGroups
<1>4. UNION {SingboxGroups[i] : i \in DOMAIN SingboxGroups} = KindsTo("singbox")
  <2>1. DOMAIN SingboxGroups = {1, 2, 3, 4, 5, 6, 7}
    BY DEF SingboxGroups
  <2>2. /\ SingboxGroups[1] = {"domains"} /\ SingboxGroups[2] = {"domain_suffixes"}
        /\ SingboxGroups[3] = {"ip_cidrs"} /\ SingboxGroups[4] = {"ports"}
        /\ SingboxGroups[5] = {"networks"} /\ SingboxGroups[6] = {"source_cidrs"}
        /\ SingboxGroups[7] = {"source_ports"}
    BY DEF SingboxGroups
  <2> QED BY <2>1, <2>2 DEF KindsTo, RuleKinds
<1>5. UNION {XrayGroups[i] : i \in DOMAIN XrayGroups} = KindsTo("xray")
  <2>1. DOMAIN XrayGroups = {1, 2, 3, 4, 5, 6}
    BY DEF XrayGroups
  <2>2. /\ XrayGroups[1] = {"keywords", "geosites", "domain_suffixes"}
        /\ XrayGroups[2] = {"ip_cidrs"} /\ XrayGroups[3] = {"ports"}
        /\ XrayGroups[4] = {"networks"} /\ XrayGroups[5] = {"source_cidrs"}
        /\ XrayGroups[6] = {"source_ports"}
    BY DEF XrayGroups
  <2> QED BY <2>1, <2>2 DEF KindsTo, RuleKinds
<1> QED BY <1>1, <1>2, <1>3, <1>4, <1>5 DEF KernelTypes

\* Both packages group a rule's criteria in their own way, and to the same effect.
Given(k, rule) == IF rule.disabled THEN {} ELSE ReadBy(k, rule.match)

RuleMeets == RuleKinds \X (STRING \cup {"private4", "private6"})

LEMMA ReadType ==
  ASSUME NEW k \in KernelTypes, NEW match \in SUBSET RuleMeets
  PROVE  /\ ReadBy(k, match) \in SUBSET Meets
         /\ \A m \in ReadBy(k, match) : m[1] \in KindsTo(k)
<1> SUFFICES ASSUME NEW m \in match
             PROVE  LET r == IF k = "xray" /\ m[1] = "domains" THEN <<"keywords", m[2]>> ELSE m
                    IN r \in Meets /\ r[1] \in KindsTo(k)
  BY DEF ReadBy
<1>1. m \in RuleMeets /\ m[1] \in RuleKinds /\ m[2] \in STRING \cup {"private4", "private6"}
      /\ m = <<m[1], m[2]>>
  BY DEF RuleMeets
<1>2. CASE k = "xray" /\ m[1] = "domains"
  <2>1. "keywords" \in Kinds /\ "keywords" \in KindsTo(k)
    BY <1>2 DEF Kinds, KindsTo
  <2> QED BY <1>1, <1>2, <2>1 DEF Meets
<1>3. CASE ~(k = "xray" /\ m[1] = "domains")
  <2>1. m[1] \in KindsTo(k) /\ m[1] \in Kinds
    BY <1>1, <1>3 DEF KindsTo, Kinds
  <2> QED BY <1>1, <1>3, <2>1 DEF Meets
<1> QED BY <1>2, <1>3

LEMMA CustomRuleSends ==
  ASSUME NEW k \in KernelTypes, NEW rule, rule.match \in SUBSET RuleMeets,
         OutboundForAction(rule.action) \in Words
  PROVE  Sends(CompileCustomRouteRule(k, rule), Given(k, rule), OutboundForAction(rule.action))
<1> DEFINE groups == Groups(k)
           out    == OutboundForAction(rule.action)
           match  == ReadBy(k, rule.match)
           parts  == [i \in DOMAIN groups |-> Mentions(match, groups[i], out)]
           list   == CompileCustomRouteRule(k, rule)
<1>1. /\ match \in SUBSET Meets /\ out \in Words
      /\ \A m \in match : m[1] \in KindsTo(k)
  BY ReadType
<1>2. CASE rule.disabled
  <2>1. list = <<>> /\ Range(list) = {}
    BY <1>2 DEF CompileCustomRouteRule, Range
  <2>2. list \in Seq(Rows)
    BY <2>1
  <2> HIDE DEF list
  <2>3. \A c : Takers(list, c) = {}
    BY <2>1, TakenByEntry
  <2> QED BY <1>2, <2>1, <2>2, <2>3 DEF Sends, list, Given
<1>3. CASE ~rule.disabled
  <2>1. list = FlattenSeq(parts)
    BY <1>3 DEF CompileCustomRouteRule
  <2> HIDE DEF out, list, match
  <2>2. \A i \in DOMAIN groups :
          Sends(parts[i], {m \in match : m[1] \in groups[i]}, out)
    BY <1>1, MentionsSends
  <2>3. parts \in Seq(Seq(Rows))
    <3>1. DOMAIN groups = 1..Len(groups) /\ Len(groups) \in Nat
      BY GroupsType
    <3> HIDE DEF groups
    <3>2. \A i \in 1..Len(groups) : parts[i] \in Seq(Rows)
      BY <2>2, <3>1 DEF Sends
    <3> QED BY <3>1, <3>2
  <2>4. list \in Seq(Rows) /\ Range(list) = UNION {Range(parts[i]) : i \in DOMAIN groups}
    <3>1. DOMAIN parts = DOMAIN groups
      OBVIOUS
    <3> HIDE DEF parts
    <3> QED BY <2>1, <2>3, <3>1, FlattenType, FlattenRange
  <2> HIDE DEF parts
  <2>5. \A e \in Range(list) : e.out = out
    BY <2>2, <2>4 DEF Sends
  <2>6. ASSUME NEW c
        PROVE  Takers(list, c) # {} <=> match \cap c # {}
    <3>1. Takers(list, c) # {} <=> \E i \in DOMAIN groups : Takers(parts[i], c) # {}
      <4>1. \A e : e \in Range(list) <=> \E i \in DOMAIN groups : e \in Range(parts[i])
        BY <2>4
      <4>2. Takers(list, c) # {} <=> \E e \in Range(list) : e.any \cap c # {}
        BY TakenByEntry
      <4>3. \A i \in DOMAIN groups :
              Takers(parts[i], c) # {} <=> \E e \in Range(parts[i]) : e.any \cap c # {}
        BY TakenByEntry
      <4> HIDE DEF groups
      <4> QED BY <4>1, <4>2, <4>3, Zenon
    <3>2. \A i \in DOMAIN groups :
            Takers(parts[i], c) # {} <=> {m \in match : m[1] \in groups[i]} \cap c # {}
      BY <2>2 DEF Sends
    <3>3. \A kind : kind \in KindsTo(k) <=> \E i \in DOMAIN groups : kind \in groups[i]
      BY GroupsType
    <3>4. ASSUME NEW m \in match \cap c PROVE \E i \in DOMAIN groups : Takers(parts[i], c) # {}
      BY <1>1, <3>2, <3>3
    <3>5. ASSUME NEW i \in DOMAIN groups, Takers(parts[i], c) # {} PROVE match \cap c # {}
      BY <3>2, <3>5
    <3> HIDE DEF groups
    <3> QED BY <3>1, <3>4, <3>5
  <2> QED BY <1>3, <2>4, <2>5, <2>6 DEF Sends, Given, match, out, list
<1> QED BY <1>2, <1>3

LEMMA RuleOutbound ==
  ASSUME NEW action, action.target \in Words
  PROVE  OutboundForAction(action) \in Words
<1>1. OutboundForAction(action) \in {"direct", action.target, "block"}
  BY DEF OutboundForAction
<1>2. "direct" \in Words /\ "block" \in Words
  BY DEF Words
<1> QED BY <1>1, <1>2

LEMMA SendsConcat ==
  ASSUME NEW a, NEW b, NEW m, NEW n, NEW out, Sends(a, m, out), Sends(b, n, out)
  PROVE  Sends(a \o b, m \cup n, out)
<1>1. a \in Seq(Rows) /\ b \in Seq(Rows)
  BY DEF Sends
<1>2. a \o b \in Seq(Rows)
  BY <1>1
<1>3. \A e \in Range(a \o b) : e.out = out
  BY <1>1, RangeConcat DEF Sends
<1>4. ASSUME NEW c PROVE Takers(a \o b, c) # {} <=> (m \cup n) \cap c # {}
  <2>1. Takers(a \o b, c) # {} <=> Takers(a, c) # {} \/ Takers(b, c) # {}
    BY <1>1, ConcatDecides
  <2>2. Takers(a, c) # {} <=> m \cap c # {}
    BY DEF Sends
  <2>3. Takers(b, c) # {} <=> n \cap c # {}
    BY DEF Sends
  <2> QED BY <2>1, <2>2, <2>3
<1> QED BY <1>2, <1>3, <1>4 DEF Sends

\* Items of the panel that both packages read in the same way.
PlainRoute(route) ==
  /\ \A item \in route.match : item.form \notin {"geoip", "geosite"}
  /\ route.action # "dns"

\* What sing-box's package makes of the panel's own rules and what xray's makes of them,
\* by way of a custom rule.
LEMMA PanelRuleSends ==
  ASSUME NEW k \in KernelTypes, NEW route \in PanelRoutes, PlainRoute(route)
  PROVE  Sends(CompilePanelRouteRule(k, route), SingboxPanelMatch(route.match),
               SingboxPanelOutbound(route))
<1> DEFINE match == SingboxPanelMatch(route.match)
           out   == SingboxPanelOutbound(route)
           list  == CompilePanelRouteRule(k, route)
<1>1. /\ \A item \in route.match : item.value \in STRING
      /\ route.value \in STRING
  BY DEF PanelRoutes
<1>2. /\ match = XrayPanelMatch(route.match)
      /\ \A m \in match : m[1] \in {"ip_cidrs", "domain_suffixes"}
      /\ match \in SUBSET Meets /\ match \in SUBSET RuleMeets
  <2>1. match = XrayPanelMatch(route.match)
    BY DEF SingboxPanelMatch, XrayPanelMatch, PlainRoute
  <2>2. \A m \in match : m[1] \in {"ip_cidrs", "domain_suffixes"}
    BY DEF SingboxPanelMatch
  <2>3. match \in SUBSET Meets /\ match \in SUBSET RuleMeets
    <3> SUFFICES ASSUME NEW item \in route.match,
                        NEW kind \in {"ip_cidrs", "domain_suffixes"}
                 PROVE  <<kind, item.value>> \in Meets /\ <<kind, item.value>> \in RuleMeets
      BY DEF SingboxPanelMatch
    <3> QED BY <1>1 DEF Meets, RuleMeets, Kinds, RuleKinds
  <2> QED BY <2>1, <2>2, <2>3
<1>3. out = OutboundForAction(XrayPanelAction(route)) /\ out \in Words
  <2>1. out = OutboundForAction(XrayPanelAction(route))
    BY DEF SingboxPanelOutbound, OutboundForAction, XrayPanelAction, PlainRoute
  <2>2. out \in {"direct", "block", route.value}
    BY DEF SingboxPanelOutbound, PlainRoute
  <2>3. "direct" \in Words /\ "block" \in Words /\ route.value \in Words
    BY <1>1 DEF Words
  <2> QED BY <2>1, <2>2, <2>3
<1>4. CASE k = "singbox"
  <2>1. list = Mentions(match, {"domain_suffixes"}, out) \o Mentions(match, {"ip_cidrs"}, out)
    BY <1>4 DEF CompilePanelRouteRule
  <2>2. match = {m \in match : m[1] \in {"domain_suffixes"}}
                  \cup {m \in match : m[1] \in {"ip_cidrs"}}
    BY <1>2
  <2> HIDE DEF match, out, list
  <2>3. Sends(list, {m \in match : m[1] \in {"domain_suffixes"}}
                      \cup {m \in match : m[1] \in {"ip_cidrs"}}, out)
    BY <1>2, <1>3, <2>1, MentionsSends, SendsConcat
  <2> QED BY <2>2, <2>3 DEF match, out, list
<1>5. CASE k = "xray"
  <2> DEFINE rule == [disabled |-> FALSE, match |-> match, action |-> XrayPanelAction(route)]
  <2>1. list = CompileCustomRouteRule("xray", rule)
    BY <1>2, <1>5 DEF CompilePanelRouteRule
  <2>2. match = ReadBy("xray", match)
    BY <1>2 DEF ReadBy
  <2>3. /\ rule.match \in SUBSET RuleMeets /\ OutboundForAction(rule.action) \in Words
        /\ ~rule.disabled /\ rule.match = match /\ OutboundForAction(rule.action) = out
    BY <1>2, <1>3
  <2> HIDE DEF rule, match, out, list
  <2>4. Sends(list, ReadBy("xray", match), out)
    BY <2>1, <2>3, CustomRuleSends DEF KernelTypes, Given
  <2> QED BY <2>2, <2>4 DEF match, out, list
<1> QED BY <1>4, <1>5 DEF KernelTypes

----------------------------------------------------------------------------
(* The whole list of rules.                                                *)

CustomList(k, rules) ==
  FlattenSeq([i \in DOMAIN rules |-> CompileCustomRouteRule(k, rules[i])])
PanelList(k, routes) ==
  FlattenSeq([i \in DOMAIN routes |-> CompilePanelRouteRule(k, routes[i])])

RuleOuts(rules) ==
  {OutboundForAction(rules[i].action) : i \in {j \in DOMAIN rules : ~rules[j].disabled}}
RouteOuts(routes) == {SingboxPanelOutbound(routes[i]) : i \in DOMAIN routes}
Outs(rules) == {rules[i].out : i \in DOMAIN rules}

LEMMA CustomListIs ==
  ASSUME NEW rules \in Seq(Rules), NEW k \in KernelTypes
  PROVE  /\ CustomList(k, rules) \in Seq(Rows)
         /\ \A e \in Range(CustomList(k, rules)) : e.out \in RuleOuts(rules)
<1> DEFINE part(i) == CompileCustomRouteRule(k, rules[i])
           parts == [i \in DOMAIN rules |-> part(i)]
<1>1. \A i \in DOMAIN rules :
        Sends(part(i), Given(k, rules[i]), OutboundForAction(rules[i].action))
  <2> SUFFICES ASSUME NEW i \in DOMAIN rules
               PROVE  Sends(part(i), Given(k, rules[i]), OutboundForAction(rules[i].action))
    OBVIOUS
  <2>1. rules[i] \in Rules
    OBVIOUS
  <2>2. rules[i].match \in SUBSET RuleMeets /\ rules[i].action.target \in Words
    BY <2>1 DEF Rules, RuleMeets, Words
  <2> QED BY <2>2, CustomRuleSends, RuleOutbound
<1>2. parts \in Seq(Seq(Rows))
  <2>1. DOMAIN rules = 1..Len(rules) /\ Len(rules) \in Nat
    OBVIOUS
  <2>2. \A i \in DOMAIN rules : part(i) \in Seq(Rows)
    BY <1>1 DEF Sends
  <2> HIDE DEF part
  <2> QED BY <2>1, <2>2
<1>3. CustomList(k, rules) \in Seq(Rows)
      /\ Range(CustomList(k, rules)) = UNION {Range(parts[i]) : i \in DOMAIN rules}
  <2>1. CustomList(k, rules) = FlattenSeq(parts) /\ DOMAIN parts = DOMAIN rules
    BY DEF CustomList
  <2> HIDE DEF parts
  <2> QED BY <1>2, <2>1, FlattenType, FlattenRange
<1>4. ASSUME NEW i \in DOMAIN rules, NEW e \in Range(parts[i]) PROVE e.out \in RuleOuts(rules)
  <2>1. parts[i] = part(i)
    OBVIOUS
  <2>2. e.out = OutboundForAction(rules[i].action)
    BY <1>1, <1>4, <2>1 DEF Sends
  <2>3. rules[i].disabled => part(i) = <<>>
    BY DEF CompileCustomRouteRule
  <2>4. ~rules[i].disabled
    BY <1>4, <2>1, <2>3 DEF Range
  <2> QED BY <2>2, <2>4 DEF RuleOuts
<1> HIDE DEF parts
<1> QED BY <1>3, <1>4

\* Of a connection whose host is not named by a part, both kernels read the same.
LEMMA GivenSame ==
  ASSUME NEW rule \in Rules, NEW c,
         \A m \in rule.match : m[1] = "domains" => (<<"keywords", m[2]>> \in c <=> m \in c)
  PROVE  Given("singbox", rule) \cap c # {} <=> Given("xray", rule) \cap c # {}
<1> DEFINE R(m) == IF m[1] = "domains" THEN <<"keywords", m[2]>> ELSE m
<1>1. Given("singbox", rule) = IF rule.disabled THEN {} ELSE rule.match
  BY DEF Given, ReadBy
<1>2. Given("xray", rule) = IF rule.disabled THEN {} ELSE {R(m) : m \in rule.match}
  BY DEF Given, ReadBy
<1>3. \A m \in rule.match : R(m) \in c <=> m \in c
  OBVIOUS
<1> HIDE DEF R
<1>4. {R(m) : m \in rule.match} \cap c # {} <=> rule.match \cap c # {}
  BY <1>3
<1> QED BY <1>1, <1>2, <1>4

LEMMA CustomListSame ==
  ASSUME NEW rules \in Seq(Rules), NEW c,
         \A i \in DOMAIN rules : \A m \in rules[i].match :
           m[1] = "domains" => (<<"keywords", m[2]>> \in c <=> m \in c)
  PROVE  Same(CustomList("singbox", rules), CustomList("xray", rules), c)
<1> DEFINE part(k, i) == CompileCustomRouteRule(k, rules[i])
           parts(k) == [i \in DOMAIN rules |-> part(k, i)]
<1>1. ASSUME NEW i \in DOMAIN rules
      PROVE  /\ part("singbox", i) \in Seq(Rows) /\ part("xray", i) \in Seq(Rows)
             /\ Same(part("singbox", i), part("xray", i), c)
  <2>1. rules[i] \in Rules
    OBVIOUS
  <2>2. rules[i].match \in SUBSET RuleMeets /\ rules[i].action.target \in Words
    BY <2>1 DEF Rules, RuleMeets, Words
  <2> DEFINE here == Given("singbox", rules[i])
             there == Given("xray", rules[i])
             out == OutboundForAction(rules[i].action)
  <2>3. Sends(part("singbox", i), here, out) /\ Sends(part("xray", i), there, out)
    BY <2>2, CustomRuleSends, RuleOutbound DEF KernelTypes
  <2>4. here \cap c # {} <=> there \cap c # {}
    BY <2>1, GivenSame
  <2> HIDE DEF part, here, there, out
  <2> QED BY <2>3, <2>4, SendsSame DEF Sends
<1> HIDE DEF part
<1>2. DOMAIN rules = 1..Len(rules) /\ Len(rules) \in Nat
  OBVIOUS
<1>3. /\ parts("singbox") \in Seq(Seq(Rows)) /\ parts("xray") \in Seq(Seq(Rows))
      /\ Len(parts("singbox")) = Len(rules) /\ Len(parts("xray")) = Len(rules)
      /\ \A i \in 1..Len(rules) : Same(parts("singbox")[i], parts("xray")[i], c)
  BY <1>1, <1>2
<1>4. CustomList("singbox", rules) = FlattenSeq(parts("singbox"))
      /\ CustomList("xray", rules) = FlattenSeq(parts("xray"))
  BY DEF CustomList, part
<1> HIDE DEF parts
<1> QED BY <1>3, <1>4, FlattenSame

LEMMA PanelListIs ==
  ASSUME NEW routes \in Seq(PanelRoutes), NEW k \in KernelTypes,
         \A i \in DOMAIN routes : PlainRoute(routes[i])
  PROVE  /\ PanelList(k, routes) \in Seq(Rows)
         /\ \A e \in Range(PanelList(k, routes)) : e.out \in RouteOuts(routes)
<1> DEFINE part(i) == CompilePanelRouteRule(k, routes[i])
           parts == [i \in DOMAIN routes |-> part(i)]
<1>1. \A i \in DOMAIN routes :
        Sends(part(i), SingboxPanelMatch(routes[i].match), SingboxPanelOutbound(routes[i]))
  <2>1. \A i \in DOMAIN routes : routes[i] \in PanelRoutes
    OBVIOUS
  <2> QED BY <2>1, PanelRuleSends
<1> HIDE DEF part
<1>2. parts \in Seq(Seq(Rows))
  <2>1. DOMAIN routes = 1..Len(routes) /\ Len(routes) \in Nat
    OBVIOUS
  <2>2. \A i \in DOMAIN routes : part(i) \in Seq(Rows)
    BY <1>1 DEF Sends
  <2> QED BY <2>1, <2>2
<1>3. PanelList(k, routes) \in Seq(Rows)
      /\ Range(PanelList(k, routes)) = UNION {Range(parts[i]) : i \in DOMAIN routes}
  <2>1. PanelList(k, routes) = FlattenSeq(parts) /\ DOMAIN parts = DOMAIN routes
    BY DEF PanelList, part
  <2> HIDE DEF parts
  <2> QED BY <1>2, <2>1, FlattenType, FlattenRange
<1>4. ASSUME NEW i \in DOMAIN routes, NEW e \in Range(parts[i]) PROVE e.out \in RouteOuts(routes)
  <2>1. e.out = SingboxPanelOutbound(routes[i])
    BY <1>1, <1>4 DEF Sends
  <2> QED BY <2>1 DEF RouteOuts
<1> HIDE DEF parts
<1> QED BY <1>3, <1>4

LEMMA PanelListSame ==
  ASSUME NEW routes \in Seq(PanelRoutes), NEW c,
         \A i \in DOMAIN routes : PlainRoute(routes[i])
  PROVE  Same(PanelList("singbox", routes), PanelList("xray", routes), c)
<1> DEFINE part(k, i) == CompilePanelRouteRule(k, routes[i])
           parts(k) == [i \in DOMAIN routes |-> part(k, i)]
<1>1. ASSUME NEW i \in DOMAIN routes
      PROVE  /\ part("singbox", i) \in Seq(Rows) /\ part("xray", i) \in Seq(Rows)
             /\ Same(part("singbox", i), part("xray", i), c)
  <2>1. routes[i] \in PanelRoutes
    OBVIOUS
  <2> DEFINE match == SingboxPanelMatch(routes[i].match)
             out == SingboxPanelOutbound(routes[i])
  <2>2. Sends(part("singbox", i), match, out) /\ Sends(part("xray", i), match, out)
    BY <2>1, PanelRuleSends DEF KernelTypes
  <2> HIDE DEF part, match, out
  <2> QED BY <2>2, SendsSame DEF Sends
<1> HIDE DEF part
<1>2. DOMAIN routes = 1..Len(routes) /\ Len(routes) \in Nat
  OBVIOUS
<1>3. /\ parts("singbox") \in Seq(Seq(Rows)) /\ parts("xray") \in Seq(Seq(Rows))
      /\ Len(parts("singbox")) = Len(routes) /\ Len(parts("xray")) = Len(routes)
      /\ \A i \in 1..Len(routes) : Same(parts("singbox")[i], parts("xray")[i], c)
  BY <1>1, <1>2
<1>4. PanelList("singbox", routes) = FlattenSeq(parts("singbox"))
      /\ PanelList("xray", routes) = FlattenSeq(parts("xray"))
  BY DEF PanelList, part
<1> HIDE DEF parts
<1> QED BY <1>3, <1>4, FlattenSame

\* The lists of a specification are lists.
Typed(s) ==
  /\ s.outbounds \in Seq(Outbounds) /\ s.rules \in Seq(Rules)
  /\ s.raw \in Seq(Entries) /\ s.routes \in Seq(PanelRoutes)

LEMMA PrivateBlockSends ==
  ASSUME NEW k \in KernelTypes
  PROVE  Sends(PrivateBlock(k), {<<"ip_cidrs", "private4">>, <<"ip_cidrs", "private6">>}, "block")
<1> DEFINE v4 == {<<"ip_cidrs", "private4">>}
           v6 == {<<"ip_cidrs", "private6">>}
<1>1. \A any \in SUBSET Meets : Entry(any, "block") \in Rows
  BY DEF Entry, Rows, Words
<1>2. v4 \in SUBSET Meets /\ v6 \in SUBSET Meets /\ v4 \cup v6 \in SUBSET Meets
  BY DEF Meets, Kinds, RuleKinds
<1>3. ASSUME NEW any \in SUBSET Meets PROVE Sends(<<Entry(any, "block")>>, any, "block")
  <2> DEFINE list == <<Entry(any, "block")>>
  <2>1. list \in Seq(Rows) /\ Range(list) = {Entry(any, "block")}
    BY <1>1 DEF Range
  <2>2. Entry(any, "block").any = any /\ Entry(any, "block").out = "block"
    BY DEF Entry
  <2> HIDE DEF list
  <2>3. \A c : Takers(list, c) # {} <=> any \cap c # {}
    BY <2>1, <2>2, TakenByEntry
  <2> QED BY <2>1, <2>2, <2>3 DEF Sends, list
<1>4. CASE k = "xray"
  <2>1. PrivateBlock(k) = <<Entry(v4 \cup v6, "block")>>
    BY <1>4 DEF PrivateBlock
  <2>2. v4 \cup v6 = {<<"ip_cidrs", "private4">>, <<"ip_cidrs", "private6">>}
    OBVIOUS
  <2> HIDE DEF v4, v6
  <2>3. Sends(PrivateBlock(k), v4 \cup v6, "block")
    BY <1>2, <1>3, <2>1
  <2> QED BY <2>2, <2>3
<1>5. CASE k = "singbox"
  <2> DEFINE first == <<Entry(v4, "block")>>
             other == <<Entry(v6, "block")>>
  <2>1. PrivateBlock(k) = first \o other
    <3>1. PrivateBlock(k) = <<Entry(v4, "block"), Entry(v6, "block")>>
      BY <1>5 DEF PrivateBlock
    <3> QED BY <3>1
  <2>2. Sends(first, v4, "block") /\ Sends(other, v6, "block")
    BY <1>2, <1>3
  <2>3. v4 \cup v6 = {<<"ip_cidrs", "private4">>, <<"ip_cidrs", "private6">>}
    OBVIOUS
  <2> HIDE DEF v4, v6, first, other
  <2>4. Sends(PrivateBlock(k), v4 \cup v6, "block")
    BY <2>1, <2>2, SendsConcat
  <2> QED BY <2>3, <2>4
<1> QED BY <1>4, <1>5 DEF KernelTypes

AllRules(k, s) == MergeCustomRules(BuildRoutes(k, s, Kcfg), Kcfg)

\* What such a list may say.
RawOuts(s) == Outs(s.raw) \cup Outs(Kcfg.raw) \cup Outs(Kcfg.file.rules)
AllOuts(s) == RawOuts(s) \cup RuleOuts(s.rules) \cup RouteOuts(s.routes) \cup {"direct", "block"}

Parts(k, s) ==
  ((CustomList(k, s.rules) \o s.raw) \o Kcfg.raw) \o PrivateBlock(k)
    \o PanelList(k, s.routes)

LEMMA PartsOfRules ==
  ASSUME NEW s, Typed(s), Plain(s), Kcfg.file.readable, NEW k \in KernelTypes
  PROVE  AllRules(k, s) = Kcfg.file.rules \o Parts(k, s)
<1>1. TrojanFallbackDirectRoutes(k, s) = <<>>
  BY DEF TrojanFallbackDirectRoutes, Plain
<1>2. BuildRoutes(k, s, Kcfg) =
        CustomList(k, s.rules) \o <<>> \o s.raw \o Kcfg.raw \o PrivateBlock(k)
          \o PanelList(k, s.routes)
  BY <1>1 DEF BuildRoutes, CompileAll, CustomList, PanelList
<1>3. CustomList(k, s.rules) \o <<>> = CustomList(k, s.rules)
  <2>1. CustomList(k, s.rules) \in Seq(Rows)
    BY CustomListIs DEF Typed
  <2> QED BY <2>1
<1> QED BY <1>2, <1>3 DEF AllRules, MergeCustomRules, Parts

LEMMA PlainRoutes ==
  ASSUME NEW s, Typed(s), Plain(s)
  PROVE  \A i \in DOMAIN s.routes : PlainRoute(s.routes[i])
BY DEF Plain, PlainRoute

LEMMA RawLists ==
  ASSUME NEW s, Typed(s)
  PROVE  s.raw \in Seq(Rows) /\ Kcfg.raw \in Seq(Rows) /\ Kcfg.file.rules \in Seq(Rows)
BY EntriesAreRows, RulesAssumption DEF Typed

\* Both packages' lists do the same with a connection, its host not named by a part.
LEMMA RulesSame ==
  ASSUME NEW s, Typed(s), Plain(s), Kcfg.file.readable, NEW c \in Connections, WholeNames(s, c)
  PROVE  Decide(AllRules("singbox", s), c) = Decide(AllRules("xray", s), c)
<1> DEFINE custom(k) == CustomList(k, s.rules)
           panels(k) == PanelList(k, s.routes)
<1>1. \A k \in KernelTypes :
        custom(k) \in Seq(Rows) /\ panels(k) \in Seq(Rows) /\ PrivateBlock(k) \in Seq(Rows)
  BY CustomListIs, PanelListIs, PlainRoutes, PrivateBlockSends DEF Typed, Sends
<1>2. /\ Same(custom("singbox"), custom("xray"), c)
      /\ Same(panels("singbox"), panels("xray"), c)
      /\ Same(PrivateBlock("singbox"), PrivateBlock("xray"), c)
  <2>1. \A i \in DOMAIN s.rules : \A m \in s.rules[i].match :
          m[1] = "domains" => (<<"keywords", m[2]>> \in c <=> m \in c)
    BY NamesAssumption DEF WholeNames
  <2>2. Same(custom("singbox"), custom("xray"), c)
    BY <2>1, CustomListSame DEF Typed
  <2> QED BY <2>2, PanelListSame, PlainRoutes, PrivateBlockSends, SendsSame
          DEF Typed, KernelTypes
<1>3. \A list : Same(list, list, c)
  BY DEF Same
<1>4. s.raw \in Seq(Rows) /\ Kcfg.raw \in Seq(Rows) /\ Kcfg.file.rules \in Seq(Rows)
  BY RawLists
<1> HIDE DEF custom, panels
<1> DEFINE A(k) == custom(k) \o s.raw
           B(k) == A(k) \o Kcfg.raw
           C(k) == B(k) \o PrivateBlock(k)
           D(k) == C(k) \o panels(k)
<1>5. \A k \in KernelTypes :
        A(k) \in Seq(Rows) /\ B(k) \in Seq(Rows) /\ C(k) \in Seq(Rows)
        /\ D(k) \in Seq(Rows)
  BY <1>1, <1>4
<1>6. Same(A("singbox"), A("xray"), c)
  BY <1>1, <1>2, <1>3, <1>4, SameConcat DEF KernelTypes
<1> HIDE DEF A
<1>7. Same(B("singbox"), B("xray"), c)
  BY <1>3, <1>4, <1>5, <1>6, SameConcat DEF KernelTypes
<1> HIDE DEF B
<1>8. Same(C("singbox"), C("xray"), c)
  BY <1>1, <1>2, <1>5, <1>7, SameConcat DEF KernelTypes
<1> HIDE DEF C
<1>9. Same(D("singbox"), D("xray"), c)
  BY <1>1, <1>2, <1>5, <1>8, SameConcat DEF KernelTypes
<1> HIDE DEF D
<1>10. Same(Kcfg.file.rules \o D("singbox"), Kcfg.file.rules \o D("xray"), c)
  BY <1>3, <1>4, <1>5, <1>9, SameConcat DEF KernelTypes
<1>11. \A k \in KernelTypes : D(k) = Parts(k, s)
  BY DEF A, B, C, D, custom, panels, Parts
<1>12. \A k \in KernelTypes : AllRules(k, s) = Kcfg.file.rules \o D(k)
  BY <1>11, PartsOfRules
<1> QED BY <1>10, <1>12 DEF Same, KernelTypes

\* A list decides for one of its outbounds, or for none of them: direct.
LEMMA DecidesAmong ==
  ASSUME NEW s, Typed(s), Plain(s), Kcfg.file.readable, NEW k \in KernelTypes, NEW c
  PROVE  Decide(AllRules(k, s), c) \in AllOuts(s)
<1> DEFINE custom == CustomList(k, s.rules)
           private == PrivateBlock(k)
           panels == PanelList(k, s.routes)
           raw1 == s.raw
           raw2 == Kcfg.raw
           raw3 == Kcfg.file.rules
           all == AllRules(k, s)
<1>1. /\ custom \in Seq(Rows) /\ panels \in Seq(Rows) /\ private \in Seq(Rows)
      /\ \A e \in Range(custom) : e.out \in RuleOuts(s.rules)
      /\ \A e \in Range(panels) : e.out \in RouteOuts(s.routes)
      /\ \A e \in Range(private) : e.out = "block"
  BY CustomListIs, PanelListIs, PlainRoutes, PrivateBlockSends DEF Typed, Sends
<1>2. raw1 \in Seq(Rows) /\ raw2 \in Seq(Rows) /\ raw3 \in Seq(Rows)
  BY RawLists
<1>3. /\ \A e \in Range(raw1) : e.out \in Outs(s.raw)
      /\ \A e \in Range(raw2) : e.out \in Outs(Kcfg.raw)
      /\ \A e \in Range(raw3) : e.out \in Outs(Kcfg.file.rules)
  BY DEF Range, Outs
<1> DEFINE p1 == custom \o raw1
           p2 == p1 \o raw2
           p3 == p2 \o private
           p4 == p3 \o panels
<1>4. all = raw3 \o p4
  BY PartsOfRules DEF Parts
<1> HIDE DEF custom, private, panels, raw1, raw2, raw3, all
<1>5. Range(p1) = Range(custom) \cup Range(raw1) /\ p1 \in Seq(Rows)
  BY <1>1, <1>2, RangeConcat
<1> HIDE DEF p1
<1>6. Range(p2) = Range(p1) \cup Range(raw2) /\ p2 \in Seq(Rows)
  BY <1>2, <1>5, RangeConcat
<1> HIDE DEF p2
<1>7. Range(p3) = Range(p2) \cup Range(private) /\ p3 \in Seq(Rows)
  BY <1>1, <1>6, RangeConcat
<1> HIDE DEF p3
<1>8. Range(p4) = Range(p3) \cup Range(panels) /\ p4 \in Seq(Rows)
  BY <1>1, <1>7, RangeConcat
<1> HIDE DEF p4
<1>9. Range(all) = Range(raw3) \cup Range(p4) /\ all \in Seq(Rows)
  BY <1>2, <1>4, <1>8, RangeConcat
<1>10. \A e \in Range(all) : e.out \in AllOuts(s)
  BY <1>1, <1>3, <1>5, <1>6, <1>7, <1>8, <1>9 DEF AllOuts, RawOuts
<1>11. CASE Takers(all, c) = {}
  BY <1>9, <1>11, NobodyDecides DEF AllOuts, all
<1>12. CASE Takers(all, c) # {}
  <2>1. PICK i \in Takers(all, c) : Decide(all, c) = all[i].out
    BY <1>9, <1>12, Somebody
  <2>2. all[i] \in Range(all)
    BY DEF Takers, Range
  <2> QED BY <1>10, <2>1, <2>2 DEF all
<1> QED BY <1>11, <1>12

\* Every outbound the rules name exists.
LEMMA OutsAvailable ==
  ASSUME NEW s, Typed(s), Plain(s),
         \A i \in DOMAIN s.rules : ValidRouteRule(s.rules[i], AvailableTags(s, Kcfg))
  PROVE  AllOuts(s) \subseteq AvailableTags(s, Kcfg)
<1> DEFINE available == AvailableTags(s, Kcfg)
<1>1. {"direct", "block"} \subseteq available
  BY DEF AvailableTags
<1>2. RawOuts(s) \subseteq available
  BY DEF Plain, RawOuts, Outs
<1>3. ASSUME NEW i \in DOMAIN s.rules, ~s.rules[i].disabled
      PROVE  OutboundForAction(s.rules[i].action) \in available
  <2> DEFINE action == s.rules[i].action
  <2>1. Lower(action.type) = action.type /\ Lower(action.target) = action.target
    BY DEF Plain, Lower
  <2>2. \/ action.type \in {"direct", "block"}
        \/ action.type = "route" /\ action.target \in available
    BY <1>3, <2>1 DEF ValidRouteRule
  <2> HIDE DEF action, available
  <2>3. OutboundForAction(action) \in available
    BY <1>1, <2>2 DEF OutboundForAction
  <2> QED BY <2>3 DEF action
<1>4. ASSUME NEW i \in DOMAIN s.routes
      PROVE  SingboxPanelOutbound(s.routes[i]) \in available
  <2> DEFINE route == s.routes[i]
  <2>1. route.action # "dns" /\ (route.action = "proxy" => route.value \in available \cup {""})
    BY DEF Plain
  <2> HIDE DEF route, available
  <2>2. SingboxPanelOutbound(route) \in available
    BY <1>1, <2>1 DEF SingboxPanelOutbound
  <2> QED BY <2>2 DEF route
<1> HIDE DEF available
<1>5. RuleOuts(s.rules) \subseteq available
  BY <1>3 DEF RuleOuts
<1>6. RouteOuts(s.routes) \subseteq available
  BY <1>4 DEF RouteOuts
<1> QED BY <1>1, <1>2, <1>5, <1>6 DEF AllOuts, available

----------------------------------------------------------------------------
(* One outbound for every name.                                            *)

At(list, tag)    == {i \in DOMAIN list : list[i].tag = tag}
Once(list, tag)  == \E i \in DOMAIN list : At(list, tag) = {i}
Never(list, tag) == At(list, tag) = {}

LEMMA OnceConcat ==
  ASSUME NEW E, NEW a \in Seq(E), NEW b \in Seq(E), NEW tag
  PROVE  /\ Never(a \o b, tag) <=> Never(a, tag) /\ Never(b, tag)
         /\ Once(a \o b, tag) <=> \/ Once(a, tag) /\ Never(b, tag)
                                  \/ Never(a, tag) /\ Once(b, tag)
<1> DEFINE ab == a \o b
<1>1. /\ Len(ab) = Len(a) + Len(b)
      /\ DOMAIN ab = 1..Len(ab) /\ DOMAIN a = 1..Len(a) /\ DOMAIN b = 1..Len(b)
      /\ Len(a) \in Nat /\ Len(b) \in Nat
      /\ \A i \in 1..Len(a) : ab[i] = a[i]
      /\ \A i \in 1..Len(b) : ab[Len(a) + i] = b[i]
  OBVIOUS
<1> HIDE DEF ab
<1>2. \A i \in DOMAIN a : i \in At(ab, tag) <=> i \in At(a, tag)
  BY <1>1 DEF At
<1>3. \A i \in DOMAIN b : Len(a) + i \in At(ab, tag) <=> i \in At(b, tag)
  BY <1>1 DEF At
<1>4. ASSUME NEW i \in At(ab, tag)
      PROVE  i \in DOMAIN a \/ \E j \in DOMAIN b : i = Len(a) + j
  <2> SUFFICES ASSUME i \notin DOMAIN a PROVE \E j \in DOMAIN b : i = Len(a) + j
    OBVIOUS
  <2>1. i \in 1..Len(ab)
    BY <1>1 DEF At
  <2>2. i - Len(a) \in DOMAIN b /\ i = Len(a) + (i - Len(a))
    BY <1>1, <2>1
  <2> QED BY <2>2
<1>5. At(ab, tag) \subseteq DOMAIN ab /\ At(a, tag) \subseteq DOMAIN a
      /\ At(b, tag) \subseteq DOMAIN b
  BY DEF At
<1>6. At(ab, tag) = At(a, tag) \cup {Len(a) + j : j \in At(b, tag)}
  BY <1>2, <1>3, <1>4, <1>5
<1>7. \A i \in DOMAIN a, j \in DOMAIN b : i # Len(a) + j
  BY <1>1
<1>8. \A i, j \in DOMAIN b : Len(a) + i = Len(a) + j => i = j
  BY <1>1
<1>9. Never(ab, tag) <=> Never(a, tag) /\ Never(b, tag)
  BY <1>6 DEF Never
<1>10. ASSUME Once(a, tag), Never(b, tag) PROVE Once(ab, tag)
  BY <1>1, <1>6, <1>10 DEF Once, Never
<1>11. ASSUME Never(a, tag), Once(b, tag) PROVE Once(ab, tag)
  <2>1. PICK j \in DOMAIN b : At(b, tag) = {j}
    BY <1>11 DEF Once
  <2>2. At(ab, tag) = {Len(a) + j} /\ Len(a) + j \in DOMAIN ab
    BY <1>1, <1>6, <1>11, <2>1 DEF Never
  <2> QED BY <2>2 DEF Once
<1>12. ASSUME Once(ab, tag)
       PROVE  (Once(a, tag) /\ Never(b, tag)) \/ (Never(a, tag) /\ Once(b, tag))
  <2>1. PICK i \in DOMAIN ab : At(ab, tag) = {i}
    BY <1>12 DEF Once
  <2>2. \A j \in At(a, tag) : j = i
    BY <1>6, <2>1
  <2>3. \A j \in At(b, tag) : Len(a) + j = i
    BY <1>6, <2>1
  <2>4. CASE i \in At(a, tag)
    <3>1. At(b, tag) = {}
      BY <1>5, <1>7, <2>3, <2>4
    <3> QED BY <1>5, <2>2, <2>4, <3>1 DEF Once, Never
  <2>5. CASE i \notin At(a, tag)
    <3>1. At(a, tag) = {}
      BY <2>2, <2>5
    <3>2. PICK j \in At(b, tag) : Len(a) + j = i
      BY <1>6, <2>1, <2>5
    <3>3. At(b, tag) = {j}
      BY <1>5, <1>8, <2>3, <3>2
    <3> QED BY <1>5, <3>1, <3>2, <3>3 DEF Once, Never
  <2> QED BY <2>4, <2>5
<1> QED BY <1>9, <1>10, <1>11, <1>12 DEF ab

\* As many tags as outbounds: each tag is that of one.
LEMMA TagsOnce ==
  ASSUME NEW E, NEW list \in Seq(E), \A i \in DOMAIN list : list[i].tag \notin DOMAIN Capitals,
         ~(Cardinality(TagsOf(list)) < Len(list))
  PROVE  \A tag : IF tag \in TagsOf(list) THEN Once(list, tag) ELSE Never(list, tag)
<1> DEFINE n == Len(list)
           f == [i \in 1..n |-> list[i].tag]
<1>1. n \in Nat /\ DOMAIN list = 1..n
  OBVIOUS
<1>2. TagsOf(list) = {list[i].tag : i \in 1..n}
  BY <1>1 DEF TagsOf, Lower
<1> HIDE DEF n
<1>3. f \in Surjection(1..n, TagsOf(list))
  BY <1>2 DEF Surjection
<1>4. IsFiniteSet(1..n) /\ Cardinality(1..n) = n
  BY <1>1, FS_Interval
<1>5. Cardinality(TagsOf(list)) <= n /\ IsFiniteSet(TagsOf(list))
      /\ (Cardinality(TagsOf(list)) = n => f \in Injection(1..n, TagsOf(list)))
  <2> HIDE DEF f
  <2> QED BY <1>3, <1>4, FS_Surjection
<1>6. Cardinality(TagsOf(list)) = n
  BY <1>1, <1>5, FS_CardinalityType DEF n
<1>7. f \in Injection(1..n, TagsOf(list))
  BY <1>5, <1>6
<1>8. \A i, j \in 1..n : list[i].tag = list[j].tag => i = j
  <2>1. \A i, j \in 1..n : f[i] = f[j] => i = j
    <3> HIDE DEF f
    <3> QED BY <1>7 DEF Injection, IsInjective
  <2> QED BY <2>1
<1>9. ASSUME NEW tag, tag \in TagsOf(list) PROVE Once(list, tag)
  <2>1. PICK i \in 1..n : list[i].tag = tag
    BY <1>2, <1>9
  <2>2. At(list, tag) = {i}
    BY <1>1, <1>8, <2>1 DEF At
  <2> QED BY <1>1, <2>2 DEF Once
<1>10. ASSUME NEW tag, tag \notin TagsOf(list) PROVE Never(list, tag)
  BY <1>1, <1>2, <1>10 DEF Never, At
<1> QED BY <1>9, <1>10

\* Tags that are spelled as they are compared.
Spelled(list) == \A o \in Range(list) : o.tag \notin DOMAIN Capitals

LEMMA TagsNever ==
  ASSUME NEW E, NEW list \in Seq(E), Spelled(list), NEW tag
  PROVE  tag \in TagsOf(list) <=> ~Never(list, tag)
<1>1. \A i \in DOMAIN list : Lower(list[i].tag) = list[i].tag
  BY DEF Spelled, Range, Lower
<1> QED BY <1>1 DEF TagsOf, Never, At

\* An outbound the packages add.
Bare(w) == [tag |-> w, protocol |-> w, settings |-> "", proxy |-> ""]

LEMMA BareOnce ==
  ASSUME NEW word
  PROVE  /\ Once(<<Bare(word)>>, word)
         /\ \A tag : word # tag => Never(<<Bare(word)>>, tag)
<1> DEFINE list == <<Bare(word)>>
<1>1. DOMAIN list = {1} /\ list[1] = Bare(word)
  OBVIOUS
<1>2. Bare(word).tag = word
  BY DEF Bare
<1> HIDE DEF list
<1>3. At(list, word) = {1} /\ \A tag : word # tag => At(list, tag) = {}
  BY <1>1, <1>2 DEF At
<1> QED BY <1>1, <1>3 DEF Once, Never, list

\* The built outbounds, and lists of them.
Natives(k, list) == Each(LAMBDA o : OutboundConfigTo(k, o), list)
Written(list)    == Each(AsWritten, list)

Sources ==
  Outbounds \cup {Bare(w) : w \in {"direct", "block"}}
Forms  == {"as written", "renamed", "flat", "nested"}
Chains == {"as written", "none", "proxy_tag", "proxySettings"}
Products == {Built(o, form, chain) : o \in Sources, form \in Forms, chain \in Chains}

\* Lists that were made of the same outbounds.
MadeOf(built, list) ==
  /\ built \in Seq(Products) /\ Len(built) = Len(list)
  /\ \A i \in 1..Len(list) : built[i].tag = list[i].tag /\ built[i].from = list[i]

LEMMA ConvertedIs ==
  ASSUME NEW k, NEW o \in Sources
  PROVE  /\ OutboundConfigTo(k, o) \in Products /\ AsWritten(o) \in Products
         /\ OutboundConfigTo(k, o).tag = o.tag /\ OutboundConfigTo(k, o).from = o
         /\ AsWritten(o).tag = o.tag /\ AsWritten(o).from = o
<1> DEFINE b(form, chain) == Built(o, form, chain)
<1>1. \A form \in Forms, chain \in Chains : b(form, chain) \in Products
  BY DEF Products
<1>2. \A form, chain : b(form, chain).tag = o.tag /\ b(form, chain).from = o
  BY DEF Built
<1>3. AsWritten(o) = b("as written", "as written")
  BY DEF AsWritten
<1>4. \E form \in {"renamed", "flat", "nested"}, chain \in {"none", "proxy_tag", "proxySettings"} :
        OutboundConfigTo(k, o) = b(form, chain)
  BY DEF OutboundConfigTo, OutboundConfigToXray, OutboundConfigToSingbox
<1>5. /\ "as written" \in Forms /\ {"renamed", "flat", "nested"} \subseteq Forms
      /\ "as written" \in Chains /\ {"none", "proxy_tag", "proxySettings"} \subseteq Chains
  BY DEF Forms, Chains
<1> HIDE DEF b
<1> QED BY <1>1, <1>2, <1>3, <1>4, <1>5

LEMMA ListsMade ==
  ASSUME NEW k, NEW list \in Seq(Outbounds)
  PROVE  MadeOf(Natives(k, list), list) /\ MadeOf(Written(list), list)
<1> DEFINE n(i) == OutboundConfigTo(k, list[i])
           w(i) == AsWritten(list[i])
<1>1. Len(list) \in Nat /\ DOMAIN list = 1..Len(list) /\ \A i \in 1..Len(list) : list[i] \in Sources
  BY DEF Sources
<1>2. Natives(k, list) = [i \in 1..Len(list) |-> n(i)]
  BY <1>1 DEF Natives, Each
<1>3. Written(list) = [i \in 1..Len(list) |-> w(i)]
  BY <1>1 DEF Written, Each
<1>4. \A i \in 1..Len(list) :
        /\ n(i) \in Products /\ n(i).tag = list[i].tag /\ n(i).from = list[i]
        /\ w(i) \in Products /\ w(i).tag = list[i].tag /\ w(i).from = list[i]
  BY <1>1, ConvertedIs
<1> DEFINE ns == Natives(k, list)
           ws == Written(list)
<1>5. /\ ns = [i \in 1..Len(list) |-> n(i)] /\ ws = [i \in 1..Len(list) |-> w(i)]
  BY <1>2, <1>3
<1> HIDE DEF n, w, ns, ws
<1>6. ns \in Seq(Products) /\ Len(ns) = Len(list) /\ \A i \in 1..Len(list) : ns[i] = n(i)
  BY <1>1, <1>4, <1>5
<1>7. ws \in Seq(Products) /\ Len(ws) = Len(list) /\ \A i \in 1..Len(list) : ws[i] = w(i)
  BY <1>1, <1>4, <1>5
<1> QED BY <1>4, <1>6, <1>7 DEF MadeOf, ns, ws

LEMMA MadeConcat ==
  ASSUME NEW E, NEW a \in Seq(E), NEW b \in Seq(E), NEW x, NEW y, MadeOf(x, a), MadeOf(y, b)
  PROVE  MadeOf(x \o y, a \o b)
<1>1. x \in Seq(Products) /\ y \in Seq(Products) /\ Len(x) = Len(a) /\ Len(y) = Len(b)
  BY DEF MadeOf
<1>2. x \o y \in Seq(Products) /\ Len(x \o y) = Len(a \o b)
  BY <1>1
<1>3. ASSUME NEW i \in 1..Len(a \o b)
      PROVE  (x \o y)[i].tag = (a \o b)[i].tag /\ (x \o y)[i].from = (a \o b)[i]
  <2>1. CASE i <= Len(a)
    <3>1. i \in 1..Len(a) /\ (x \o y)[i] = x[i] /\ (a \o b)[i] = a[i]
      BY <1>1, <2>1
    <3> QED BY <3>1 DEF MadeOf
  <2>2. CASE ~(i <= Len(a))
    <3>1. /\ i - Len(a) \in 1..Len(b)
          /\ (x \o y)[i] = y[i - Len(a)] /\ (a \o b)[i] = b[i - Len(a)]
      BY <1>1, <2>2
    <3> QED BY <3>1 DEF MadeOf
  <2> QED BY <2>1, <2>2
<1> QED BY <1>2, <1>3 DEF MadeOf

LEMMA MadeTags ==
  ASSUME NEW E, NEW list \in Seq(E), NEW built, MadeOf(built, list)
  PROVE  TagsOf(built) = TagsOf(list) /\ Len(built) = Len(list) /\ DOMAIN built = DOMAIN list
<1>1. DOMAIN built = 1..Len(list) /\ DOMAIN list = 1..Len(list) /\ Len(built) = Len(list)
  BY DEF MadeOf
<1>2. \A i \in 1..Len(list) : built[i].tag = list[i].tag
  BY DEF MadeOf
<1> QED BY <1>1, <1>2 DEF TagsOf

\* The outbounds the list is made of, defaults included.
Ingredients(s) ==
  LET given == s.outbounds \o Kcfg.outbounds
      direct == IF "direct" \in TagsOf(given) THEN <<>> ELSE <<Bare("direct")>>
      block == IF "block" \in TagsOf(given) THEN <<>> ELSE <<Bare("block")>>
  IN ((direct \o given) \o block) \o Kcfg.file.outbounds

\* Whichever package builds them, the outbounds are made of the same ones, in that order.
LEMMA OutboundsMade ==
  ASSUME NEW s, Typed(s), Kcfg.file.readable, NEW k
  PROVE  /\ MadeOf(BuildOutbounds(k, s, Kcfg), Ingredients(s))
         /\ Ingredients(s) \in Seq(Sources)
<1> DEFINE given == s.outbounds \o Kcfg.outbounds
           made == Natives(k, s.outbounds) \o Written(Kcfg.outbounds)
           direct == IF "direct" \in TagsOf(given) THEN <<>> ELSE <<Bare("direct")>>
           block == IF "block" \in TagsOf(given) THEN <<>> ELSE <<Bare("block")>>
           direct1 == IF "direct" \in TagsOf(made) THEN <<>> ELSE <<Default(k, "direct")>>
           block1 == IF "block" \in TagsOf(made) THEN <<>> ELSE <<Default(k, "block")>>
           file == Kcfg.file.outbounds
<1>1. s.outbounds \in Seq(Outbounds) /\ Kcfg.outbounds \in Seq(Outbounds) /\ file \in Seq(Outbounds)
  BY RulesAssumption DEF Typed
<1>2. Seq(Outbounds) \subseteq Seq(Sources)
  <2>1. Outbounds \subseteq Sources
    BY DEF Sources
  <2> QED BY <2>1
<1>3. given \in Seq(Sources) /\ file \in Seq(Sources)
  BY <1>1, <1>2
<1>4. MadeOf(made, given) /\ MadeOf(Written(file), file)
  BY <1>1, ListsMade, MadeConcat
<1>5. BuildOutbounds(k, s, Kcfg) = ((direct1 \o made) \o block1) \o Written(file)
  BY DEF BuildOutbounds, MergeCustomOutbounds, Natives, Written
<1>6. Ingredients(s) = ((direct \o given) \o block) \o file
  BY DEF Ingredients
<1>7. TagsOf(made) = TagsOf(given)
  <2> HIDE DEF made, given
  <2> QED BY <1>3, <1>4, MadeTags
<1>8. ASSUME NEW w \in {"direct", "block"}
      PROVE  Bare(w) \in Sources /\ MadeOf(<<Default(k, w)>>, <<Bare(w)>>)
  <2>1. Bare(w) \in Sources
    BY DEF Bare, Sources
  <2>2. /\ Default(k, w) \in Products
        /\ Default(k, w).tag = Bare(w).tag /\ Default(k, w).from = Bare(w)
    BY <2>1, ConvertedIs DEF Default, Bare
  <2> DEFINE d == Default(k, w)
             e == Bare(w)
  <2> HIDE DEF d, e
  <2>3. /\ <<d>> \in Seq(Products) /\ Len(<<d>>) = 1 /\ Len(<<e>>) = 1
        /\ <<d>>[1] = d /\ <<e>>[1] = e
    BY <2>2 DEF d
  <2>4. MadeOf(<<d>>, <<e>>)
    BY <2>2, <2>3 DEF MadeOf, d, e
  <2> QED BY <2>1, <2>4 DEF d, e
<1>9. MadeOf(<<>>, <<>>)
  BY DEF MadeOf
<1>10. /\ MadeOf(direct1, direct) /\ MadeOf(block1, block)
       /\ direct \in Seq(Sources) /\ block \in Seq(Sources)
  <2>1. Bare("direct") \in Sources /\ Bare("block") \in Sources
        /\ MadeOf(<<Default(k, "direct")>>, <<Bare("direct")>>)
        /\ MadeOf(<<Default(k, "block")>>, <<Bare("block")>>)
    BY <1>8
  <2> HIDE DEF made, given
  <2>2. MadeOf(direct1, direct) /\ MadeOf(block1, block)
    BY <1>7, <1>9, <2>1
  <2>3. direct \in Seq(Sources) /\ block \in Seq(Sources)
    BY <2>1
  <2> QED BY <2>2, <2>3
<1> HIDE DEF given, made, direct, block, direct1, block1, file
<1> DEFINE one == direct \o given
           two == one \o block
           one1 == direct1 \o made
           two1 == one1 \o block1
<1>11. one \in Seq(Sources) /\ MadeOf(one1, one)
  BY <1>3, <1>4, <1>10, MadeConcat
<1> HIDE DEF one, one1
<1>12. two \in Seq(Sources) /\ MadeOf(two1, two)
  BY <1>10, <1>11, MadeConcat
<1> HIDE DEF two, two1
<1>13. two \o file \in Seq(Sources) /\ MadeOf(two1 \o Written(file), two \o file)
  BY <1>3, <1>4, <1>12, MadeConcat
<1> QED BY <1>5, <1>6, <1>13 DEF one, two, one1, two1

\* Of the built outbounds, exactly one goes by each available tag.
LEMMA EachTagOnce ==
  ASSUME NEW s, Typed(s), Plain(s), ~TagsCollide(s, Kcfg),
         Cardinality(TagsOf(s.outbounds)) = Len(s.outbounds),
         NEW tag \in AvailableTags(s, Kcfg)
  PROVE  Once(Ingredients(s), tag)
<1> DEFINE own == s.outbounds
           local == Kcfg.outbounds
           file == Kcfg.file.outbounds
           given == own \o local
           direct == IF "direct" \in TagsOf(given) THEN <<>> ELSE <<Bare("direct")>>
           block == IF "block" \in TagsOf(given) THEN <<>> ELSE <<Bare("block")>>
           E == Outbounds \cup {Bare("direct"), Bare("block")}
<1>1. Ingredients(s) = ((direct \o given) \o block) \o file
  BY DEF Ingredients
<1>2. /\ own \in Seq(Outbounds) /\ local \in Seq(Outbounds) /\ file \in Seq(Outbounds)
      /\ local \o file \in Seq(Outbounds) /\ given \in Seq(Outbounds)
  BY RulesAssumption DEF Typed
<1>3. AdditionalOutbounds(Kcfg) = local \o file
  BY DEF AdditionalOutbounds
<1>4. IF tag \in TagsOf(own) THEN Once(own, tag) ELSE Never(own, tag)
  <2>1. ~(Cardinality(TagsOf(own)) < Len(own))
    BY <1>2
  <2> QED BY <1>2, <2>1, TagsOnce DEF Plain
<1>5. IF tag \in TagsOf(local \o file) THEN Once(local \o file, tag)
                                       ELSE Never(local \o file, tag)
  <2>1. ~(Cardinality(TagsOf(local \o file)) < Len(local \o file))
    BY <1>3 DEF TagsCollide
  <2>2. \A i \in DOMAIN (local \o file) : (local \o file)[i].tag \notin DOMAIN Capitals
    BY <1>3 DEF Plain
  <2> QED BY <1>2, <2>1, <2>2, TagsOnce
<1>6. ~(tag \in TagsOf(own) /\ tag \in TagsOf(local \o file))
  BY <1>3 DEF TagsCollide
<1>7. tag \in {"direct", "block"} \/ tag \in TagsOf(own) \/ tag \in TagsOf(local \o file)
  BY <1>3 DEF AvailableTags
<1>8. Spelled(own) /\ Spelled(local) /\ Spelled(file) /\ Spelled(given)
  <2>1. Spelled(own) /\ Spelled(local \o file)
    BY <1>3 DEF Plain, Spelled, Range
  <2> HIDE DEF own, local, file
  <2>2. Range(local \o file) = Range(local) \cup Range(file)
        /\ Range(given) = Range(own) \cup Range(local)
    BY <1>2, RangeConcat
  <2> QED BY <2>1, <2>2 DEF Spelled
<1>9. tag \in TagsOf(given) <=> ~Never(given, tag)
  BY <1>2, <1>8, TagsNever
<1>10. tag \in {"direct", "block"} => Never(file, tag)
  <2>1. tag \in {"direct", "block"} => tag \notin TagsOf(file)
    BY DEF Plain
  <2> QED BY <1>2, <1>8, <2>1, TagsNever
<1>11. /\ direct \in Seq(E) /\ block \in Seq(E) /\ own \in Seq(E) /\ local \in Seq(E)
       /\ file \in Seq(E) /\ given \in Seq(E)
  <2>1. Outbounds \subseteq E /\ Bare("direct") \in E /\ Bare("block") \in E
    OBVIOUS
  <2> HIDE DEF E, given, own, local, file
  <2>2. Seq(Outbounds) \subseteq Seq(E)
    BY <2>1
  <2>3. <<>> \in Seq(E) /\ \A e \in E : <<e>> \in Seq(E)
    OBVIOUS
  <2>4. direct \in Seq(E) /\ block \in Seq(E)
    BY <2>1, <2>3
  <2> QED BY <1>2, <2>2, <2>4
<1>12. /\ Once(<<Bare("direct")>>, "direct")
       /\ tag # "direct" => Never(<<Bare("direct")>>, tag)
       /\ Once(<<Bare("block")>>, "block")
       /\ tag # "block" => Never(<<Bare("block")>>, tag)
  <2> DEFINE L(word) == <<Bare(word)>>
  <2>1. \A word : Once(L(word), word) /\ \A other : word # other => Never(L(word), other)
    BY BareOnce
  <2> HIDE DEF L
  <2>2. /\ Once(L("direct"), "direct") /\ Once(L("block"), "block")
        /\ tag # "direct" => Never(L("direct"), tag)
        /\ tag # "block" => Never(L("block"), tag)
    BY <2>1
  <2> QED BY <2>2 DEF L
<1>13. Never(<<>>, tag)
  BY DEF Never, At
<1>14. IF tag = "direct" /\ Never(given, tag) THEN Once(direct, tag) ELSE Never(direct, tag)
  <2> HIDE DEF given
  <2> QED BY <1>9, <1>12, <1>13
<1>15. IF tag = "block" /\ Never(given, tag) THEN Once(block, tag) ELSE Never(block, tag)
  <2> HIDE DEF given
  <2> QED BY <1>9, <1>12, <1>13
<1>16. /\ Never(given, tag) <=> Never(own, tag) /\ Never(local, tag)
       /\ Once(given, tag) <=> \/ Once(own, tag) /\ Never(local, tag)
                               \/ Never(own, tag) /\ Once(local, tag)
  BY <1>11, OnceConcat
<1>17. /\ Never(local \o file, tag) <=> Never(local, tag) /\ Never(file, tag)
       /\ Once(local \o file, tag) <=> \/ Once(local, tag) /\ Never(file, tag)
                                       \/ Never(local, tag) /\ Once(file, tag)
  BY <1>11, OnceConcat
<1> HIDE DEF E, own, local, file, given, direct, block
<1> DEFINE p1 == direct \o given
           p2 == p1 \o block
<1>18. p1 \in Seq(E) /\ p2 \in Seq(E) /\ Ingredients(s) = p2 \o file
  BY <1>1, <1>11
<1>19. \A list : ~(Once(list, tag) /\ Never(list, tag))
  BY DEF Once, Never
<1>20. Once(given, tag) \/ Never(given, tag)
  BY <1>4, <1>5, <1>6, <1>16, <1>17
<1>21. /\ Never(p1, tag) <=> Never(direct, tag) /\ Never(given, tag)
       /\ Once(p1, tag) <=> \/ Once(direct, tag) /\ Never(given, tag)
                            \/ Never(direct, tag) /\ Once(given, tag)
  BY <1>11, OnceConcat
<1>22. /\ Never(p2, tag) <=> Never(p1, tag) /\ Never(block, tag)
       /\ Once(p2, tag) <=> \/ Once(p1, tag) /\ Never(block, tag)
                            \/ Never(p1, tag) /\ Once(block, tag)
  <2> HIDE DEF p1
  <2> QED BY <1>11, <1>18, OnceConcat
<1>23. Once(p2 \o file, tag) <=> \/ Once(p2, tag) /\ Never(file, tag)
                                 \/ Never(p2, tag) /\ Once(file, tag)
  <2> HIDE DEF p2
  <2> QED BY <1>11, <1>18, OnceConcat
<1> HIDE DEF p1, p2
<1>24. CASE Once(given, tag)
  <2>1. Never(file, tag)
    BY <1>4, <1>5, <1>6, <1>16, <1>17, <1>19, <1>24
  <2>2. Never(direct, tag) /\ Never(block, tag)
    BY <1>14, <1>15, <1>19, <1>24
  <2> QED BY <1>18, <1>21, <1>22, <1>23, <1>24, <2>1, <2>2
<1>25. CASE Never(given, tag) /\ tag \in {"direct", "block"}
  <2>1. \/ Once(direct, tag) /\ Never(block, tag)
        \/ Never(direct, tag) /\ Once(block, tag)
    <3>1. ~(tag = "direct" /\ tag = "block")
      OBVIOUS
    <3> QED BY <1>14, <1>15, <1>25, <3>1
  <2> QED BY <1>10, <1>18, <1>21, <1>22, <1>23, <1>25, <2>1
<1>26. CASE Never(given, tag) /\ tag \notin {"direct", "block"}
  <2>1. Once(file, tag)
    BY <1>4, <1>5, <1>7, <1>16, <1>17, <1>19, <1>26
  <2>2. Never(direct, tag) /\ Never(block, tag)
    BY <1>14, <1>15, <1>26
  <2> QED BY <1>18, <1>21, <1>22, <1>23, <1>26, <2>1, <2>2
<1> QED BY <1>20, <1>24, <1>25, <1>26

----------------------------------------------------------------------------
(* What is applied is what the panel sent.                                 *)

Sent == phase \in {"applying", "up"} => spec \in Specs \cup FirstSpecs

LEMMA SentStep == Sent /\ [Next]_vars => Sent'
<1> SUFFICES ASSUME Sent, [Next]_vars PROVE Sent'
  OBVIOUS
<1> USE DEF Sent
<1>1. Offered \subseteq Specs \cup FirstSpecs
  BY DEF Offered
<1>2. CASE Boot
  BY <1>2 DEF Boot
<1>3. ASSUME NEW s \in Offered, Arrive(s) PROVE Sent'
  BY <1>1, <1>3 DEF Arrive, Adopt
<1>4. ASSUME NEW s \in Offered \cup {spec}, PullLands(s) PROVE Sent'
  BY <1>1, <1>4 DEF PullLands, Adopt
<1>5. CASE PullStarts
  BY <1>5 DEF PullStarts
<1>6. CASE PullFails
  BY <1>6 DEF PullFails
<1>7. CASE ApplyChanges
  BY <1>7 DEF ApplyChanges
<1>8. CASE Crash
  BY <1>8 DEF Crash
<1>9. CASE ManagerSteps
  BY <1>9 DEF ManagerSteps
<1>10. CASE UNCHANGED vars
  BY <1>10 DEF vars
<1> QED BY <1>2, <1>3, <1>4, <1>5, <1>6, <1>7, <1>8, <1>9, <1>10 DEF Next

\* Whichever package builds the configuration, buildConfig's list sends a connection to
\* one outbound, and to what was made of the same one.
LEMMA SentAgree == Sent => KernelsAgree
<1> SUFFICES ASSUME Sent, Shared(SpecOf(spec)),
                    NEW c \in Connections, WholeNames(SpecOf(spec), c)
             PROVE  LET s == SpecOf(spec)
                        box == BuildConfig("singbox", s, Kcfg, cert.mat)
                        xray == BuildConfig("xray", s, Kcfg, cert.mat)
                        here == Reached(box.outbounds, box.rules, c)
                        there == Reached(xray.outbounds, xray.rules, c)
                    IN \E i \in here, j \in there :
                         /\ here = {i} /\ there = {j}
                         /\ box.outbounds[i].from = xray.outbounds[j].from
  BY DEF KernelsAgree
<1> DEFINE s == SpecOf(spec)
           list == Ingredients(s)
           outbounds(k) == BuildOutbounds(k, s, Kcfg)
           rules(k) == AllRules(k, s)
           tag == Decide(rules("singbox"), c)
<1>1. phase = "applying" /\ Plain(s) /\ ValidateNodeSpec(s, Kcfg, "singbox")
  BY DEF Shared
<1>2. Typed(s)
  BY <1>1, RulesAssumption DEF Sent, Typed
<1>3. /\ Kcfg.file.readable /\ ~TagsCollide(s, Kcfg)
      /\ Cardinality(TagsOf(s.outbounds)) = Len(s.outbounds)
      /\ \A i \in DOMAIN s.rules : ValidRouteRule(s.rules[i], AvailableTags(s, Kcfg))
  BY <1>1 DEF ValidateNodeSpec, ValidOutbounds
<1>4. tag = Decide(rules("xray"), c)
  BY <1>1, <1>2, <1>3, RulesSame
<1>5. tag \in AvailableTags(s, Kcfg)
  BY <1>1, <1>2, <1>3, DecidesAmong, OutsAvailable DEF KernelTypes
<1>6. ASSUME NEW k
      PROVE  /\ BuildConfig(k, s, Kcfg, cert.mat).outbounds = outbounds(k)
             /\ BuildConfig(k, s, Kcfg, cert.mat).rules = rules(k)
  BY DEF BuildConfig, AllRules
<1>7. list \in Seq(Sources) /\ \A k : MadeOf(outbounds(k), list)
  BY <1>2, <1>3, OutboundsMade
<1>8. PICK i \in DOMAIN list : At(list, tag) = {i}
  BY <1>1, <1>2, <1>3, <1>5, EachTagOnce DEF Once
<1> HIDE DEF s, list, outbounds, rules, tag
<1>9. ASSUME NEW k
      PROVE  /\ At(outbounds(k), tag) = {i}
             /\ i \in DOMAIN outbounds(k) /\ outbounds(k)[i].from = list[i]
  <2>1. DOMAIN outbounds(k) = 1..Len(list) /\ DOMAIN list = 1..Len(list)
    BY <1>7 DEF MadeOf
  <2>2. \A j \in 1..Len(list) :
          outbounds(k)[j].tag = list[j].tag /\ outbounds(k)[j].from = list[j]
    BY <1>7 DEF MadeOf
  <2> QED BY <1>8, <2>1, <2>2 DEF At
<1>10. ASSUME NEW k, Decide(rules(k), c) = tag
       PROVE  Reached(outbounds(k), rules(k), c) = {i}
  BY <1>9, <1>10 DEF Reached, At
<1>11. /\ Reached(outbounds("singbox"), rules("singbox"), c) = {i}
       /\ Reached(outbounds("xray"), rules("xray"), c) = {i}
  BY <1>4, <1>10 DEF tag
<1>12. outbounds("singbox")[i].from = outbounds("xray")[i].from
  BY <1>9
<1> QED BY <1>6, <1>11, <1>12 DEF s

\* A plain specification that both kernels accept sends a connection to what was made of
\* the same outbound, and to exactly one, whatever its rules, its outbounds and the file's
\* are, if its host's name has no rule's domain for a mere part: buildConfig exists twice
\* (config.go, route.go of both packages), and xray's looks for a domain anywhere.
THEOREM SameWay == Spec => []KernelsAgree
<1>1. Init => Sent
  BY DEF Init, Sent
<1> QED BY <1>1, SentStep, SentAgree, PTL DEF Spec

----------------------------------------------------------------------------
(* The inbound.                                                            *)

\* What is common to the two packages leaves the five protocols both of them list.
LEMMA CommonProtocols ==
  ASSUME NEW s, s.protocol \in Protocols("singbox"), s.protocol \in Protocols("xray")
  PROVE  s.protocol \in {"vmess", "vless", "trojan", "shadowsocks", "hysteria"}
BY DEF Protocols

\* With a certificate both packages protect such an inbound in the same way.
LEMMA SameSecurity ==
  ASSUME NEW s, NEW m, HasCert(m), Plain(s),
         s.protocol \in {"vmess", "vless", "trojan", "shadowsocks", "hysteria"}
  PROVE  SingboxSecurity(s, m) = XraySecurity(s, m)
<1>1. CASE s.protocol = "vmess"
  <2>1. s.tls # 2
    BY <1>1 DEF Plain
  <2> QED BY <1>1, <2>1 DEF SingboxSecurity, XraySecurity
<1>2. CASE s.protocol = "vless"
  BY <1>2 DEF SingboxSecurity, XraySecurity
<1>3. CASE s.protocol = "trojan"
  BY <1>3 DEF SingboxSecurity, XraySecurity
<1>4. CASE s.protocol \in {"shadowsocks", "hysteria"}
  BY <1>4 DEF SingboxSecurity, XraySecurity
<1> QED BY <1>1, <1>2, <1>3, <1>4

\* The spellings of a transport that sing-box does not have are kept out of its
\* specifications (NeedsXray), and h2 comes with its settings.
LEMMA SameTransport ==
  ASSUME NEW s, Plain(s), ~NeedsXray(s.network)
  PROVE  SingboxTransport(s) = XrayTransport(s)
<1>1. CASE s.network \in {"", "tcp"}
  BY <1>1 DEF SingboxTransport, XrayTransport
<1>2. CASE s.network \in {"h2", "http"}
  <2>1. s.network = "h2" => s.netSettings
    BY DEF Plain
  <2> QED BY <1>2, <2>1 DEF SingboxTransport, XrayTransport
<1>3. CASE s.network \notin {"", "tcp", "h2", "http"}
  BY <1>3 DEF SingboxTransport, XrayTransport, NeedsXray
<1> QED BY <1>1, <1>2, <1>3

\* A switch of the kernel changes nothing of the inbound the clients see, whatever the
\* specification (applyTLSAndTransport, buildStreamSettings).
THEOREM SameInbound == Spec => []InboundsAgree
<1>1. ASSUME NEW s, NEW m, HasCert(m), Plain(s), ~NeedsXray(s.network),
             s.protocol \in Protocols("singbox"), s.protocol \in Protocols("xray")
      PROVE  /\ BuildInbound("singbox", s, m) = BuildInbound("xray", s, m)
             /\ BuildInbound("singbox", s, m) # NoInbound
  <2>1. s.protocol \in {"vmess", "vless", "trojan", "shadowsocks", "hysteria"}
    BY <1>1, CommonProtocols
  <2>2. /\ SingboxSecurity(s, m) = XraySecurity(s, m)
        /\ SingboxTransport(s) = XrayTransport(s)
    BY <1>1, <2>1, SameSecurity, SameTransport
  <2>3. BuildInbound("singbox", s, m) =
          [protocol |-> s.protocol, security |-> SingboxSecurity(s, m),
           transport |-> IF Carried(s) THEN SingboxTransport(s) ELSE "own"]
    BY <2>1 DEF BuildInbound, SingboxInbound, Protocols
  <2>4. ~(s.protocol = "hysteria" /\ s.version # 2)
    BY <1>1 DEF Plain
  <2>5. BuildInbound("xray", s, m) =
          [protocol |-> s.protocol, security |-> XraySecurity(s, m),
           transport |-> IF Carried(s) THEN XrayTransport(s) ELSE "own"]
    BY <1>1, <2>1, <2>4 DEF BuildInbound, XrayInbound, Protocols
  <2>6. BuildInbound("singbox", s, m).protocol # NoInbound.protocol
    <3>1. BuildInbound("singbox", s, m).protocol = s.protocol
      BY <2>3
    <3>2. NoInbound.protocol = ""
      BY DEF NoInbound
    <3> QED BY <2>1, <3>1, <3>2
  <2> QED BY <2>2, <2>3, <2>5, <2>6
<1>2. InboundsAgree
  <2>1. ASSUME Shared(SpecOf(spec))
        PROVE  /\ Plain(SpecOf(spec)) /\ ~NeedsXray(SpecOf(spec).network)
               /\ SpecOf(spec).protocol \in Protocols("singbox")
               /\ SpecOf(spec).protocol \in Protocols("xray")
    BY <2>1 DEF Shared, ValidateNodeSpec, ValidateNodeRuntime
  <2> QED BY <1>1, <2>1 DEF InboundsAgree
<1> QED BY <1>2, PTL
=============================================================================
