------------------------ MODULE ProjectInventory_proofs ------------------------
(* Proofs about ProjectInventory, for every catalog, set of services, types  *)
(* and resources that meets its assumptions, whatever clients and requests   *)
(* fail and however the cloud changes meanwhile.                             *)
EXTENDS ProjectInventory, WellFoundedInduction, TLAPS

-----------------------------------------------------------------------------
(* Induction and sequences.                                                  *)

\* Every nonempty set of natural numbers has a least element.
LEMMA LeastNumber ==
    ASSUME NEW T, T \subseteq Nat, T # {}
    PROVE  \E n \in T : \A m \in T : n <= m
<1> DEFINE R == OpToRel(<, Nat)
<1>1. IsWellFoundedOn(R, Nat)
  BY NatLessThanWellFounded
<1>2. \A m, n \in Nat : <<m, n>> \in R <=> m < n
  BY DEF OpToRel
<1> HIDE DEF R
<1>3. PICK n \in T : \A m \in T : ~(<<m, n>> \in R)
  BY <1>1, WFMin
<1>4. ASSUME NEW m \in T PROVE n <= m
  <2>1. m \in Nat /\ n \in Nat
    OBVIOUS
  <2>2. ~(m < n)
    BY <1>2, <1>3, <2>1
  <2>3. QED BY <2>1, <2>2
<1>5. QED BY <1>4

LEMMA Induction ==
    ASSUME NEW S, 0 \in S, \A n \in Nat : n \in S => n + 1 \in S
    PROVE  Nat \subseteq S
<1> SUFFICES ASSUME Nat \ S # {} PROVE FALSE
  OBVIOUS
<1>1. PICK n \in Nat \ S : \A m \in Nat \ S : n <= m
  BY LeastNumber
<1>2. n # 0 /\ n - 1 \in Nat
  BY <1>1
<1>3. n - 1 \in S
  BY <1>1, <1>2
<1>4. QED BY <1>1, <1>2, <1>3

LEMMA TailFacts ==
    ASSUME NEW T, NEW q \in Seq(T), q # <<>>
    PROVE  /\ Head(q) \in T /\ Tail(q) \in Seq(T)
           /\ Elements(q) = {Head(q)} \cup Elements(Tail(q))
           /\ Distinct(q) => Distinct(Tail(q)) /\ Head(q) \notin Elements(Tail(q))
<1>1. /\ Len(q) \in Nat /\ Len(q) > 0 /\ DOMAIN q = 1 .. Len(q) /\ Head(q) = q[1]
      /\ Tail(q) \in Seq(T) /\ Head(q) \in T
  OBVIOUS
<1>2. Len(Tail(q)) = Len(q) - 1 /\ DOMAIN Tail(q) = 1 .. Len(q) - 1
  BY <1>1
<1>3. \A i \in 1 .. Len(q) - 1 : Tail(q)[i] = q[i + 1] /\ i + 1 \in 1 .. Len(q) /\ i + 1 # 1
  BY <1>1
<1>4. Elements(q) = {Head(q)} \cup Elements(Tail(q))
  <2>1. ASSUME NEW x \in Elements(q) PROVE x = Head(q) \/ x \in Elements(Tail(q))
    <3>1. PICK i \in 1 .. Len(q) : x = q[i]
      BY <1>1 DEF Elements
    <3>2. CASE i = 1
      BY <1>1, <3>1, <3>2
    <3>3. CASE i # 1
      <4>1. i - 1 \in 1 .. Len(q) - 1 /\ (i - 1) + 1 = i
        BY <1>1, <3>3
      <4>2. Tail(q)[i - 1] = x
        BY <1>3, <3>1, <4>1
      <4>3. QED BY <1>2, <4>1, <4>2 DEF Elements
    <3>4. QED BY <3>2, <3>3
  <2>2. Head(q) \in Elements(q)
    BY <1>1 DEF Elements
  <2>3. ASSUME NEW x \in Elements(Tail(q)) PROVE x \in Elements(q)
    <3>1. PICK i \in 1 .. Len(q) - 1 : x = Tail(q)[i]
      BY <1>2 DEF Elements
    <3>2. QED BY <1>1, <1>3, <3>1 DEF Elements
  <2>4. QED BY <2>1, <2>2, <2>3
<1>5. ASSUME Distinct(q) PROVE Distinct(Tail(q)) /\ Head(q) \notin Elements(Tail(q))
  <2>1. \A i, j \in 1 .. Len(q) : q[i] = q[j] => i = j
    BY <1>1, <1>5 DEF Distinct
  <2>2. ASSUME NEW i \in 1 .. Len(q) - 1, NEW j \in 1 .. Len(q) - 1, Tail(q)[i] = Tail(q)[j]
        PROVE  i = j
    <3>1. i + 1 = j + 1
      BY <1>3, <2>1, <2>2
    <3>2. QED BY <1>1, <3>1
  <2>3. ASSUME NEW i \in 1 .. Len(q) - 1 PROVE Tail(q)[i] # Head(q)
    <3>1. 1 \in 1 .. Len(q)
      BY <1>1
    <3>2. QED BY <1>1, <1>3, <2>1, <3>1
  <2>4. QED BY <1>2, <2>2, <2>3 DEF Distinct, Elements
<1>6. QED BY <1>1, <1>4, <1>5

LEMMA EmptyFacts == Elements(<<>>) = {} /\ Distinct(<<>>)
  BY DEF Elements, Distinct

LEMMA ElementsType ==
    ASSUME NEW T, NEW q \in Seq(T)
    PROVE  Elements(q) \subseteq T /\ (q = <<>> <=> Elements(q) = {})
<1>1. DOMAIN q = 1 .. Len(q) /\ Len(q) \in Nat /\ \A i \in DOMAIN q : q[i] \in T
  OBVIOUS
<1>2. Elements(q) \subseteq T
  BY <1>1 DEF Elements
<1>3. ASSUME q # <<>> PROVE Elements(q) # {}
  <2>1. Elements(q) = {Head(q)} \cup Elements(Tail(q))
    BY <1>3, TailFacts
  <2>2. QED BY <2>1
<1>4. QED BY <1>2, <1>3, EmptyFacts

LEMMA AppendFacts ==
    ASSUME NEW T, NEW q \in Seq(T), NEW x \in T
    PROVE  /\ Append(q, x) \in Seq(T) /\ Elements(Append(q, x)) = Elements(q) \cup {x}
           /\ Distinct(q) /\ x \notin Elements(q) => Distinct(Append(q, x))
<1>1. Len(q) \in Nat /\ DOMAIN q = 1 .. Len(q) /\ DOMAIN Append(q, x) = 1 .. Len(q) + 1
  OBVIOUS
<1>2. Append(q, x)[Len(q) + 1] = x /\ \A i \in 1 .. Len(q) : Append(q, x)[i] = q[i]
  BY <1>1
<1>3. 1 .. Len(q) + 1 = 1 .. Len(q) \cup {Len(q) + 1}
  BY <1>1
<1>4. Append(q, x) \in Seq(T)
  OBVIOUS
<1>5. Elements(Append(q, x)) = Elements(q) \cup {x}
  BY <1>1, <1>2, <1>3 DEF Elements
<1>6. Distinct(q) /\ x \notin Elements(q) => Distinct(Append(q, x))
  BY <1>1, <1>2, <1>3 DEF Elements, Distinct
<1>7. QED BY <1>4, <1>5, <1>6

LEMMA ConcatFacts ==
    ASSUME NEW T, NEW p \in Seq(T), NEW q \in Seq(T)
    PROVE  /\ p \o q \in Seq(T) /\ Elements(p \o q) = Elements(p) \cup Elements(q)
           /\ Distinct(p) /\ Distinct(q) /\ Elements(p) \cap Elements(q) = {} => Distinct(p \o q)
<1>1. /\ Len(p) \in Nat /\ Len(q) \in Nat /\ DOMAIN p = 1 .. Len(p) /\ DOMAIN q = 1 .. Len(q)
      /\ DOMAIN (p \o q) = 1 .. Len(p) + Len(q) /\ p \o q \in Seq(T)
  OBVIOUS
<1>2. \A i \in 1 .. Len(p) : (p \o q)[i] = p[i] /\ i \in 1 .. Len(p) + Len(q)
  BY <1>1
<1>3. \A i \in 1 .. Len(q) : (p \o q)[Len(p) + i] = q[i] /\ Len(p) + i \in 1 .. Len(p) + Len(q)
  BY <1>1
<1>4. \A k \in 1 .. Len(p) + Len(q) : k \in 1 .. Len(p) \/ \E i \in 1 .. Len(q) : k = Len(p) + i
  <2>1. ASSUME NEW k \in 1 .. Len(p) + Len(q), k \notin 1 .. Len(p)
        PROVE  k - Len(p) \in 1 .. Len(q) /\ k = Len(p) + (k - Len(p))
    BY <1>1, <2>1
  <2>2. QED BY <2>1
<1>5. Elements(p \o q) = Elements(p) \cup Elements(q)
  <2>1. ASSUME NEW x \in Elements(p \o q) PROVE x \in Elements(p) \cup Elements(q)
    <3>1. PICK k \in 1 .. Len(p) + Len(q) : x = (p \o q)[k]
      BY <1>1 DEF Elements
    <3>2. CASE k \in 1 .. Len(p)
      BY <1>1, <1>2, <3>1, <3>2 DEF Elements
    <3>3. CASE k \notin 1 .. Len(p)
      <4>1. PICK i \in 1 .. Len(q) : k = Len(p) + i
        BY <1>4, <3>3
      <4>2. x = q[i]
        BY <1>3, <3>1, <4>1
      <4>3. QED BY <1>1, <4>2 DEF Elements
    <3>4. QED BY <3>2, <3>3
  <2>2. ASSUME NEW x \in Elements(p) PROVE x \in Elements(p \o q)
    <3>1. PICK i \in 1 .. Len(p) : x = p[i]
      BY <1>1 DEF Elements
    <3>2. QED BY <1>1, <1>2, <3>1 DEF Elements
  <2>3. ASSUME NEW x \in Elements(q) PROVE x \in Elements(p \o q)
    <3>1. PICK i \in 1 .. Len(q) : x = q[i]
      BY <1>1 DEF Elements
    <3>2. x = (p \o q)[Len(p) + i] /\ Len(p) + i \in DOMAIN (p \o q)
      BY <1>1, <1>3, <3>1
    <3>3. QED BY <3>2 DEF Elements
  <2>4. QED BY <2>1, <2>2, <2>3
<1>6. ASSUME Distinct(p), Distinct(q), Elements(p) \cap Elements(q) = {} PROVE Distinct(p \o q)
  <2> SUFFICES ASSUME NEW k \in 1 .. Len(p) + Len(q), NEW l \in 1 .. Len(p) + Len(q),
                      (p \o q)[k] = (p \o q)[l]
               PROVE  k = l
    BY <1>1 DEF Distinct
  <2>1. CASE k \in 1 .. Len(p) /\ l \in 1 .. Len(p)
    BY <1>1, <1>2, <1>6, <2>1 DEF Distinct
  <2>2. CASE k \notin 1 .. Len(p) /\ l \notin 1 .. Len(p)
    <3>1. PICK i \in 1 .. Len(q) : k = Len(p) + i
      BY <1>4, <2>2
    <3>2. PICK j \in 1 .. Len(q) : l = Len(p) + j
      BY <1>4, <2>2
    <3>3. q[i] = q[j]
      BY <1>3, <3>1, <3>2
    <3>4. i = j
      BY <1>1, <1>6, <3>3 DEF Distinct
    <3>5. QED BY <3>1, <3>2, <3>4
  <2>3. CASE k \in 1 .. Len(p) /\ l \notin 1 .. Len(p)
    <3>1. (p \o q)[k] \in Elements(p) /\ (p \o q)[l] \in Elements(q)
      BY <1>1, <1>2, <1>3, <1>4, <2>3 DEF Elements
    <3>2. QED BY <1>6, <3>1
  <2>4. CASE k \notin 1 .. Len(p) /\ l \in 1 .. Len(p)
    <3>1. (p \o q)[l] \in Elements(p) /\ (p \o q)[k] \in Elements(q)
      BY <1>1, <1>2, <1>3, <1>4, <2>4 DEF Elements
    <3>2. QED BY <1>6, <3>1
  <2>5. QED BY <2>1, <2>2, <2>3, <2>4
<1>7. QED BY <1>1, <1>5, <1>6

\* The function of Only exists: f[i] has what the first i elements give.
LEMMA OnlyTree ==
    ASSUME NEW q, Len(q) \in Nat, NEW S
    PROVE  \E f : /\ f = [i \in 0 .. Len(q) |->
                            IF i = 0 THEN <<>>
                            ELSE IF q[i] \in S THEN Append(f[i - 1], q[i]) ELSE f[i - 1]]
                  /\ Only(q, S) = f[Len(q)]
<1> DEFINE Next1(v, x) == IF x \in S THEN Append(v, x) ELSE v
           Body(f, n) == [i \in 0 .. n |-> IF i = 0 THEN <<>>
                            ELSE IF q[i] \in S THEN Append(f[i - 1], q[i]) ELSE f[i - 1]]
           Good == {n \in Nat : \E f : f = Body(f, n)}
<1>1. 0 \in Good
  <2>1. [i \in 0 .. 0 |-> <<>>] = Body([i \in 0 .. 0 |-> <<>>], 0)
    OBVIOUS
  <2>2. QED BY <2>1
<1>2. ASSUME NEW n \in Nat, n \in Good PROVE n + 1 \in Good
  <2>1. PICK f : f = Body(f, n)
    BY <1>2
  <2> DEFINE g == [i \in 0 .. n + 1 |-> IF i = n + 1 THEN Next1(f[n], q[n + 1]) ELSE f[i]]
  <2>2. g = Body(g, n + 1)
    <3>1. ASSUME NEW i \in 0 .. n + 1 PROVE g[i] = Body(g, n + 1)[i]
      <4>1. CASE i = n + 1
        BY <4>1
      <4>2. CASE i = 0
        BY <4>2, <2>1
      <4>3. CASE i \in 1 .. n
        <5>1. g[i] = f[i] /\ g[i - 1] = f[i - 1]
          BY <4>3
        <5>2. f[i] = Next1(f[i - 1], q[i])
          <6>1. i \in 0 .. n /\ i # 0
            BY <4>3
          <6>2. f[i] = Body(f, n)[i]
            BY <2>1
          <6>3. Body(f, n)[i] = Next1(f[i - 1], q[i])
            BY <6>1
          <6> HIDE DEF Body
          <6>4. QED BY <6>2, <6>3
        <5>3. QED BY <4>3, <5>1, <5>2
      <4>4. QED BY <4>1, <4>2, <4>3
    <3>2. QED BY <3>1
  <2>3. \E h : h = Body(h, n + 1)
    <3> HIDE DEF g, Body
    <3>1. QED BY <2>2
  <2>4. n + 1 \in Nat
    OBVIOUS
  <2> HIDE DEF Body
  <2>5. QED BY <2>3, <2>4
<1>3. Len(q) \in Good
  BY <1>1, <1>2, Induction
<1>4. PICK h : h = Body(h, Len(q))
  BY <1>3
<1>5. QED BY <1>4 DEF Only

LEMMA OnlyFacts ==
    ASSUME NEW T, NEW q \in Seq(T), NEW S
    PROVE  /\ Only(q, S) \in Seq(T) /\ Elements(Only(q, S)) = Elements(q) \cap S
           /\ Distinct(q) => Distinct(Only(q, S))
<1>0. PICK N : N = Len(q) /\ N \in Nat /\ DOMAIN q = 1 .. N /\ \A i \in 1 .. N : q[i] \in T
  OBVIOUS
<1>1. PICK f : /\ f = [i \in 0 .. N |->
                            IF i = 0 THEN <<>>
                            ELSE IF q[i] \in S THEN Append(f[i - 1], q[i]) ELSE f[i - 1]]
               /\ Only(q, S) = f[N]
  BY <1>0, OnlyTree
<1> DEFINE First(n) == {q[i] : i \in 1 .. n}
           Right(n) == /\ f[n] \in Seq(T) /\ Elements(f[n]) = First(n) \cap S
                       /\ Distinct(q) => Distinct(f[n])
           Good == {n \in Nat : n <= N => Right(n)}
<1>2. 0 \in Good
  <2>1. f[0] = <<>>
    BY <1>0, <1>1
  <2>2. First(0) = {}
    OBVIOUS
  <2>3. Right(0)
    BY <2>1, <2>2, EmptyFacts
  <2> HIDE DEF Right
  <2>4. QED BY <2>3
<1>3. ASSUME NEW n \in Nat, n \in Good PROVE n + 1 \in Good
  <2>1. SUFFICES ASSUME n + 1 <= N PROVE Right(n + 1)
    OBVIOUS
  <2>2. n <= N /\ Right(n)
    BY <1>0, <1>3, <2>1
  <2>3. PICK x : x = q[n + 1]
    OBVIOUS
  <2>4. x \in T /\ f[n + 1] = (IF x \in S THEN Append(f[n], x) ELSE f[n])
    <3>1. n + 1 \in 0 .. N /\ n + 1 # 0 /\ (n + 1) - 1 = n /\ n + 1 \in 1 .. N
      BY <1>0, <2>1
    <3>2. PICK k : k = n + 1
      OBVIOUS
    <3>3. f[k] = (IF k = 0 THEN <<>> ELSE IF q[k] \in S THEN Append(f[k - 1], q[k]) ELSE f[k - 1])
      BY <1>1, <3>1, <3>2
    <3>4. q[k] = x /\ k # 0 /\ k - 1 = n
      BY <2>3, <3>1, <3>2
    <3>5. f[k] = (IF x \in S THEN Append(f[n], x) ELSE f[n])
      BY <3>3, <3>4
    <3>6. x \in T
      BY <1>0, <2>3, <3>1
    <3>7. QED BY <3>2, <3>5, <3>6
  <2>5. First(n + 1) = First(n) \cup {x}
    <3>1. 1 .. n + 1 = 1 .. n \cup {n + 1}
      OBVIOUS
    <3>2. QED BY <2>3, <3>1
  <2>6. Distinct(q) => x \notin First(n)
    <3>1. \A i \in 1 .. n : i \in 1 .. N /\ n + 1 \in 1 .. N /\ i # n + 1
      BY <1>0, <2>1
    <3>2. QED BY <1>0, <2>3, <3>1 DEF Distinct
  <2> HIDE DEF First
  <2>7. CASE x \in S
    <3>1. PICK v : v = f[n]
      OBVIOUS
    <3>2. /\ Append(v, x) \in Seq(T) /\ Elements(Append(v, x)) = Elements(v) \cup {x}
          /\ Distinct(v) /\ x \notin Elements(v) => Distinct(Append(v, x))
      BY <2>2, <2>4, <3>1, AppendFacts
    <3>3. QED BY <2>2, <2>4, <2>5, <2>6, <2>7, <3>1, <3>2
  <2>8. CASE x \notin S
    BY <2>2, <2>4, <2>5, <2>8
  <2>9. QED BY <2>7, <2>8
<1>4. Right(N)
  <2> HIDE DEF Right
  <2>1. N \in Good
    BY <1>0, <1>2, <1>3, Induction
  <2>2. QED BY <1>0, <2>1
<1>5. First(N) = Elements(q)
  BY <1>0 DEF Elements
<1>6. QED BY <1>1, <1>4, <1>5

-----------------------------------------------------------------------------
(* What a service is asked for.                                              *)

\* What depends on the clients and the connections is fixed once they are.
LEMMA SameSetup ==
    ASSUME UNCHANGED setup
    PROVE  /\ \A s : Sdk(s)' <=> Sdk(s)
           /\ \A s : Names(s)' = Names(s)
           /\ \A s : DirectSpecs(s)' = DirectSpecs(s)
           /\ \A s : NestedSpecs(s)' = NestedSpecs(s)
           /\ \A s : InStore(s)' <=> InStore(s)
           /\ \A s : StoreBroken(s)' <=> StoreBroken(s)
           /\ \A s : Asked(s)' = Asked(s)
           /\ \A s : ProviderConnection(s)' = ProviderConnection(s)
           /\ \A s, r : BelongsToProject(s, r)' <=> BelongsToProject(s, r)
           /\ \A s, r : Visible(s, r)' <=> Visible(s, r)
<1>0. kind' = kind /\ session' = session /\ scope' = scope
  BY DEF setup
<1>1. \A s : Sdk(s)' <=> Sdk(s)
  BY <1>0 DEF Sdk
<1>2. \A s : Names(s)' = Names(s)
  BY <1>1 DEF Names
<1>3. \A s : InStore(s)' <=> InStore(s)
  BY <1>1 DEF InStore
<1>4. \A s : StoreBroken(s)' <=> StoreBroken(s)
  BY <1>2, <1>3 DEF StoreBroken
<1>5. \A s, t : Skipped(s, t)' <=> Skipped(s, t)
  BY <1>1 DEF Skipped, IsGlobal, NonDeletableResource
<1>6. ASSUME NEW s PROVE DirectSpecs(s)' = DirectSpecs(s)
  <2> DEFINE X == {t \in Type : /\ ~Skipped(s, t) /\ Attr[t].parents = {}
                                /\ Sdk(s) => Attr[t].field \/ Attr[t].exception}
  <2>1. X' = X
    BY <1>1, <1>5
  <2>2. DirectSpecs(s) = Only(Names(s), X) /\ DirectSpecs(s)' = Only(Names(s)', X')
    BY DEF DirectSpecs, Only
  <2> HIDE DEF X
  <2>3. QED BY <1>2, <2>1, <2>2
<1>7. ASSUME NEW s PROVE NestedSpecs(s)' = NestedSpecs(s)
  <2> DEFINE X == {t \in Type :
                     ~Skipped(s, t) /\ Attr[t].parents # {} /\ ~(InStore(s) /\ t = ObjectType)}
  <2>1. X' = X
    BY <1>3, <1>5
  <2>2. NestedSpecs(s) = Only(Names(s), X) /\ NestedSpecs(s)' = Only(Names(s)', X')
    BY DEF NestedSpecs, Only
  <2> HIDE DEF X
  <2>3. QED BY <1>2, <2>1, <2>2
<1>8. \A s : Asked(s)' = Asked(s)
  BY <1>3, <1>4, <1>6, <1>7 DEF Asked, Elements
<1>9. \A s : ProviderConnection(s)' = ProviderConnection(s)
  BY <1>0 DEF ProviderConnection
<1>10. \A s, r : BelongsToProject(s, r)' <=> BelongsToProject(s, r)
  BY <1>1, <1>9 DEF BelongsToProject, ProjectValue
<1>11. \A s, r : Visible(s, r)' <=> Visible(s, r)
  BY <1>1, <1>6, <1>9, <1>10 DEF Visible, ProjectFilter, Elements
<1>12. QED BY <1>1, <1>2, <1>3, <1>4, <1>6, <1>7, <1>8, <1>9, <1>10, <1>11

\* The names of a service are its own types, each once; the direct specs are
\* those without parents, the nested ones those with parents.
LEMMA SpecFacts ==
    ASSUME NEW s \in Service
    PROVE  /\ Names(s) \in Seq(Type) /\ Distinct(Names(s))
           /\ Elements(Names(s)) \subseteq TypesOf(s) /\ Elements(Names(s)) \subseteq Type
           /\ DirectSpecs(s) \in Seq(Type) /\ Distinct(DirectSpecs(s))
           /\ Elements(DirectSpecs(s)) = Elements(Names(s)) \cap {t \in Type :
                 /\ ~Skipped(s, t) /\ Attr[t].parents = {}
                 /\ Sdk(s) => Attr[t].field \/ Attr[t].exception}
           /\ NestedSpecs(s) \in Seq(Type) /\ Distinct(NestedSpecs(s))
           /\ Elements(NestedSpecs(s)) = Elements(Names(s)) \cap {t \in Type :
                 ~Skipped(s, t) /\ Attr[t].parents # {} /\ ~(InStore(s) /\ t = ObjectType)}
<1>1. Names(s) \in Seq(Type) /\ Distinct(Names(s)) /\ Elements(Names(s)) \subseteq TypesOf(s)
  <2>1. CASE Sdk(s)
    BY <2>1, ServicesAssumption DEF Names, TypesOf
  <2>2. CASE ~Sdk(s)
    BY <2>2, ServicesAssumption DEF Names, TypesOf
  <2>3. QED BY <2>1, <2>2
<1>2. Elements(Names(s)) \subseteq Type
  BY <1>1, ElementsType
<1>3. PICK X : X = {t \in Type : /\ ~Skipped(s, t) /\ Attr[t].parents = {}
                                 /\ Sdk(s) => Attr[t].field \/ Attr[t].exception}
  OBVIOUS
<1>4. DirectSpecs(s) = Only(Names(s), X)
  BY <1>3 DEF DirectSpecs
<1>5. PICK Y : Y = {t \in Type :
                      ~Skipped(s, t) /\ Attr[t].parents # {} /\ ~(InStore(s) /\ t = ObjectType)}
  OBVIOUS
<1>6. NestedSpecs(s) = Only(Names(s), Y)
  BY <1>5 DEF NestedSpecs
<1>7. /\ DirectSpecs(s) \in Seq(Type) /\ Elements(DirectSpecs(s)) = Elements(Names(s)) \cap X
      /\ Distinct(DirectSpecs(s))
  BY <1>1, <1>4, OnlyFacts
<1>8. /\ NestedSpecs(s) \in Seq(Type) /\ Elements(NestedSpecs(s)) = Elements(Names(s)) \cap Y
      /\ Distinct(NestedSpecs(s))
  BY <1>1, <1>6, OnlyFacts
<1>9. QED BY <1>1, <1>2, <1>3, <1>5, <1>7, <1>8

LEMMA StoreTypes == ContainerType # ObjectType /\ ContainerType \in Type /\ ObjectType \in Type
<1>1. ContainerType \in {ContainerType}
  OBVIOUS
<1>2. QED BY <1>1, StoreAssumption

LEMMA ObjectSpecFacts ==
    ASSUME NEW s
    PROVE  /\ ObjectSpecs(s) \in Seq(Type) /\ Distinct(ObjectSpecs(s))
           /\ Elements(ObjectSpecs(s)) = (IF InStore(s) /\ ~StoreBroken(s)
                                          THEN {ContainerType, ObjectType} \ (known \cap {ContainerType})
                                          ELSE {})
<1>1. /\ <<ObjectType>> \in Seq(Type) /\ Distinct(<<ObjectType>>)
      /\ Elements(<<ObjectType>>) = {ObjectType}
  BY StoreTypes DEF Elements, Distinct
<1>2. /\ <<ContainerType, ObjectType>> \in Seq(Type) /\ Distinct(<<ContainerType, ObjectType>>)
      /\ Elements(<<ContainerType, ObjectType>>) = {ContainerType, ObjectType}
  <2>1. PICK q : q = <<ContainerType, ObjectType>>
    OBVIOUS
  <2>2. DOMAIN q = {1, 2} /\ q[1] = ContainerType /\ q[2] = ObjectType
    BY <2>1
  <2>3. q \in Seq(Type)
    BY <2>1, StoreTypes
  <2>4. QED BY <2>1, <2>2, <2>3, StoreTypes DEF Elements, Distinct
<1>3. <<>> \in Seq(Type)
  OBVIOUS
<1>4. CASE ~InStore(s) \/ StoreBroken(s)
  BY <1>3, <1>4, EmptyFacts DEF ObjectSpecs
<1>5. CASE InStore(s) /\ ~StoreBroken(s) /\ ContainerType \in known
  BY <1>1, <1>5, StoreTypes DEF ObjectSpecs
<1>6. CASE InStore(s) /\ ~StoreBroken(s) /\ ContainerType \notin known
  BY <1>2, <1>6, StoreTypes DEF ObjectSpecs
<1>7. QED BY <1>4, <1>5, <1>6

-----------------------------------------------------------------------------
(* The invariants.                                                           *)

Preparing == {"discover", "select", "project", "connect"}
Collecting == {"direct", "nested", "request"}
Listing == Collecting \cup {"collect", "done"}

\* The services whose collection has ended.
Closed == Elements(providers) \ Elements(queue)

QueueInv ==
    /\ Distinct(queue) /\ Distinct(providers)
    /\ pc \in Preparing => providers = <<>>
    /\ pc \in Preparing \cup {"resolve"} => listed = {}
    /\ pc = "resolve" => Elements(queue) \cap Elements(providers) = {}
    /\ pc \in Listing => Elements(queue) \subseteq Elements(providers)
    /\ pc \in Collecting => queue # <<>>
    /\ pc = "done" => queue = <<>>

\* What is listed is of a service whose collection has ended.
ListedInv == \A r \in listed : \E s \in Closed : Info[r].type \in Elements(Names(s))

\* The types that are listed after the direct ones.
LaterSpecs(s) == Elements(NestedSpecs(s))
                   \cup (IF InStore(s) /\ ~StoreBroken(s) THEN {ContainerType, ObjectType} ELSE {})

\* One service: its objects are of its types, each under its own.
StageInv == pc \in Collecting =>
    /\ known \subseteq Elements(Names(Current))
    /\ \A t \in Type : \A r \in objects[t] : Info[r].type = t /\ t \in known

DirectInv == pc = "direct" =>
    /\ Distinct(todo) /\ Elements(todo) \cap known = {}
    /\ known \cup Elements(todo) = Elements(DirectSpecs(Current))

\* Later a type is known, waits in this pass, or waits for the next one; no
\* type is listed twice, and the parents of a known type are known.
NestedInv == pc \in {"nested", "request"} =>
    /\ Distinct(todo) /\ Elements(todo) \cap known = {}
    /\ Elements(todo) \cup Elements(later) \subseteq LaterSpecs(Current)
    /\ Sdk(Current) => Distinct(later) /\ Elements(later) \cap (known \cup Elements(todo)) = {}
    /\ Asked(Current) \subseteq known \cup Elements(todo) \cup Elements(later)
    /\ Elements(DirectSpecs(Current)) \subseteq known
    /\ \A t \in known : Attr[t].parents \subseteq known
    /\ Sdk(Current) /\ ~progressed =>
          \A t \in Elements(later) : ParentsUnknown(t) \/ ParentsEmpty(t)

RequestInv == pc = "request" =>
    /\ todo # <<>> /\ Attr[Head(todo)].parents \subseteq known
    /\ combos \subseteq Combinations(Head(todo))
    /\ \A r \in got : Info[r].type = Head(todo)

BaseInv == TypeOK /\ QueueInv /\ ListedInv /\ StageInv /\ DirectInv /\ NestedInv /\ RequestInv

-----------------------------------------------------------------------------
(* Types.                                                                    *)

\* The steps before any resource is requested, and those of a collection.
Prepare == \/ DiscoverEndpoints \/ SelectEndpoints \/ ResolveProject \/ AsProjectConnection
           \/ ResolveProvider \/ Preflight
Collect == \/ StartCollect \/ ListDirect \/ EndDirect \/ NextNested \/ RequestChildren
           \/ EndNested \/ NextPass \/ EndCollect \/ CollectCrash \/ Report

LEMMA StepCases ==
    ASSUME [Next]_vars
    PROVE  \/ Prepare \/ Collect
           \/ /\ UNCHANGED <<pc, setup, queue, errors, pass, request, found, listed, dropped, rc>>
              /\ UNCHANGED cloud \/ \E r \in Res : CloudCreate(r) \/ CloudDelete(r)
  BY DEF Next, Step, Prepare, Collect, Finished, CloudCreate, CloudDelete, vars

LEMMA PrepareFacts ==
    ASSUME Prepare, TypeOK
    PROVE  /\ pc \in Preparing \cup {"resolve"} /\ pc' \notin Collecting \cup {"done"}
           /\ UNCHANGED <<pass, request, found, listed, dropped, cloud, strict>>
<1>1. CASE DiscoverEndpoints
  BY <1>1 DEF DiscoverEndpoints, Preparing, Collecting, Abort
<1>2. CASE SelectEndpoints
  BY <1>2 DEF SelectEndpoints, Preparing, Collecting, Abort
<1>3. CASE ResolveProject
  BY <1>3 DEF ResolveProject, Preparing, Collecting, Abort, setup
<1>4. CASE AsProjectConnection
  BY <1>4 DEF AsProjectConnection, Preparing, Collecting
<1>5. CASE ResolveProvider
  BY <1>5 DEF ResolveProvider, Collecting
<1>6. CASE Preflight
  BY <1>6 DEF Preflight, Collecting, Abort, setup
<1>7. QED BY <1>1, <1>2, <1>3, <1>4, <1>5, <1>6 DEF Prepare

LEMMA CollectFacts ==
    ASSUME Collect
    PROVE  /\ pc \in Collecting \cup {"collect"} /\ pc' \notin Preparing \cup {"resolve"}
           /\ UNCHANGED <<setup, cloud>>
<1>1. CASE StartCollect
  BY <1>1 DEF StartCollect, Collecting, Preparing, Abort
<1>2. CASE ListDirect
  BY <1>2 DEF ListDirect, TakenForMissing, Collecting, Preparing, AfterFailure, Abort
<1>3. CASE EndDirect
  BY <1>3 DEF EndDirect, Collecting, Preparing, Abort
<1>4. CASE NextNested
  BY <1>4 DEF NextNested, Collecting, Preparing
<1>5. CASE RequestChildren
  BY <1>5 DEF RequestChildren, TakenForMissing, Collecting, Preparing, AfterFailure, Abort
<1>6. CASE EndNested
  BY <1>6 DEF EndNested, Collecting, Preparing
<1>7. CASE NextPass
  BY <1>7 DEF NextPass, Collecting, Preparing
<1>8. CASE EndCollect
  BY <1>8 DEF EndCollect, Collecting, Preparing, Abort
<1>9. CASE CollectCrash
  BY <1>9 DEF CollectCrash, Collecting, Preparing, Abort
<1>10. CASE Report
  BY <1>10 DEF Report, Collecting, Preparing
<1>11. QED BY <1>1, <1>2, <1>3, <1>4, <1>5, <1>6, <1>7, <1>8, <1>9, <1>10 DEF Collect

LEMMA TypeInit == Init => TypeOK
<1> SUFFICES ASSUME Init PROVE TypeOK
  OBVIOUS
<1>1. <<>> \in Seq(Service) /\ <<>> \in Seq(Type)
  OBVIOUS
<1>2. kind \in [Service -> {"none", "sdk", "legacy"}] /\ objects \in [Type -> SUBSET Res]
  BY DEF Init
<1>3. NoProject \in Project
  BY DEF Project
<1>4. strict \in BOOLEAN /\ progressed \in BOOLEAN
  BY DEF Init
<1>5. QED BY <1>1, <1>2, <1>3, <1>4 DEF Init, TypeOK

\* The parts of TypeOK that most steps leave alone.
SetupType == /\ strict \in BOOLEAN /\ session \in Project /\ scope \in Project
             /\ providers \in Seq(Service) /\ kind \in [Service -> {"none", "sdk", "legacy"}]
WorkType == /\ todo \in Seq(Type) /\ later \in Seq(Type) /\ progressed \in BOOLEAN
            /\ combos \subseteq SUBSET Res /\ got \subseteq Res
            /\ known \subseteq Type /\ objects \in [Type -> SUBSET Res]
            /\ listed \subseteq Res /\ dropped \subseteq Type /\ cloud \subseteq Res

LEMMA PrepareTypes == ASSUME TypeOK, Prepare PROVE TypeOK'
<1>1. WorkType'
  <2>1. WorkType
    BY DEF TypeOK, WorkType
  <2>2. QED BY <2>1, PrepareFacts DEF WorkType, pass, request, found
<1>2. SetupType
  BY DEF TypeOK, SetupType
<1>3. strict' \in BOOLEAN
  BY <1>2, PrepareFacts DEF SetupType
<1>4. CASE DiscoverEndpoints
  <2>1. pc' \in {"select", "failed"} /\ rc' \in {0, 2}
    BY <1>4 DEF DiscoverEndpoints, Abort, TypeOK
  <2>2. UNCHANGED <<strict, session, scope, providers, kind, queue, errors>>
    BY <1>4 DEF DiscoverEndpoints
  <2>3. QED BY <1>1, <1>3, <2>1, <2>2 DEF TypeOK, WorkType
<1>5. CASE SelectEndpoints
  <2>1. pc' \in {"project", "failed"} /\ rc' \in {0, 2}
    BY <1>5 DEF SelectEndpoints, Abort, TypeOK
  <2>2. UNCHANGED <<strict, session, scope, providers, kind, errors>>
    BY <1>5 DEF SelectEndpoints
  <2>3. \A S : Only(ServiceOrder, S) \in Seq(Service)
    BY ServicesAssumption, OnlyFacts
  <2>4. queue' \in Seq(Service)
    BY <1>5, <2>3 DEF SelectEndpoints, TypeOK
  <2>5. QED BY <1>1, <1>3, <2>1, <2>2, <2>4 DEF TypeOK, WorkType
<1>6. CASE ResolveProject
  <2>1. pc' \in {"connect", "failed"} /\ rc' \in {0, 2}
    BY <1>6 DEF ResolveProject, Abort, TypeOK
  <2>2. UNCHANGED <<strict, session, scope, providers, kind, queue, errors>>
    BY <1>6 DEF ResolveProject, setup
  <2>3. QED BY <1>1, <1>3, <2>1, <2>2 DEF TypeOK, WorkType
<1>7. CASE AsProjectConnection
  <2>1. pc' = "resolve" /\ scope' \in Project
    BY <1>7 DEF AsProjectConnection, TypeOK, Project
  <2>2. UNCHANGED <<strict, session, providers, kind, queue, errors, rc>>
    BY <1>7 DEF AsProjectConnection
  <2>3. QED BY <1>1, <1>3, <2>1, <2>2 DEF TypeOK, WorkType
<1>8. CASE ResolveProvider
  <2>1. PICK s, c : /\ s = Head(queue) /\ c \in Clients[s]
                    /\ kind' = [kind EXCEPT ![s] = Provider(c)]
                    /\ providers' = IF Provider(c) = "none" THEN providers ELSE Append(providers, s)
                    /\ errors' = IF Provider(c) = "none" THEN errors \cup {<<s, "(client)">>} ELSE errors
    BY <1>8 DEF ResolveProvider
  <2>2. s \in Service /\ Tail(queue) \in Seq(Service)
    BY <1>8, <2>1, TailFacts DEF TypeOK, ResolveProvider
  <2>3. Append(providers, s) \in Seq(Service)
    BY <2>2 DEF TypeOK
  <2>4. <<s, "(client)">> \in Issue
    BY <2>2 DEF Issue
  <2>5. Provider(c) \in {"none", "sdk", "legacy"}
    BY DEF Provider
  <2>6. kind' \in [Service -> {"none", "sdk", "legacy"}]
    BY <2>1, <2>2, <2>5 DEF TypeOK
  <2>7. providers' \in Seq(Service) /\ errors' \subseteq Issue
    BY <2>1, <2>3, <2>4 DEF TypeOK
  <2>8. queue' = Tail(queue) /\ UNCHANGED <<pc, strict, session, scope, rc>>
    BY <1>8 DEF ResolveProvider
  <2>9. QED BY <1>1, <1>3, <2>2, <2>6, <2>7, <2>8 DEF TypeOK, WorkType
<1>9. CASE Preflight
  <2>1. pc' \in {"collect", "failed"} /\ rc' \in {0, 2}
    BY <1>9 DEF Preflight, Abort, TypeOK
  <2>2. UNCHANGED <<strict, session, scope, providers, kind, errors>>
    BY <1>9 DEF Preflight, setup
  <2>3. queue' \in Seq(Service)
    BY <1>9 DEF Preflight, TypeOK
  <2>4. QED BY <1>1, <1>3, <2>1, <2>2, <2>3 DEF TypeOK, WorkType
<1>10. QED BY <1>4, <1>5, <1>6, <1>7, <1>8, <1>9 DEF Prepare

LEMMA CurrentFacts ==
    ASSUME TypeOK, queue # <<>>
    PROVE  /\ Current \in Service /\ Tail(queue) \in Seq(Service)
           /\ Elements(queue) = {Current} \cup Elements(Tail(queue))
           /\ <<Current, "(provider)">> \in Issue /\ \A t \in Type : <<Current, t>> \in Issue
           /\ Elements(queue) \subseteq Service /\ Elements(providers) \subseteq Service
<1>1. Current \in Service /\ Tail(queue) \in Seq(Service)
  BY TailFacts DEF TypeOK, Current
<1>2. Elements(queue) = {Current} \cup Elements(Tail(queue))
  BY TailFacts DEF TypeOK, Current
<1>3. <<Current, "(provider)">> \in Issue /\ \A t \in Type : <<Current, t>> \in Issue
  BY <1>1 DEF Issue
<1>4. Elements(queue) \subseteq Service /\ Elements(providers) \subseteq Service
  BY ElementsType DEF TypeOK
<1>5. QED BY <1>1, <1>2, <1>3, <1>4

LEMMA BusyFacts ==
    ASSUME BaseInv, pc \in Collecting
    PROVE  queue # <<>> /\ Current \in Service
  BY CurrentFacts DEF BaseInv, QueueInv

\* What a collection changes in the setup and the report.
LEMMA CollectSetup ==
    ASSUME BaseInv, Collect
    PROVE  /\ SetupType' /\ queue' \in Seq(Service) /\ errors' \subseteq Issue
           /\ pc' \in {"collect", "direct", "nested", "request", "done", "failed"} /\ rc' \in {0, 2}
<1>0. TypeOK /\ SetupType
  BY DEF BaseInv, TypeOK, SetupType
<1>1. SetupType'
  BY <1>0, CollectFacts DEF SetupType, setup
<1>2. CASE StartCollect
  <2>1. Note("(provider)") => errors' \subseteq Issue
    BY <1>0, <1>2, CurrentFacts DEF TypeOK, Note, StartCollect
  <2>2. errors' \subseteq Issue
    BY <1>0, <1>2, <2>1 DEF StartCollect, TypeOK
  <2>3. QED BY <1>0, <1>1, <1>2, <2>2 DEF StartCollect, Abort, TypeOK
<1>3. CASE ListDirect
  <2>0. Head(todo) \in Type /\ Current \in Service
    BY <1>0, <1>3, TailFacts, BusyFacts DEF ListDirect, TakenForMissing, TypeOK, Collecting
  <2>1. Note(Head(todo)) => errors' \subseteq Issue
    BY <1>0, <2>0 DEF TypeOK, Note, Issue
  <2>2. errors' \subseteq Issue
    BY <1>0, <1>3, <2>1 DEF ListDirect, TakenForMissing, TypeOK
  <2>3. QED BY <1>0, <1>1, <1>3, <2>2 DEF ListDirect, TakenForMissing, AfterFailure, Abort, TypeOK
<1>4. CASE EndDirect
  <2>0. Current \in Service
    BY <1>4, BusyFacts DEF EndDirect, Collecting
  <2>1. Note("(provider)") => errors' \subseteq Issue
    BY <1>0, <2>0 DEF TypeOK, Note, Issue
  <2>2. errors' \subseteq Issue
    BY <1>0, <1>4, <2>1 DEF EndDirect, TypeOK
  <2>3. QED BY <1>0, <1>1, <1>4, <2>2 DEF EndDirect, Abort, TypeOK
<1>5. CASE NextNested
  BY <1>0, <1>1, <1>5 DEF NextNested, TypeOK
<1>6. CASE RequestChildren
  <2>0. Head(todo) \in Type /\ Current \in Service
    BY <1>0, <1>6, TailFacts, BusyFacts DEF RequestChildren, TakenForMissing, TypeOK, Collecting, BaseInv, RequestInv
  <2>1. Note(Head(todo)) => errors' \subseteq Issue
    BY <1>0, <2>0 DEF TypeOK, Note, Issue
  <2>2. errors' \subseteq Issue
    BY <1>0, <1>6, <2>1 DEF RequestChildren, TakenForMissing, TypeOK
  <2>3. QED BY <1>0, <1>1, <1>6, <2>2 DEF RequestChildren, TakenForMissing, AfterFailure, Abort, TypeOK
<1>7. CASE EndNested
  BY <1>0, <1>1, <1>7 DEF EndNested, TypeOK
<1>8. CASE NextPass
  BY <1>0, <1>1, <1>8 DEF NextPass, TypeOK
<1>9. CASE EndCollect
  <2>0. Current \in Service /\ Tail(queue) \in Seq(Service)
    BY <1>0, <1>9, CurrentFacts, BusyFacts DEF EndCollect, Collecting
  <2>1. Unlisted \subseteq Issue
    <3>1. \A i \in DOMAIN later : later[i] \in Type
      BY <1>0 DEF TypeOK
    <3>2. QED BY <2>0, <3>1 DEF Unlisted, Issue
  <2>2. errors' \subseteq Issue
    BY <1>0, <1>9, <2>1 DEF EndCollect, TypeOK
  <2>3. QED BY <1>0, <1>1, <1>9, <2>0, <2>2 DEF EndCollect, Abort, TypeOK
<1>10. CASE CollectCrash
  <2>0. Tail(queue) \in Seq(Service) /\ <<Current, "(provider)">> \in Issue
    BY <1>0, <1>10, CurrentFacts, BusyFacts DEF CollectCrash, Collecting
  <2>1. QED BY <1>0, <1>1, <1>10, <2>0 DEF CollectCrash, Abort, TypeOK
<1>11. CASE Report
  BY <1>0, <1>1, <1>11 DEF Report, TypeOK
<1>12. QED BY <1>2, <1>3, <1>4, <1>5, <1>6, <1>7, <1>8, <1>9, <1>10, <1>11 DEF Collect

LEMMA KeepTypes ==
    ASSUME TypeOK, todo # <<>>, NEW values \in SUBSET Res, Keep(Head(todo), values)
    PROVE  todo' \in Seq(Type) /\ known' \subseteq Type /\ objects' \in [Type -> SUBSET Res]
<1>1. Head(todo) \in Type /\ Tail(todo) \in Seq(Type)
  BY TailFacts DEF TypeOK
<1>2. QED BY <1>1 DEF Keep, TypeOK

LEMMA CollectWork ==
    ASSUME BaseInv, Collect
    PROVE  WorkType'
<1>0. TypeOK /\ WorkType
  BY DEF BaseInv, TypeOK, WorkType
<1>1. cloud' = cloud
  BY CollectFacts
<1>2. CASE StartCollect
  <2>1. DirectSpecs(Current) \in Seq(Type)
    BY <1>0, <1>2, CurrentFacts, SpecFacts DEF StartCollect
  <2>2. todo' \in Seq(Type) /\ later' = later /\ progressed' = progressed
    BY <1>0, <1>2, <2>1 DEF StartCollect, WorkType, pass
  <2>3. objects' \in [Type -> SUBSET Res] /\ known' = {}
    BY <1>2 DEF StartCollect
  <2>4. UNCHANGED <<combos, got, listed, dropped>>
    BY <1>2 DEF StartCollect, request
  <2>5. QED BY <1>0, <1>1, <2>2, <2>3, <2>4 DEF WorkType
<1>3. CASE ListDirect
  <2>1. PICK values : values \in SUBSET Res /\ Keep(Head(todo), values)
    <3>1. Answer(Head(todo), ProviderConnection(Current), ProjectFilter(Current, Head(todo))) \subseteq Res
      BY <1>0 DEF Answer, TypeOK
    <3>2. QED BY <1>3, <3>1 DEF ListDirect
  <2>2. todo' \in Seq(Type) /\ known' \subseteq Type /\ objects' \in [Type -> SUBSET Res]
    BY <1>0, <1>3, <2>1, KeepTypes DEF ListDirect
  <2>3. UNCHANGED <<later, progressed, combos, got, listed>> /\ dropped' \subseteq Type
    <3>1. Head(todo) \in Type
      BY <1>0, <1>3, TailFacts DEF ListDirect, WorkType
    <3>2. QED BY <1>0, <1>3, <3>1 DEF ListDirect, TakenForMissing, request, WorkType
  <2>4. QED BY <1>0, <1>1, <2>2, <2>3 DEF WorkType
<1>4. CASE EndDirect
  <2>1. NestedSpecs(Current) \in Seq(Type) /\ ObjectSpecs(Current) \in Seq(Type)
    BY <1>4, BusyFacts, SpecFacts, ObjectSpecFacts DEF EndDirect, Collecting
  <2>2. ObjectSpecs(Current) \o NestedSpecs(Current) \in Seq(Type)
    BY <2>1
  <2>3. todo' \in Seq(Type) /\ later' \in Seq(Type)
    BY <1>0, <1>4, <2>2 DEF EndDirect, WorkType, pass
  <2>4. progressed' \in BOOLEAN
    BY <1>0, <1>4 DEF EndDirect, WorkType, pass
  <2>5. \A t \in Type : FilterRelatedResources(t, ExcludeDefaultSecurityGroup(objects[t])) \subseteq Res
    BY <1>0 DEF WorkType, FilterRelatedResources, ExcludeDefaultSecurityGroup
  <2>6. objects' \in [Type -> SUBSET Res]
    BY <1>4, <2>5 DEF EndDirect
  <2>7. UNCHANGED <<combos, got, known, listed, dropped>>
    BY <1>4 DEF EndDirect, request
  <2>8. QED BY <1>0, <1>1, <2>3, <2>4, <2>6, <2>7 DEF WorkType
<1>5. CASE NextNested
  <2>0. Head(todo) \in Type /\ Tail(todo) \in Seq(Type)
    BY <1>0, <1>5, TailFacts DEF NextNested, WorkType
  <2>1. Append(later, Head(todo)) \in Seq(Type)
    BY <1>0, <2>0 DEF WorkType
  <2>2. Combinations(Head(todo)) \subseteq SUBSET Res
    <3>1. Attr[Head(todo)].parents \subseteq Type
      BY <2>0, TypesAssumption DEF TypeAttr
    <3>2. UNION {objects[p] : p \in Attr[Head(todo)].parents} \subseteq Res
      BY <1>0, <3>1 DEF WorkType
    <3>3. QED BY <3>2 DEF Combinations
  <2>3. Keep(Head(todo), {}) => todo' \in Seq(Type) /\ known' \subseteq Type /\ objects' \in [Type -> SUBSET Res]
    BY <1>0, <1>5, KeepTypes DEF NextNested
  <2>4. todo' \in Seq(Type) /\ later' \in Seq(Type) /\ known' \subseteq Type /\ objects' \in [Type -> SUBSET Res]
    BY <1>0, <1>5, <2>0, <2>1, <2>3 DEF NextNested, WorkType, found
  <2>5. combos' \subseteq SUBSET Res /\ got' \subseteq Res
    BY <1>0, <1>5, <2>2 DEF NextNested, WorkType, request
  <2>6. progressed' = progressed /\ UNCHANGED <<listed, dropped>>
    BY <1>5 DEF NextNested
  <2>7. QED BY <1>0, <1>1, <2>4, <2>5, <2>6 DEF WorkType
<1>6. CASE RequestChildren
  <2>0. Head(todo) \in Type
    BY <1>0, <1>6, TailFacts DEF RequestChildren, WorkType, BaseInv, RequestInv
  <2>1. \A c : Children(Head(todo), c) \subseteq Res
    BY <1>0 DEF Children, Answer, Below, WorkType
  <2>2. combos' \subseteq combos /\ got' \subseteq Res
    BY <1>0, <1>6, <2>1 DEF RequestChildren, GiveUp, WorkType
  <2>3. dropped' \subseteq Type
    BY <1>0, <1>6, <2>0 DEF RequestChildren, TakenForMissing, WorkType
  <2>4. UNCHANGED <<todo, later, progressed, known, objects, listed>>
    BY <1>6 DEF RequestChildren, pass, found
  <2>5. QED BY <1>0, <1>1, <2>2, <2>3, <2>4 DEF WorkType
<1>7. CASE EndNested
  <2>1. todo # <<>> /\ got \in SUBSET Res
    BY <1>0, <1>7 DEF EndNested, WorkType, BaseInv, RequestInv
  <2>2. todo' \in Seq(Type) /\ known' \subseteq Type /\ objects' \in [Type -> SUBSET Res]
    BY <1>0, <1>7, <2>1, KeepTypes DEF EndNested
  <2>3. progressed' \in BOOLEAN
    BY <1>7 DEF EndNested
  <2>4. UNCHANGED <<later, combos, got, listed, dropped>>
    BY <1>7 DEF EndNested, request
  <2>5. QED BY <1>0, <1>1, <2>2, <2>3, <2>4 DEF WorkType
<1>8. CASE NextPass
  <2>1. todo' \in Seq(Type) /\ later' \in Seq(Type)
    BY <1>0, <1>8 DEF NextPass, WorkType
  <2>2. progressed' \in BOOLEAN
    BY <1>8 DEF NextPass
  <2>3. UNCHANGED <<known, objects, combos, got, listed, dropped>>
    BY <1>8 DEF NextPass, request, found
  <2>4. QED BY <1>0, <1>1, <2>1, <2>2, <2>3 DEF WorkType
<1>9. CASE EndCollect
  <2>1. listed' \subseteq Res
    <3>1. UNION {objects[t] : t \in known} \subseteq Res
      BY <1>0 DEF WorkType
    <3>2. QED BY <1>0, <1>9, <3>1 DEF EndCollect, WorkType
  <2>2. UNCHANGED <<todo, later, progressed, known, objects, combos, got, dropped>>
    BY <1>9 DEF EndCollect, pass, request, found
  <2>3. QED BY <1>0, <1>1, <2>1, <2>2 DEF WorkType
<1>10. CASE CollectCrash
  <2>1. UNCHANGED <<todo, later, progressed, known, objects, combos, got, dropped, listed>>
    BY <1>10 DEF CollectCrash, pass, request, found
  <2>2. QED BY <1>0, <1>1, <2>1 DEF WorkType
<1>11. CASE Report
  <2>1. UNCHANGED <<todo, later, progressed, known, objects, combos, got, dropped, listed>>
    BY <1>11 DEF Report, pass, request, found
  <2>2. QED BY <1>0, <1>1, <2>1 DEF WorkType
<1>12. QED BY <1>2, <1>3, <1>4, <1>5, <1>6, <1>7, <1>8, <1>9, <1>10, <1>11 DEF Collect

LEMMA TypeStep == ASSUME BaseInv, [Next]_vars PROVE TypeOK'
<1>1. TypeOK
  BY DEF BaseInv
<1>2. CASE Prepare
  BY <1>1, <1>2, PrepareTypes
<1>3. CASE Collect
  BY <1>3, CollectSetup, CollectWork DEF TypeOK, SetupType, WorkType
<1>4. CASE /\ UNCHANGED <<pc, setup, queue, errors, pass, request, found, listed, dropped, rc>>
           /\ UNCHANGED cloud \/ \E r \in Res : CloudCreate(r) \/ CloudDelete(r)
  <2>1. cloud' \subseteq Res
    BY <1>1, <1>4 DEF CloudCreate, CloudDelete, TypeOK
  <2>2. UNCHANGED <<pc, strict, session, scope, queue, providers, kind, errors, todo, later,
                    progressed, combos, got, known, objects, listed, dropped, rc>>
    BY <1>4 DEF setup, pass, request, found
  <2>3. QED BY <1>1, <2>1, <2>2 DEF TypeOK
<1>5. QED BY <1>2, <1>3, <1>4, StepCases

-----------------------------------------------------------------------------
(* The queue of services and what is listed.                                 *)

LEMMA PrepareQueue == ASSUME BaseInv, Prepare PROVE QueueInv'
<1>0. TypeOK /\ QueueInv /\ listed' = listed /\ listed = {}
  BY PrepareFacts DEF BaseInv, QueueInv
<1>1. CASE DiscoverEndpoints
  <2>1. pc' \in {"select", "failed"} /\ UNCHANGED <<queue, providers>> /\ pc = "discover"
    BY <1>1 DEF DiscoverEndpoints, Abort
  <2>2. QED BY <1>0, <2>1 DEF QueueInv, Preparing, Listing, Collecting
<1>2. CASE SelectEndpoints
  <2>1. pc' \in {"project", "failed"} /\ UNCHANGED providers /\ pc = "select"
    BY <1>2 DEF SelectEndpoints, Abort
  <2>2. \A S : Distinct(Only(ServiceOrder, S))
    BY ServicesAssumption, OnlyFacts
  <2>3. Distinct(queue')
    BY <1>0, <1>2, <2>2 DEF SelectEndpoints, QueueInv
  <2>4. QED BY <1>0, <2>1, <2>3 DEF QueueInv, Preparing, Listing, Collecting, Distinct
<1>3. CASE ResolveProject
  <2>1. pc' \in {"connect", "failed"} /\ UNCHANGED <<queue, providers>> /\ pc = "project"
    BY <1>3 DEF ResolveProject, Abort, setup
  <2>2. QED BY <1>0, <2>1 DEF QueueInv, Preparing, Listing, Collecting
<1>4. CASE AsProjectConnection
  <2>1. pc' = "resolve" /\ UNCHANGED <<queue, providers>> /\ pc = "connect"
    BY <1>4 DEF AsProjectConnection
  <2>2. Elements(providers) = {}
    BY <1>0, <2>1, EmptyFacts DEF QueueInv, Preparing
  <2>3. QED BY <1>0, <2>1, <2>2 DEF QueueInv, Preparing, Listing, Collecting
<1>5. CASE ResolveProvider
  <2>1. pc = "resolve" /\ pc' = "resolve" /\ queue # <<>> /\ queue' = Tail(queue)
    BY <1>5 DEF ResolveProvider
  <2>2. providers' \in {providers, Append(providers, Head(queue))}
    BY <1>5 DEF ResolveProvider
  <2>3. /\ Head(queue) \in Service /\ Elements(queue) = {Head(queue)} \cup Elements(Tail(queue))
        /\ Distinct(Tail(queue)) /\ Head(queue) \notin Elements(Tail(queue))
    BY <1>0, <2>1, TailFacts DEF TypeOK, QueueInv
  <2>4. Elements(queue) \cap Elements(providers) = {}
    BY <1>0, <2>1 DEF QueueInv
  <2>5. /\ Elements(Append(providers, Head(queue))) = Elements(providers) \cup {Head(queue)}
        /\ Distinct(Append(providers, Head(queue)))
    BY <1>0, <2>3, <2>4, AppendFacts DEF TypeOK, QueueInv
  <2>6. Distinct(providers') /\ Elements(queue') \cap Elements(providers') = {} /\ Distinct(queue')
    BY <1>0, <2>1, <2>2, <2>3, <2>4, <2>5 DEF QueueInv
  <2>7. QED BY <1>0, <2>1, <2>6 DEF QueueInv, Preparing, Listing, Collecting, Distinct, Elements
<1>6. CASE Preflight
  <2>1. /\ pc = "resolve" /\ providers' = providers
        /\ \/ pc' = "collect" /\ queue' = providers
           \/ pc' = "failed" /\ queue' = queue
    BY <1>6 DEF Preflight, Abort, setup
  <2>2. QED BY <1>0, <2>1 DEF QueueInv, Preparing, Listing, Collecting
<1>7. QED BY <1>1, <1>2, <1>3, <1>4, <1>5, <1>6 DEF Prepare

\* A collection keeps the queue until it ends, and ends with its report.
LEMMA CollectQueue ==
    ASSUME BaseInv, Collect
    PROVE  /\ \/ queue' = queue /\ (pc' \in Collecting => queue # <<>>)
              \/ queue' = Tail(queue) /\ queue # <<>> /\ pc' = "collect"
           /\ pc' = "done" => queue' = <<>>
           /\ listed' = listed \/ (EndCollect /\ queue' = Tail(queue))
           /\ pc' \in {"nested", "request"} => listed' = listed /\ queue' = queue
<1>1. CASE StartCollect
  BY <1>1 DEF StartCollect, Abort
<1>2. CASE ListDirect
  <2>1. pc' \in {"direct", "failed"} /\ queue' = queue /\ listed' = listed
    BY <1>2 DEF ListDirect, TakenForMissing, AfterFailure, Abort
  <2>2. QED BY <1>2, <2>1, BusyFacts DEF ListDirect, Collecting
<1>3. CASE EndDirect
  <2>1. pc' \in {"nested", "failed"} /\ queue' = queue /\ listed' = listed
    BY <1>3 DEF EndDirect, Abort
  <2>2. QED BY <1>3, <2>1, BusyFacts DEF EndDirect, Collecting
<1>4. CASE NextNested
  <2>1. pc' \in {"nested", "request"} /\ queue' = queue /\ listed' = listed
    BY <1>4 DEF NextNested
  <2>2. QED BY <1>4, <2>1, BusyFacts DEF NextNested, Collecting
<1>5. CASE RequestChildren
  <2>1. pc' \in {"request", "failed"} /\ queue' = queue /\ listed' = listed
    BY <1>5 DEF RequestChildren, TakenForMissing, AfterFailure, Abort
  <2>2. QED BY <1>5, <2>1, BusyFacts DEF RequestChildren, Collecting
<1>6. CASE EndNested
  <2>1. pc' = "nested" /\ queue' = queue /\ listed' = listed
    BY <1>6 DEF EndNested
  <2>2. QED BY <1>6, <2>1, BusyFacts DEF EndNested, Collecting
<1>7. CASE NextPass
  <2>1. pc' = "nested" /\ queue' = queue /\ listed' = listed
    BY <1>7 DEF NextPass
  <2>2. QED BY <1>7, <2>1, BusyFacts DEF NextPass, Collecting
<1>8. CASE EndCollect
  <2>1. \/ pc' = "collect" /\ queue' = Tail(queue)
        \/ pc' = "failed" /\ queue' = queue /\ listed' = listed
    BY <1>8 DEF EndCollect, Abort
  <2>2. QED BY <1>8, <2>1, BusyFacts DEF EndCollect, Collecting
<1>9. CASE CollectCrash
  <2>1. /\ listed' = listed
        /\ \/ pc' = "collect" /\ queue' = Tail(queue)
           \/ pc' = "failed" /\ queue' = queue
    BY <1>9 DEF CollectCrash, Abort
  <2>2. QED BY <1>9, <2>1, BusyFacts DEF CollectCrash, Collecting
<1>10. CASE Report
  BY <1>10 DEF Report, Collecting
<1>11. QED BY <1>1, <1>2, <1>3, <1>4, <1>5, <1>6, <1>7, <1>8, <1>9, <1>10 DEF Collect

LEMMA QueueStep == ASSUME BaseInv, [Next]_vars PROVE QueueInv'
<1>1. TypeOK /\ QueueInv
  BY DEF BaseInv
<1>2. CASE Prepare
  BY <1>2, PrepareQueue
<1>3. CASE Collect
  <2>1. providers' = providers
    BY <1>3, CollectFacts DEF setup
  <2>2. Elements(queue) \subseteq Elements(providers)
    BY <1>1, <1>3, CollectFacts DEF QueueInv, Listing
  <2>3. queue # <<>> => Distinct(Tail(queue)) /\ Elements(Tail(queue)) \subseteq Elements(queue)
    BY <1>1, TailFacts DEF TypeOK, QueueInv
  <2>4. Distinct(queue') /\ Elements(queue') \subseteq Elements(queue)
    BY <1>1, <1>3, <2>3, CollectQueue DEF QueueInv
  <2>5. pc' \in Collecting => queue' # <<>>
    BY <1>3, CollectQueue DEF Collecting
  <2>6. QED BY <1>1, <1>3, <2>1, <2>2, <2>4, <2>5, CollectFacts, CollectQueue DEF QueueInv
<1>4. CASE UNCHANGED <<pc, setup, queue, listed>>
  <2>1. UNCHANGED <<pc, providers, queue, listed>>
    BY <1>4 DEF setup
  <2>2. QED BY <1>1, <2>1 DEF QueueInv
<1>5. QED BY <1>2, <1>3, <1>4, StepCases

\* The end of a collection closes the current service, and nothing reopens one.
LEMMA ClosedStep ==
    ASSUME BaseInv, Collect
    PROVE  /\ queue' = queue => Closed' = Closed
           /\ queue' # queue => Closed' = Closed \cup {Current} /\ Current \notin Closed
           /\ Closed \subseteq Closed' /\ Closed \subseteq Service
<1>1. providers' = providers
  BY CollectFacts DEF setup
<1>2. Elements(queue) \subseteq Elements(providers) /\ Elements(providers) \subseteq Service
  BY CollectFacts, ElementsType DEF QueueInv, Listing, BaseInv, TypeOK
<1>3. queue # <<>> => /\ Elements(queue) = {Current} \cup Elements(Tail(queue))
                      /\ Current \notin Elements(Tail(queue))
  BY TailFacts DEF BaseInv, TypeOK, QueueInv, Current
<1>4. queue' = queue => Closed' = Closed
  BY <1>1 DEF Closed
<1>5. queue' # queue => Closed' = Closed \cup {Current} /\ Current \notin Closed
  <2>1. SUFFICES ASSUME queue' # queue PROVE Closed' = Closed \cup {Current} /\ Current \notin Closed
    OBVIOUS
  <2>2. queue' = Tail(queue) /\ queue # <<>>
    BY <2>1, CollectQueue
  <2>3. QED BY <1>1, <1>2, <1>3, <2>2 DEF Closed
<1>6. QED BY <1>2, <1>4, <1>5 DEF Closed

\* What EndCollect adds to the report is of the current service.
LEMMA EndCollectAdds ==
    ASSUME BaseInv, EndCollect, NEW r \in listed', r \notin listed
    PROVE  /\ Info[r].type \in known /\ r \in objects[Info[r].type]
           /\ Info[r].type \in Elements(Names(Current)) /\ queue' = Tail(queue)
           /\ listed' = listed \cup UNION {objects[t] : t \in known}
<1>1. listed' = listed \cup UNION {objects[t] : t \in known} /\ queue' = Tail(queue)
  BY DEF EndCollect
<1>2. PICK t \in known : r \in objects[t]
  BY <1>1
<1>3. known \subseteq Type
  BY DEF BaseInv, TypeOK
<1>4. pc \in Collecting
  BY DEF EndCollect, Collecting
<1>5. Info[r].type = t /\ known \subseteq Elements(Names(Current))
  BY <1>2, <1>3, <1>4 DEF BaseInv, StageInv
<1>6. QED BY <1>1, <1>2, <1>5

LEMMA ListedStep == ASSUME BaseInv, [Next]_vars PROVE ListedInv'
<1>1. ListedInv
  BY DEF BaseInv
<1>2. CASE Prepare
  <2>1. listed' = {}
    BY <1>2, PrepareFacts DEF BaseInv, QueueInv
  <2>2. QED BY <2>1 DEF ListedInv
<1>3. CASE Collect
  <2>1. \A s : Names(s)' = Names(s)
    BY <1>3, CollectFacts, SameSetup
  <2>2. SUFFICES ASSUME NEW r \in listed' PROVE \E s \in Closed' : Info[r].type \in Elements(Names(s))
    BY <2>1 DEF ListedInv, Elements
  <2>3. CASE r \in listed
    BY <1>1, <1>3, <2>3, ClosedStep DEF ListedInv
  <2>4. CASE r \notin listed
    <3>1. EndCollect
      BY <1>3, <2>4, CollectQueue
    <3>2. Info[r].type \in Elements(Names(Current)) /\ queue' = Tail(queue)
      BY <2>4, <3>1, EndCollectAdds
    <3>3. queue # <<>>
      BY <3>1, BusyFacts DEF EndCollect, Collecting
    <3>4. queue' # queue
      BY <3>2, <3>3 DEF BaseInv, TypeOK
    <3>5. QED BY <1>3, <3>2, <3>4, ClosedStep
  <2>5. QED BY <2>3, <2>4
<1>4. CASE UNCHANGED <<setup, queue, listed>>
  <2>1. \A s : Names(s)' = Names(s)
    BY <1>4, SameSetup
  <2>2. Closed' = Closed /\ listed' = listed
    BY <1>4 DEF setup, Closed
  <2>3. QED BY <1>1, <2>1, <2>2 DEF ListedInv, Elements
<1>5. QED BY <1>2, <1>3, <1>4, StepCases

-----------------------------------------------------------------------------
(* One service: the types known, waiting and given back.                     *)

LEMMA LaterFacts ==
    ASSUME NEW s \in Service
    PROVE  LaterSpecs(s) \subseteq Elements(Names(s)) /\ LaterSpecs(s) \subseteq Type
<1>1. Elements(NestedSpecs(s)) \subseteq Elements(Names(s)) /\ Elements(Names(s)) \subseteq Type
  BY SpecFacts
<1>2. InStore(s) /\ ~StoreBroken(s) => {ContainerType, ObjectType} \subseteq Elements(Names(s))
  BY DEF StoreBroken
<1>3. QED BY <1>1, <1>2 DEF LaterSpecs

LEMMA SameLater == ASSUME UNCHANGED setup PROVE \A s : LaterSpecs(s)' = LaterSpecs(s)
  BY SameSetup DEF LaterSpecs, Elements

\* A type is listed: it is known from then on, with its own resources.
LEMMA KeepFacts ==
    ASSUME TypeOK, todo # <<>>, NEW values \in SUBSET Res, Keep(Head(todo), values)
    PROVE  /\ Head(todo) \in Type /\ known' = known \cup {Head(todo)}
           /\ Elements(todo) = {Head(todo)} \cup Elements(todo')
           /\ Distinct(todo) => Distinct(todo') /\ Head(todo) \notin Elements(todo')
           /\ \A t \in Type : objects'[t] = IF t = Head(todo) THEN values ELSE objects[t]
<1>1. /\ Head(todo) \in Type /\ Elements(todo) = {Head(todo)} \cup Elements(Tail(todo))
      /\ Distinct(todo) => Distinct(Tail(todo)) /\ Head(todo) \notin Elements(Tail(todo))
  BY TailFacts DEF TypeOK
<1>2. todo' = Tail(todo) /\ known' = known \cup {Head(todo)}
  BY DEF Keep
<1>3. \A t \in Type : objects'[t] = IF t = Head(todo) THEN values ELSE objects[t]
  BY DEF Keep, TypeOK
<1>4. QED BY <1>1, <1>2, <1>3

WorkInv == StageInv /\ DirectInv /\ NestedInv /\ RequestInv

LEMMA NotCollecting == ASSUME pc' \notin Collecting PROVE WorkInv'
  BY DEF WorkInv, StageInv, DirectInv, NestedInv, RequestInv, Collecting

LEMMA StartWork == ASSUME BaseInv, StartCollect PROVE WorkInv'
<1>1. CASE pc' = "failed"
  BY <1>1, NotCollecting DEF Collecting
<1>2. CASE pc' = "direct"
  <2>0. TypeOK /\ queue # <<>> /\ Current \in Service /\ Current' = Current
    BY CurrentFacts DEF BaseInv, StartCollect, Current
  <2>1. todo' = DirectSpecs(Current) /\ known' = {} /\ objects' = [t \in Type |-> {}]
    BY <1>2 DEF StartCollect, Abort
  <2>2. Distinct(todo')
    BY <2>0, <2>1, SpecFacts
  <2>3. DirectSpecs(Current)' = DirectSpecs(Current)
    BY <2>0, SameSetup DEF StartCollect, setup
  <2>4. Distinct(todo)' /\ (Elements(todo) \cap known = {})'
    BY <2>1, <2>2 DEF Distinct
  <2>5. (known \cup Elements(todo) = Elements(DirectSpecs(Current)))'
    BY <2>1, <2>3 DEF Elements
  <2>6. StageInv' /\ DirectInv'
    BY <2>1, <2>4, <2>5 DEF StageInv, DirectInv
  <2>7. QED BY <1>2, <2>6 DEF WorkInv, NestedInv, RequestInv
<1>3. QED BY <1>1, <1>2 DEF StartCollect, Abort

LEMMA ListWork == ASSUME BaseInv, ListDirect PROVE WorkInv'
<1>1. CASE pc' = "failed"
  BY <1>1, NotCollecting DEF Collecting
<1>2. CASE pc' = "direct"
  <2>0. /\ TypeOK /\ StageInv /\ DirectInv /\ pc = "direct" /\ todo # <<>> /\ Current' = Current
        /\ Current \in Service
    BY BusyFacts DEF BaseInv, ListDirect, Current, Collecting
  <2>1. PICK values \in SUBSET Res : /\ Keep(Head(todo), values)
                                     /\ \A r \in values : Info[r].type = Head(todo)
    <3>1. \A p, f : /\ Answer(Head(todo), p, f) \subseteq Res
                    /\ \A r \in Answer(Head(todo), p, f) : Info[r].type = Head(todo)
      BY <2>0 DEF Answer, TypeOK
    <3>2. QED BY <3>1 DEF ListDirect
  <2>2. /\ Head(todo) \in Type /\ known' = known \cup {Head(todo)}
        /\ Elements(todo) = {Head(todo)} \cup Elements(todo')
        /\ Distinct(todo') /\ Head(todo) \notin Elements(todo')
        /\ \A t \in Type : objects'[t] = IF t = Head(todo) THEN values ELSE objects[t]
    BY <2>0, <2>1, KeepFacts DEF DirectInv
  <2>3. DirectSpecs(Current)' = DirectSpecs(Current) /\ Names(Current)' = Names(Current)
    BY <2>0, SameSetup DEF ListDirect
  <2>4. Elements(DirectSpecs(Current)) \subseteq Elements(Names(Current))
    BY <2>0, SpecFacts
  <2>5. known' \cup Elements(todo') = Elements(DirectSpecs(Current))
    BY <2>0, <2>2 DEF DirectInv
  <2>6. Elements(todo') \cap known' = {}
    BY <2>0, <2>2 DEF DirectInv
  <2>7. DirectInv'
    BY <2>2, <2>3, <2>5, <2>6 DEF DirectInv, Elements, Distinct
  <2>8. known' \subseteq Elements(Names(Current))
    BY <2>4, <2>5
  <2>9. \A t \in Type : \A r \in objects'[t] : Info[r].type = t /\ t \in known'
    BY <2>0, <2>1, <2>2 DEF StageInv, Collecting
  <2>10. StageInv'
    BY <2>3, <2>8, <2>9 DEF StageInv, Elements
  <2>11. QED BY <1>2, <2>7, <2>10 DEF WorkInv, NestedInv, RequestInv
<1>3. QED BY <1>1, <1>2 DEF ListDirect, TakenForMissing, AfterFailure, Abort

LEMMA EndDirectWork == ASSUME BaseInv, EndDirect PROVE WorkInv'
<1>1. CASE pc' = "failed"
  BY <1>1, NotCollecting DEF Collecting
<1>2. CASE pc' = "nested"
  <2>0. /\ TypeOK /\ StageInv /\ DirectInv /\ pc = "direct" /\ todo = <<>> /\ Current' = Current
        /\ Current \in Service /\ known' = known
    BY BusyFacts DEF BaseInv, EndDirect, Current, Collecting
  <2>1. PICK s : s = Current /\ s \in Service
    BY <2>0
  <2>2. todo' = ObjectSpecs(s) \o NestedSpecs(s) /\ later' = <<>>
    BY <1>2, <2>1 DEF EndDirect, Abort
  <2>3. UNCHANGED setup
    BY DEF EndDirect
  <2>4. /\ Names(s)' = Names(s) /\ DirectSpecs(s)' = DirectSpecs(s) /\ Asked(s)' = Asked(s)
        /\ LaterSpecs(s)' = LaterSpecs(s) /\ (Sdk(s)' <=> Sdk(s))
    BY <2>3, SameSetup, SameLater
  <2>5. known = Elements(DirectSpecs(s))
    BY <2>0, <2>1, EmptyFacts DEF DirectInv
  <2>6. /\ ObjectSpecs(s) \in Seq(Type) /\ Distinct(ObjectSpecs(s))
        /\ Elements(ObjectSpecs(s)) = (IF InStore(s) /\ ~StoreBroken(s)
                                       THEN {ContainerType, ObjectType} \ (known \cap {ContainerType})
                                       ELSE {})
    BY ObjectSpecFacts
  <2>7. /\ NestedSpecs(s) \in Seq(Type) /\ Distinct(NestedSpecs(s))
        /\ \A t \in Elements(NestedSpecs(s)) : Attr[t].parents # {} /\ ~(InStore(s) /\ t = ObjectType)
        /\ \A t \in Elements(DirectSpecs(s)) : Attr[t].parents = {}
        /\ Elements(DirectSpecs(s)) \subseteq Elements(Names(s))
    BY <2>1, SpecFacts
  <2>8. Elements(ObjectSpecs(s)) \cap Elements(NestedSpecs(s)) = {}
    BY <2>6, <2>7, StoreAssumption
  <2>9. /\ Elements(todo') = Elements(ObjectSpecs(s)) \cup Elements(NestedSpecs(s))
        /\ Distinct(todo')
    BY <2>2, <2>6, <2>7, <2>8, ConcatFacts
  <2>10. Elements(todo') \cap known' = {}
    BY <2>0, <2>5, <2>6, <2>7, <2>9, StoreAssumption
  <2>11. Elements(todo') \subseteq LaterSpecs(s)
    BY <2>6, <2>9 DEF LaterSpecs
  <2>12. Asked(s) \subseteq known' \cup Elements(todo')
    BY <2>0, <2>5, <2>6, <2>9 DEF Asked
  <2>13. Elements(later') = {} /\ Distinct(later')
    BY <2>2, EmptyFacts
  <2>14. \A t \in known' : Attr[t].parents \subseteq known'
    BY <2>0, <2>5, <2>7
  <2>15. NestedInv'
    BY <2>0, <2>1, <2>4, <2>5, <2>9, <2>10, <2>11, <2>12, <2>13, <2>14
       DEF NestedInv, Elements, Distinct
  <2>16. \A t \in Type : objects'[t] \subseteq objects[t]
    BY DEF EndDirect, FilterRelatedResources, ExcludeDefaultSecurityGroup
  <2>17. StageInv'
    BY <2>0, <2>1, <2>4, <2>16 DEF StageInv, Collecting, Elements
  <2>18. QED BY <1>2, <2>15, <2>17 DEF WorkInv, DirectInv, RequestInv
<1>3. QED BY <1>1, <1>2 DEF EndDirect, Abort

\* What the steps over nested types rely on and leave alone.
LEMMA NestedFacts ==
    ASSUME BaseInv, pc \in {"nested", "request"}, UNCHANGED setup, UNCHANGED queue,
           NEW s, s = Current
    PROVE  /\ TypeOK /\ s \in Service /\ Current' = s /\ pc \in Collecting
           /\ Distinct(todo) /\ Elements(todo) \cap known = {}
           /\ Elements(todo) \cup Elements(later) \subseteq LaterSpecs(s)
           /\ Sdk(s) => Distinct(later) /\ Elements(later) \cap (known \cup Elements(todo)) = {}
           /\ Asked(s) \subseteq known \cup Elements(todo) \cup Elements(later)
           /\ Elements(DirectSpecs(s)) \subseteq known
           /\ \A t \in known : Attr[t].parents \subseteq known
           /\ Sdk(s) /\ ~progressed =>
                 \A t \in Elements(later) : ParentsUnknown(t) \/ ParentsEmpty(t)
           /\ Names(s)' = Names(s) /\ DirectSpecs(s)' = DirectSpecs(s) /\ Asked(s)' = Asked(s)
           /\ LaterSpecs(s)' = LaterSpecs(s) /\ (Sdk(s)' <=> Sdk(s))
           /\ known \subseteq Elements(Names(s)) /\ LaterSpecs(s) \subseteq Elements(Names(s))
           /\ \A t \in Type : \A r \in objects[t] : Info[r].type = t /\ t \in known
<1>1. TypeOK /\ s \in Service /\ Current' = s /\ pc \in Collecting
  BY BusyFacts DEF BaseInv, Current, Collecting
<1>2. /\ Names(s)' = Names(s) /\ DirectSpecs(s)' = DirectSpecs(s) /\ Asked(s)' = Asked(s)
      /\ LaterSpecs(s)' = LaterSpecs(s) /\ (Sdk(s)' <=> Sdk(s))
  BY SameSetup, SameLater
<1>3. /\ known \subseteq Elements(Names(s))
      /\ \A t \in Type : \A r \in objects[t] : Info[r].type = t /\ t \in known
  BY <1>1 DEF BaseInv, StageInv
<1>4. LaterSpecs(s) \subseteq Elements(Names(s))
  BY <1>1, LaterFacts
<1>5. QED BY <1>1, <1>2, <1>3, <1>4 DEF BaseInv, NestedInv

LEMMA NextNestedWork == ASSUME BaseInv, NextNested PROVE WorkInv'
<1>0. PICK s : s = Current
  OBVIOUS
<1>1. pc = "nested" /\ todo # <<>> /\ UNCHANGED setup /\ UNCHANGED queue
  BY DEF NextNested
<1>2. /\ TypeOK /\ s \in Service /\ Current' = s /\ pc \in Collecting
      /\ Distinct(todo) /\ Elements(todo) \cap known = {}
      /\ Elements(todo) \cup Elements(later) \subseteq LaterSpecs(s)
      /\ Sdk(s) => Distinct(later) /\ Elements(later) \cap (known \cup Elements(todo)) = {}
      /\ Asked(s) \subseteq known \cup Elements(todo) \cup Elements(later)
      /\ Elements(DirectSpecs(s)) \subseteq known
      /\ \A t \in known : Attr[t].parents \subseteq known
      /\ Sdk(s) /\ ~progressed =>
            \A t \in Elements(later) : ParentsUnknown(t) \/ ParentsEmpty(t)
      /\ Names(s)' = Names(s) /\ DirectSpecs(s)' = DirectSpecs(s) /\ Asked(s)' = Asked(s)
      /\ LaterSpecs(s)' = LaterSpecs(s) /\ (Sdk(s)' <=> Sdk(s))
      /\ known \subseteq Elements(Names(s)) /\ LaterSpecs(s) \subseteq Elements(Names(s))
      /\ \A t \in Type : \A r \in objects[t] : Info[r].type = t /\ t \in known
  BY <1>0, <1>1, NestedFacts
<1>3. PICK t : t = Head(todo)
  OBVIOUS
<1>4. /\ t \in Type /\ Elements(todo) = {t} \cup Elements(Tail(todo))
      /\ Distinct(Tail(todo)) /\ t \notin Elements(Tail(todo))
  BY <1>1, <1>2, <1>3, TailFacts DEF TypeOK
<1>5. PICK l : l = Append(later, t)
  OBVIOUS
<1>6. /\ Elements(l) = Elements(later) \cup {t}
      /\ Distinct(later) /\ t \notin Elements(later) => Distinct(l)
  BY <1>2, <1>4, <1>5, AppendFacts DEF TypeOK
<1>7. CASE /\ ParentsUnknown(t) \/ (Sdk(s) /\ ParentsEmpty(t))
           /\ later' = l /\ todo' = Tail(todo)
           /\ UNCHANGED <<pc, progressed, request, found>>
  <2>1. UNCHANGED <<pc, progressed, known, objects>>
    BY <1>7 DEF found
  <2>2. StageInv'
    BY <1>2, <2>1 DEF StageInv, Elements
  <2>3. /\ Distinct(todo') /\ Elements(todo') \cap known' = {}
        /\ Elements(todo') \cup Elements(later') \subseteq LaterSpecs(s)
        /\ Sdk(s) => Distinct(later') /\ Elements(later') \cap (known' \cup Elements(todo')) = {}
        /\ Asked(s) \subseteq known' \cup Elements(todo') \cup Elements(later')
    BY <1>2, <1>4, <1>6, <1>7, <2>1
  <2>4. Sdk(s) /\ ~progressed => \A x \in Elements(l) : ParentsUnknown(x) \/ ParentsEmpty(x)
    BY <1>2, <1>6, <1>7
  <2>5. Sdk(s) /\ ~progressed' => \A x \in Elements(later') : ParentsUnknown(x)' \/ ParentsEmpty(x)'
    BY <1>7, <2>1, <2>4 DEF ParentsUnknown, ParentsEmpty
  <2>6. NestedInv'
    BY <1>2, <2>1, <2>3, <2>5 DEF NestedInv, Elements, Distinct
  <2>7. QED BY <1>1, <2>1, <2>2, <2>6 DEF WorkInv, DirectInv, RequestInv
<1>8. CASE /\ ~Sdk(s) /\ ~ParentsUnknown(t) /\ ParentsEmpty(t)
           /\ Keep(t, {})
           /\ UNCHANGED <<pc, later, progressed, request>>
  <2>1. /\ known' = known \cup {t} /\ todo' = Tail(todo)
        /\ \A x \in Type : objects'[x] = IF x = t THEN {} ELSE objects[x]
    <3>1. {} \in SUBSET Res
      OBVIOUS
    <3>2. Keep(Head(todo), {}) /\ TypeOK
      BY <1>2, <1>3, <1>8
    <3>3. \A x \in Type : objects'[x] = IF x = Head(todo) THEN {} ELSE objects[x]
      BY <1>1, <3>1, <3>2, KeepFacts
    <3>4. known' = known \cup {t} /\ todo' = Tail(todo)
      BY <1>8 DEF Keep
    <3>5. QED BY <1>3, <3>3, <3>4
  <2>2. StageInv'
    BY <1>2, <1>4, <2>1 DEF StageInv, Elements
  <2>3. \A x \in known' : Attr[x].parents \subseteq known'
    BY <1>2, <1>8, <2>1 DEF ParentsUnknown
  <2>4. /\ Distinct(todo') /\ Elements(todo') \cap known' = {}
        /\ Elements(todo') \cup Elements(later') \subseteq LaterSpecs(s)
        /\ Asked(s) \subseteq known' \cup Elements(todo') \cup Elements(later')
        /\ Elements(DirectSpecs(s)) \subseteq known'
    BY <1>2, <1>4, <1>8, <2>1
  <2>5. NestedInv'
    BY <1>2, <1>8, <2>3, <2>4 DEF NestedInv, Elements, Distinct
  <2>6. QED BY <1>1, <1>8, <2>2, <2>5 DEF WorkInv, DirectInv, RequestInv
<1>9. CASE /\ ~ParentsUnknown(t) /\ ~ParentsEmpty(t)
           /\ combos' = Combinations(t) /\ got' = {}
           /\ later' = IF ~Sdk(s) /\ ~Attr[t].addressed THEN l ELSE later
           /\ pc' = "request"
           /\ UNCHANGED <<todo, progressed, found>>
  <2>1. UNCHANGED <<todo, progressed, known, objects>>
    BY <1>9 DEF found
  <2>2. StageInv'
    BY <1>2, <2>1 DEF StageInv, Elements
  <2>3. /\ Elements(todo') \cup Elements(later') \subseteq LaterSpecs(s)
        /\ Sdk(s) => later' = later
        /\ Asked(s) \subseteq known' \cup Elements(todo') \cup Elements(later')
    BY <1>2, <1>4, <1>6, <1>9, <2>1
  <2>4. Sdk(s) /\ ~progressed' => \A x \in Elements(later') : ParentsUnknown(x)' \/ ParentsEmpty(x)'
    BY <1>2, <2>1, <2>3 DEF ParentsUnknown, ParentsEmpty
  <2>5. NestedInv'
    BY <1>2, <2>1, <2>3, <2>4 DEF NestedInv, Elements, Distinct
  <2>6. RequestInv'
    BY <1>1, <1>3, <1>9, <2>1 DEF RequestInv, ParentsUnknown, Combinations
  <2>7. QED BY <1>9, <2>2, <2>5, <2>6 DEF WorkInv, DirectInv
<1>10. QED BY <1>0, <1>3, <1>5, <1>7, <1>8, <1>9 DEF NextNested

LEMMA RequestWork == ASSUME BaseInv, RequestChildren PROVE WorkInv'
<1>1. CASE pc' = "failed"
  BY <1>1, NotCollecting DEF Collecting
<1>2. CASE pc' = "request"
  <2>0. /\ pc = "request" /\ UNCHANGED <<setup, queue, todo, later, progressed, known, objects>>
        /\ RequestInv
    BY DEF RequestChildren, pass, found, BaseInv
  <2>1. PICK s : s = Current
    OBVIOUS
  <2>2. /\ Current' = s /\ pc \in Collecting
        /\ Names(s)' = Names(s) /\ DirectSpecs(s)' = DirectSpecs(s) /\ Asked(s)' = Asked(s)
        /\ LaterSpecs(s)' = LaterSpecs(s) /\ (Sdk(s)' <=> Sdk(s))
    BY <2>0, <2>1, NestedFacts
  <2>3. StageInv'
    BY <2>0, <2>1, <2>2 DEF BaseInv, StageInv, Elements
  <2>4. NestedInv'
    BY <2>0, <2>1, <2>2 DEF BaseInv, NestedInv, Elements, Distinct, ParentsUnknown, ParentsEmpty
  <2>5. \A c : \A r \in Children(Head(todo), c) : Info[r].type = Head(todo)
    BY DEF Children, Answer, Below
  <2>6. combos' \subseteq combos /\ \A r \in got' : Info[r].type = Head(todo)
    BY <2>0, <2>5 DEF RequestChildren, GiveUp, RequestInv
  <2>7. Combinations(Head(todo))' = Combinations(Head(todo))
    BY <2>0 DEF Combinations
  <2>8. RequestInv'
    BY <2>0, <2>6, <2>7 DEF RequestInv
  <2>9. QED BY <1>2, <2>3, <2>4, <2>8 DEF WorkInv, DirectInv
<1>3. QED BY <1>1, <1>2 DEF RequestChildren, TakenForMissing, AfterFailure, Abort

LEMMA EndNestedWork == ASSUME BaseInv, EndNested PROVE WorkInv'
<1>0. PICK s : s = Current
  OBVIOUS
<1>1. /\ pc = "request" /\ todo # <<>> /\ UNCHANGED <<setup, queue, later>> /\ progressed' = TRUE
      /\ pc' = "nested" /\ Attr[Head(todo)].parents \subseteq known
      /\ \A r \in got : Info[r].type = Head(todo)
  BY DEF EndNested, BaseInv, RequestInv
<1>2. /\ TypeOK /\ s \in Service /\ Current' = s /\ pc \in Collecting
      /\ Distinct(todo) /\ Elements(todo) \cap known = {}
      /\ Elements(todo) \cup Elements(later) \subseteq LaterSpecs(s)
      /\ Sdk(s) => Distinct(later) /\ Elements(later) \cap (known \cup Elements(todo)) = {}
      /\ Asked(s) \subseteq known \cup Elements(todo) \cup Elements(later)
      /\ Elements(DirectSpecs(s)) \subseteq known
      /\ \A t \in known : Attr[t].parents \subseteq known
      /\ Names(s)' = Names(s) /\ DirectSpecs(s)' = DirectSpecs(s) /\ Asked(s)' = Asked(s)
      /\ LaterSpecs(s)' = LaterSpecs(s) /\ (Sdk(s)' <=> Sdk(s))
      /\ known \subseteq Elements(Names(s)) /\ LaterSpecs(s) \subseteq Elements(Names(s))
      /\ \A t \in Type : \A r \in objects[t] : Info[r].type = t /\ t \in known
  BY <1>0, <1>1, NestedFacts
<1>3. /\ Head(todo) \in Type /\ known' = known \cup {Head(todo)}
      /\ Elements(todo) = {Head(todo)} \cup Elements(todo')
      /\ Distinct(todo') /\ Head(todo) \notin Elements(todo')
      /\ \A t \in Type : objects'[t] = IF t = Head(todo) THEN got ELSE objects[t]
  <2>1. got \in SUBSET Res
    BY <1>2 DEF TypeOK
  <2>2. QED BY <1>1, <1>2, <2>1, KeepFacts DEF EndNested
<1>4. StageInv'
  BY <1>1, <1>2, <1>3 DEF StageInv, Elements
<1>5. \A x \in known' : Attr[x].parents \subseteq known'
  BY <1>1, <1>2, <1>3
<1>6. /\ Elements(todo') \cap known' = {}
      /\ Elements(todo') \cup Elements(later') \subseteq LaterSpecs(s)
      /\ Sdk(s) => Distinct(later') /\ Elements(later') \cap (known' \cup Elements(todo')) = {}
      /\ Asked(s) \subseteq known' \cup Elements(todo') \cup Elements(later')
      /\ Elements(DirectSpecs(s)) \subseteq known'
  BY <1>1, <1>2, <1>3
<1>7. NestedInv'
  BY <1>1, <1>2, <1>3, <1>5, <1>6 DEF NestedInv, Elements, Distinct
<1>8. QED BY <1>1, <1>4, <1>7 DEF WorkInv, DirectInv, RequestInv

LEMMA NextPassWork == ASSUME BaseInv, NextPass PROVE WorkInv'
<1>0. PICK s : s = Current
  OBVIOUS
<1>1. /\ pc = "nested" /\ UNCHANGED <<pc, setup, queue, known, objects>> /\ Sdk(s)
      /\ todo = <<>> /\ todo' = later /\ later' = <<>>
  BY <1>0 DEF NextPass, found
<1>2. /\ TypeOK /\ s \in Service /\ Current' = s /\ pc \in Collecting
      /\ Elements(todo) \cup Elements(later) \subseteq LaterSpecs(s)
      /\ Sdk(s) => Distinct(later) /\ Elements(later) \cap (known \cup Elements(todo)) = {}
      /\ Asked(s) \subseteq known \cup Elements(todo) \cup Elements(later)
      /\ Elements(DirectSpecs(s)) \subseteq known
      /\ \A t \in known : Attr[t].parents \subseteq known
      /\ Names(s)' = Names(s) /\ DirectSpecs(s)' = DirectSpecs(s) /\ Asked(s)' = Asked(s)
      /\ LaterSpecs(s)' = LaterSpecs(s) /\ (Sdk(s)' <=> Sdk(s))
      /\ known \subseteq Elements(Names(s))
      /\ \A t \in Type : \A r \in objects[t] : Info[r].type = t /\ t \in known
  BY <1>0, <1>1, NestedFacts
<1>3. StageInv'
  BY <1>1, <1>2 DEF StageInv, Elements
<1>4. Elements(todo) = {} /\ Elements(later') = {} /\ Distinct(later')
  BY <1>1, EmptyFacts
<1>5. NestedInv'
  BY <1>1, <1>2, <1>4 DEF NestedInv, Elements, Distinct
<1>6. QED BY <1>1, <1>3, <1>5 DEF WorkInv, DirectInv, RequestInv

LEMMA WorkStep == ASSUME BaseInv, [Next]_vars PROVE WorkInv'
<1>1. CASE Prepare
  BY <1>1, PrepareFacts, NotCollecting DEF BaseInv
<1>2. CASE Collect
  <2>1. CASE EndCollect \/ CollectCrash \/ Report
    <3>1. pc' \notin Collecting
      BY <2>1 DEF EndCollect, CollectCrash, Report, Abort, Collecting
    <3>2. QED BY <3>1, NotCollecting
  <2>2. QED BY <1>2, <2>1, StartWork, ListWork, EndDirectWork, NextNestedWork, RequestWork,
               EndNestedWork, NextPassWork DEF Collect
<1>3. CASE UNCHANGED <<pc, setup, queue, pass, request, found>>
  <2>1. UNCHANGED <<pc, queue, todo, later, progressed, combos, got, known, objects>>
    BY <1>3 DEF pass, request, found
  <2>2. PICK s : s = Current
    OBVIOUS
  <2>3. /\ Current' = s
        /\ Names(s)' = Names(s) /\ DirectSpecs(s)' = DirectSpecs(s) /\ Asked(s)' = Asked(s)
        /\ LaterSpecs(s)' = LaterSpecs(s) /\ (Sdk(s)' <=> Sdk(s))
    BY <1>3, <2>1, <2>2, SameSetup, SameLater DEF Current
  <2>4. StageInv' /\ DirectInv'
    BY <2>1, <2>2, <2>3 DEF BaseInv, StageInv, DirectInv, Elements, Distinct
  <2>5. NestedInv'
    BY <2>1, <2>2, <2>3 DEF BaseInv, NestedInv, Elements, Distinct, ParentsUnknown, ParentsEmpty
  <2>6. RequestInv'
    BY <2>1 DEF BaseInv, RequestInv, Combinations
  <2>7. QED BY <2>4, <2>5, <2>6 DEF WorkInv
<1>4. QED BY <1>1, <1>2, <1>3, StepCases

LEMMA BaseInit == Init => BaseInv
<1> SUFFICES ASSUME Init PROVE BaseInv
  OBVIOUS
<1>1. TypeOK
  BY TypeInit
<1>2. QueueInv
  BY EmptyFacts DEF Init, QueueInv, Preparing, Listing, Collecting
<1>3. ListedInv /\ StageInv /\ DirectInv /\ NestedInv /\ RequestInv
  BY DEF Init, ListedInv, StageInv, DirectInv, NestedInv, RequestInv, Collecting
<1>4. QED BY <1>1, <1>2, <1>3 DEF BaseInv

LEMMA BaseStep == ASSUME BaseInv, [Next]_vars PROVE BaseInv'
  BY TypeStep, QueueStep, ListedStep, WorkStep DEF BaseInv, WorkInv

\* The variables keep their types: a program counter of the program, known
\* types with a set of resources each, requests that carry parents found.
THEOREM InventoryTypes == Spec => []TypeOK
<1>1. Init => BaseInv
  BY BaseInit
<1>2. BaseInv /\ [Next]_vars => BaseInv'
  BY BaseStep
<1>3. BaseInv => TypeOK
  BY DEF BaseInv
<1>4. QED BY <1>1, <1>2, <1>3, PTL DEF Spec

-----------------------------------------------------------------------------
(* Strict runs.                                                              *)

\* A strict run that is still going has met no error.
StrictInv == /\ strict /\ pc \in Listing => errors = {}
             /\ pc # "failed" => rc = 0

LEMMA StrictStep == ASSUME BaseInv, StrictInv, [Next]_vars PROVE StrictInv'
<1>1. CASE Prepare
  <2>1. CASE Preflight
    BY <2>1 DEF Preflight, Abort, StrictInv, Listing, Collecting, setup
  <2>2. CASE ~Preflight
    <3>1. pc' \in Preparing \cup {"resolve", "failed"} /\ (pc' # "failed" => pc # "failed" /\ rc' = rc)
      BY <1>1, <2>2 DEF Prepare, DiscoverEndpoints, SelectEndpoints, ResolveProject,
                        AsProjectConnection, ResolveProvider, Abort, Preparing
    <3>2. QED BY <3>1 DEF StrictInv, Listing, Collecting, Preparing
  <2>3. QED BY <2>1, <2>2
<1>2. CASE Collect
  <2>1. strict' = strict /\ (strict => errors = {}) /\ rc = 0
    BY <1>2, CollectFacts DEF StrictInv, Listing, setup, Collecting
  <2> DEFINE Fine == pc' = "failed" \/ (rc' = rc /\ (strict => errors' = errors))
  <2>2. StartCollect => Fine
    BY <2>1 DEF StartCollect, Abort
  <2>3. ListDirect => Fine
    BY <2>1 DEF ListDirect, TakenForMissing, AfterFailure, Abort
  <2>4. EndDirect => Fine
    BY <2>1 DEF EndDirect, Abort
  <2>5. NextNested => Fine
    BY <2>1 DEF NextNested
  <2>6. RequestChildren => Fine
    BY <2>1 DEF RequestChildren, TakenForMissing, AfterFailure, Abort
  <2>7. EndNested => Fine
    BY <2>1 DEF EndNested
  <2>8. NextPass => Fine
    BY <2>1 DEF NextPass
  <2>9. EndCollect => Fine
    BY <2>1 DEF EndCollect, Abort
  <2>10. CollectCrash => Fine
    BY <2>1 DEF CollectCrash, Abort
  <2>11. Report => Fine
    BY <2>1 DEF Report
  <2>12. Fine
    BY <1>2, <2>2, <2>3, <2>4, <2>5, <2>6, <2>7, <2>8, <2>9, <2>10, <2>11 DEF Collect
  <2>13. QED BY <2>1, <2>12 DEF StrictInv, Listing, Collecting
<1>3. CASE UNCHANGED <<pc, setup, errors, rc>>
  BY <1>3 DEF StrictInv, setup
<1>4. QED BY <1>1, <1>2, <1>3, StepCases

\* A strict run that prints a report met no error anywhere: each failure ended
\* it before the report.
THEOREM StrictReportIsAlwaysClean == Spec => []StrictReportIsClean
<1>1. Init => BaseInv /\ StrictInv
  BY BaseInit DEF Init, StrictInv, Listing, Collecting
<1>2. BaseInv /\ StrictInv /\ [Next]_vars => BaseInv' /\ StrictInv'
  BY BaseStep, StrictStep
<1>3. StrictInv => StrictReportIsClean
  BY DEF StrictInv, StrictReportIsClean, Listing, Collecting
<1>4. QED BY <1>1, <1>2, <1>3, PTL DEF Spec

-----------------------------------------------------------------------------
(* Resources of other projects.                                              *)

\* A resource of another project, in the objects of the current service.
BelowObjects(r) == Info[r].parents # {} /\ \A p \in Info[r].parents : p \in objects[Info[p].type]
Ownerless(s, r) == /\ Attr[Info[r].type].shows # "owner"
                   /\ Attr[Info[r].type].wide \/ ProviderConnection(s) # Target
Related(r) == Attr[Info[r].type].related => \E w \in Info[r].ref : w \in objects[Info[w].type]

\* Until the direct types are all there, an execution waits for its workflow.
ForeignInv ==
    /\ ForeignIsUnmarked
    /\ pc \in Collecting => \A t \in known : \A r \in objects[t] : Info[r].owner # Target =>
          BelowObjects(r) \/ (Ownerless(Current, r) /\ (pc # "direct" => Related(r)))
    /\ pc = "request" => \A r \in got : Info[r].owner # Target =>
          BelowObjects(r) \/ (Ownerless(Current, r) /\ Related(r))

LEMMA InfoFacts ==
    ASSUME NEW r \in Res
    PROVE  /\ Info[r].type \in Type /\ Info[r].owner \in Project /\ Info[r].owner # NoProject
           /\ Info[r].parents \subseteq Res /\ Info[r].ref \subseteq Res
           /\ Info[r].parents = {} <=> Attr[Info[r].type].parents = {}
           /\ Attr[Info[r].type].parents \subseteq Type
<1>1. /\ Info[r].type \in Type /\ Info[r].owner \in Project \ {NoProject}
      /\ Info[r].parents \subseteq Res /\ Info[r].ref \subseteq Res
  BY ResourcesAssumption
<1>2. {Info[p].type : p \in Info[r].parents} = Attr[Info[r].type].parents
  BY ResourcesAssumption
<1>3. Attr[Info[r].type].parents \subseteq Type
  BY <1>1, TypesAssumption DEF TypeAttr
<1>4. QED BY <1>1, <1>2, <1>3

LEMMA OneService ==
    ASSUME NEW s \in Service, NEW u \in Service, NEW t,
           t \in Elements(Names(s)), t \in Elements(Names(u))
    PROVE  s = u
<1>1. t \in TypesOf(s) /\ t \in TypesOf(u)
  BY SpecFacts
<1>2. QED BY <1>1, ServicesAssumption

LEMMA ObjectFacts ==
    ASSUME BaseInv, pc \in Collecting, NEW t \in Type, NEW r \in objects[t]
    PROVE  r \in Res /\ Info[r].type = t /\ t \in known /\ t \in Elements(Names(Current))
<1>1. r \in Res
  BY DEF BaseInv, TypeOK
<1>2. Info[r].type = t /\ t \in known /\ known \subseteq Elements(Names(Current))
  BY DEF BaseInv, StageInv
<1>3. QED BY <1>1, <1>2

\* Listing a type leaves what was found for the others.
LEMMA KeepGrows ==
    ASSUME BaseInv, pc \in Collecting, todo # <<>>, Elements(todo) \cap known = {},
           NEW values \in SUBSET Res, Keep(Head(todo), values)
    PROVE  /\ \A t \in Type : objects[t] \subseteq objects'[t]
           /\ known \subseteq known'
<1>1. TypeOK
  BY DEF BaseInv
<1>2. /\ Head(todo) \in Type /\ known' = known \cup {Head(todo)}
      /\ Elements(todo) = {Head(todo)} \cup Elements(todo')
      /\ \A t \in Type : objects'[t] = IF t = Head(todo) THEN values ELSE objects[t]
  BY <1>1, KeepFacts
<1>3. objects[Head(todo)] = {}
  <2>1. Head(todo) \notin known
    BY <1>2
  <2>2. \A r \in objects[Head(todo)] : Head(todo) \in known
    BY <1>2, ObjectFacts
  <2>3. QED BY <2>1, <2>2
<1>4. QED BY <1>2, <1>3

LEMMA FoundGrows ==
    ASSUME \A t \in Type : objects[t] \subseteq objects'[t], NEW r \in Res
    PROVE  (BelowObjects(r) => BelowObjects(r)') /\ (Related(r) => Related(r)')
<1>1. \A p \in Info[r].parents \cup Info[r].ref : Info[p].type \in Type
  BY InfoFacts
<1>2. QED BY <1>1 DEF BelowObjects, Related

LEMMA SameOwnerless ==
    ASSUME UNCHANGED setup
    PROVE  \A s, r : Ownerless(s, r)' <=> Ownerless(s, r)
  BY SameSetup DEF Ownerless

LEMMA ForeignReport == ASSUME BaseInv, ForeignInv, Collect PROVE ForeignIsUnmarked'
<1>1. ForeignIsUnmarked /\ TypeOK
  BY DEF ForeignInv, BaseInv
<1>2. UNCHANGED setup /\ providers' = providers
  BY CollectFacts DEF setup
<1>3. \A s : Names(s)' = Names(s) /\ ProviderConnection(s)' = ProviderConnection(s)
  BY <1>2, SameSetup
<1>4. SUFFICES ASSUME NEW s \in Elements(providers), NEW r \in listed',
                      Info[r].type \in Elements(Names(s)), Info[r].owner # Target
               PROVE  \/ Info[r].parents # {} /\ Info[r].parents \subseteq listed'
                      \/ /\ Attr[Info[r].type].shows # "owner"
                         /\ Attr[Info[r].type].wide \/ ProviderConnection(s) # Target
                         /\ Attr[Info[r].type].related => Info[r].ref \cap listed' # {}
  BY <1>2, <1>3 DEF ForeignIsUnmarked, Elements
<1>5. CASE r \in listed
  <2>1. listed \subseteq listed'
    BY CollectQueue DEF EndCollect
  <2>2. QED BY <1>1, <1>4, <1>5, <2>1 DEF ForeignIsUnmarked
<1>6. CASE r \notin listed
  <2>1. EndCollect
    BY <1>6, CollectQueue
  <2>2. /\ Info[r].type \in known /\ r \in objects[Info[r].type]
        /\ Info[r].type \in Elements(Names(Current))
        /\ listed' = listed \cup UNION {objects[t] : t \in known}
    BY <1>6, <2>1, EndCollectAdds
  <2>3. pc = "nested" /\ pc \in Collecting /\ Current \in Service
    BY <2>1, BusyFacts DEF EndCollect, Collecting
  <2>4. s \in Service
    BY <1>1, ElementsType DEF TypeOK
  <2>5. s = Current
    BY <1>4, <2>2, <2>3, <2>4, OneService
  <2>6. BelowObjects(r) \/ (Ownerless(s, r) /\ Related(r))
    BY <1>4, <2>2, <2>3, <2>5 DEF ForeignInv
  <2>7. r \in Res
    BY <1>1, <2>2 DEF TypeOK
  <2>8. \A p \in Res : p \in objects[Info[p].type] => p \in listed'
    <3>1. ASSUME NEW p \in Res, p \in objects[Info[p].type] PROVE p \in listed'
      <4>1. Info[p].type \in Type
        BY InfoFacts
      <4>2. Info[p].type \in known
        BY <2>3, <3>1, <4>1, ObjectFacts
      <4>3. QED BY <2>2, <3>1, <4>2
    <3>2. QED BY <3>1
  <2>9. Info[r].parents \subseteq Res /\ Info[r].ref \subseteq Res
    BY <2>7, InfoFacts
  <2>10. CASE BelowObjects(r)
    BY <2>8, <2>9, <2>10 DEF BelowObjects
  <2>11. CASE Ownerless(s, r) /\ Related(r)
    BY <2>8, <2>9, <2>11 DEF Ownerless, Related
  <2>12. QED BY <2>6, <2>10, <2>11
<1>7. QED BY <1>5, <1>6

\* The parts of ForeignInv about one service.
ObjectsForeign == \A t \in known : \A r \in objects[t] : Info[r].owner # Target =>
    BelowObjects(r) \/ (Ownerless(Current, r) /\ (pc # "direct" => Related(r)))
GotForeign == \A r \in got : Info[r].owner # Target =>
    BelowObjects(r) \/ (Ownerless(Current, r) /\ Related(r))

LEMMA ForeignList == ASSUME BaseInv, ForeignInv, ListDirect, pc' = "direct" PROVE ObjectsForeign'
<1>0. PICK s : s = Current
  OBVIOUS
<1>1. /\ TypeOK /\ pc = "direct" /\ pc \in Collecting /\ todo # <<>> /\ Current' = s
      /\ s \in Service /\ Elements(todo) \cap known = {} /\ UNCHANGED setup
  BY <1>0, BusyFacts DEF BaseInv, ListDirect, Current, Collecting, DirectInv
<1>2. PICK values \in SUBSET Res : /\ Keep(Head(todo), values)
                                   /\ \A r \in values : Info[r].owner # Target => Ownerless(s, r)
  <2>1. PICK t : t = Head(todo)
    OBVIOUS
  <2>2. PICK a : a = {r \in Answer(t, ProviderConnection(s), ProjectFilter(s, t)) : BelongsToProject(s, r)}
    OBVIOUS
  <2>3. ASSUME NEW r \in a, Info[r].owner # Target PROVE Ownerless(s, r)
    <3>1. r \in Res /\ Info[r].type = t
      BY <1>1, <2>2 DEF Answer, TypeOK
    <3>2. Attr[t].wide \/ ProviderConnection(s) \in {NoProject, Info[r].owner}
      BY <2>2, <2>3 DEF Answer
    <3>3. BelongsToProject(s, r) /\ Info[r].owner # NoProject
      BY <2>2, <3>1, InfoFacts
    <3>4. Attr[t].shows # "owner"
      BY <2>3, <3>1, <3>3 DEF BelongsToProject, ProjectValue
    <3>5. Attr[t].wide \/ ProviderConnection(s) # Target
      BY <2>3, <3>2, ProjectsDiffer
    <3>6. QED BY <3>1, <3>4, <3>5 DEF Ownerless
  <2>4. a \in SUBSET Res /\ {} \in SUBSET Res
    BY <1>1, <2>2 DEF Answer, TypeOK
  <2>5. Keep(t, a) \/ Keep(t, {})
    BY <1>0, <2>1, <2>2 DEF ListDirect
  <2>6. QED BY <2>1, <2>3, <2>4, <2>5
<1>3. /\ Head(todo) \in Type /\ known' = known \cup {Head(todo)}
      /\ \A t \in Type : objects'[t] = IF t = Head(todo) THEN values ELSE objects[t]
  BY <1>1, <1>2, KeepFacts
<1>4. \A t \in Type : objects[t] \subseteq objects'[t]
  BY <1>1, <1>2, KeepGrows
<1>5. SUFFICES ASSUME NEW t \in known', NEW r \in objects'[t], Info[r].owner # Target
               PROVE  BelowObjects(r)' \/ Ownerless(s, r)
  BY <1>1, SameOwnerless DEF ObjectsForeign
<1>6. t \in Type
  BY <1>1, <1>3, <1>5 DEF TypeOK
<1>7. CASE t = Head(todo)
  BY <1>2, <1>3, <1>5, <1>6, <1>7
<1>8. CASE t # Head(todo)
  <2>1. t \in known /\ r \in objects[t]
    BY <1>3, <1>5, <1>6, <1>8
  <2>2. r \in Res
    BY <1>1, <1>6, <2>1 DEF TypeOK
  <2>3. BelowObjects(r) \/ Ownerless(s, r)
    BY <1>0, <1>1, <1>5, <2>1 DEF ForeignInv
  <2>4. QED BY <1>4, <2>2, <2>3, FoundGrows
<1>9. QED BY <1>7, <1>8

\* The executions that stay are below a workflow that stays.
LEMMA ForeignEndDirect == ASSUME BaseInv, ForeignInv, EndDirect, pc' = "nested" PROVE ObjectsForeign'
<1>0. PICK s : s = Current
  OBVIOUS
<1>1. /\ TypeOK /\ pc = "direct" /\ pc \in Collecting /\ todo = <<>> /\ Current' = s
      /\ s \in Service /\ UNCHANGED setup /\ known' = known
  BY <1>0, BusyFacts DEF BaseInv, EndDirect, Current, Collecting
<1>2. known = Elements(DirectSpecs(s))
  BY <1>0, <1>1, EmptyFacts DEF BaseInv, DirectInv
<1>3. \A t \in known : Attr[t].parents = {}
  BY <1>1, <1>2, SpecFacts
<1>4. \A t \in Type : objects'[t] = FilterRelatedResources(t, ExcludeDefaultSecurityGroup(objects[t]))
  BY DEF EndDirect
<1>5. SUFFICES ASSUME NEW t \in known, NEW r \in objects'[t], Info[r].owner # Target
               PROVE  Ownerless(s, r) /\ Related(r)'
  BY <1>1, SameOwnerless DEF ObjectsForeign
<1>6. t \in Type
  BY <1>1 DEF TypeOK
<1>7. r \in objects[t]
  BY <1>4, <1>5, <1>6 DEF FilterRelatedResources, ExcludeDefaultSecurityGroup
<1>8. r \in Res /\ Info[r].type = t
  BY <1>1, <1>6, <1>7, ObjectFacts
<1>9. Info[r].parents = {}
  BY <1>3, <1>8, InfoFacts
<1>10. Ownerless(s, r)
  BY <1>0, <1>1, <1>5, <1>7, <1>9 DEF ForeignInv, BelowObjects
<1>11. ASSUME Attr[Info[r].type].related PROVE \E w \in Info[r].ref : w \in objects'[Info[w].type]
  <2>1. PICK w \in Info[r].ref : w \in objects[Info[w].type]
    BY <1>4, <1>5, <1>6, <1>8, <1>11 DEF FilterRelatedResources
  <2>2. Info[w].type \in Type
    BY <1>8, <2>1, InfoFacts
  <2>3. ~Attr[Info[w].type].related /\ Info[w].ref = {} /\ ~Info[w].default
    BY <1>8, <1>11, <2>1, RelatedAssumption
  <2>4. w \in ExcludeDefaultSecurityGroup(objects[Info[w].type])
    BY <2>1, <2>3 DEF ExcludeDefaultSecurityGroup, DefaultGroups
  <2>5. w \in objects'[Info[w].type]
    BY <1>4, <2>2, <2>3, <2>4 DEF FilterRelatedResources
  <2>6. QED BY <2>1, <2>5
<1>12. QED BY <1>10, <1>11 DEF Related

\* Nested types: what is found is below what was found, or is a container.
LEMMA ForeignChildren ==
    ASSUME BaseInv, pc = "request", NEW c \in combos, NEW r \in Children(Head(todo), c),
           Info[r].owner # Target
    PROVE  BelowObjects(r) \/ (Ownerless(Current, r) /\ Related(r))
<1>0. PICK t : t = Head(todo)
  OBVIOUS
<1>1. /\ TypeOK /\ pc \in Collecting /\ Current \in Service /\ todo # <<>>
      /\ c \in Combinations(t) /\ Elements(todo) \subseteq LaterSpecs(Current)
  BY <1>0, BusyFacts DEF BaseInv, Collecting, RequestInv, NestedInv
<1>2. t \in Type /\ t \in Elements(todo)
  BY <1>0, <1>1, TailFacts DEF TypeOK
<1>3. r \in Res /\ Info[r].type = t
  BY <1>0, <1>1 DEF Children, Answer, Below, TypeOK
<1>4. CASE c = {}
  <2>1. Attr[t].parents = {}
    BY <1>1, <1>4 DEF Combinations
  <2>2. \A x \in Elements(NestedSpecs(Current)) : Attr[x].parents # {}
    BY <1>1, SpecFacts
  <2>3. t = ContainerType
    BY <1>1, <1>2, <2>1, <2>2, StoreAssumption DEF LaterSpecs
  <2>4. Attr[t].wide \/ ProviderConnection(Current) \in {NoProject, Info[r].owner}
    BY <1>0, <1>4 DEF Children, Answer
  <2>5. QED BY <1>3, <2>3, <2>4, StoreAssumption, ProjectsDiffer DEF Ownerless, Related
<1>5. CASE c # {}
  <2>1. Info[r].parents = c
    BY <1>0, <1>5 DEF Children, Below
  <2>2. c \subseteq UNION {objects[p] : p \in Attr[t].parents} /\ Attr[t].parents \subseteq Type
    BY <1>1, <1>2, TypesAssumption DEF Combinations, TypeAttr
  <2>3. ASSUME NEW q \in c PROVE q \in objects[Info[q].type]
    <3>1. PICK p \in Type : q \in objects[p]
      BY <2>2, <2>3
    <3>2. QED BY <1>1, <3>1, ObjectFacts
  <2>4. QED BY <1>5, <2>1, <2>3 DEF BelowObjects
<1>6. QED BY <1>4, <1>5

\* A step over nested types that only adds objects.
LEMMA ForeignGrows ==
    ASSUME BaseInv, ForeignInv, UNCHANGED setup, UNCHANGED queue,
           pc \in {"nested", "request"}, pc' \in {"nested", "request"},
           known \subseteq Type, \A t \in Type : objects[t] \subseteq objects'[t],
           \A t \in known' : \A r \in objects'[t] : Info[r].owner # Target =>
               r \in Res /\ ((t \in known /\ r \in objects[t]) \/ (pc = "request" /\ r \in got))
    PROVE  ObjectsForeign'
<1>1. pc \in Collecting /\ Current' = Current
  BY DEF Collecting, Current
<1>2. SUFFICES ASSUME NEW t \in known', NEW r \in objects'[t], Info[r].owner # Target
               PROVE  BelowObjects(r)' \/ (Ownerless(Current, r) /\ Related(r)')
  BY <1>1, SameOwnerless DEF ObjectsForeign
<1>3. r \in Res /\ ((t \in known /\ r \in objects[t]) \/ (pc = "request" /\ r \in got))
  BY <1>2
<1>4. BelowObjects(r) \/ (Ownerless(Current, r) /\ Related(r))
  BY <1>1, <1>2, <1>3 DEF ForeignInv
<1>5. QED BY <1>3, <1>4, FoundGrows

LEMMA ForeignNested ==
    ASSUME BaseInv, ForeignInv, NextNested \/ RequestChildren \/ EndNested \/ NextPass,
           pc' # "failed"
    PROVE  ObjectsForeign' /\ (pc' = "request" => GotForeign')
<1>0. /\ pc \in {"nested", "request"} /\ pc' \in {"nested", "request"} /\ pc \in Collecting
      /\ UNCHANGED setup /\ UNCHANGED queue
  BY DEF NextNested, RequestChildren, TakenForMissing, EndNested, NextPass, AfterFailure, Abort, Collecting
<1>1. TypeOK /\ known \subseteq Type /\ objects \in [Type -> SUBSET Res]
  BY DEF BaseInv, TypeOK
<1>2. Distinct(todo) /\ Elements(todo) \cap known = {} /\ Current' = Current
  BY <1>0 DEF BaseInv, NestedInv, Current
<1>3. ASSUME UNCHANGED <<known, objects>> PROVE ObjectsForeign'
  <2>1. \A t \in known' : \A r \in objects'[t] : r \in Res /\ t \in known /\ r \in objects[t]
    BY <1>1, <1>3
  <2>2. \A t \in Type : objects[t] \subseteq objects'[t]
    BY <1>3
  <2>3. QED BY <1>0, <1>1, <2>1, <2>2, ForeignGrows
<1>4. CASE NextNested
  <2>1. pc' = "request" => GotForeign'
    <3>1. pc' = "request" => got' = {}
      BY <1>4 DEF NextNested
    <3>2. QED BY <3>1 DEF GotForeign
  <2>2. CASE UNCHANGED found
    BY <1>3, <2>1, <2>2 DEF found
  <2>3. CASE Keep(Head(todo), {})
    <3>0. {} \in SUBSET Res /\ todo # <<>>
      BY <1>4 DEF NextNested
    <3>1. /\ Head(todo) \in Type /\ known' = known \cup {Head(todo)}
          /\ \A t \in Type : objects'[t] = IF t = Head(todo) THEN {} ELSE objects[t]
      BY <1>1, <2>3, <3>0, KeepFacts
    <3>2. \A t \in Type : objects[t] \subseteq objects'[t]
      BY <1>0, <1>2, <2>3, <3>0, KeepGrows
    <3>3. \A t \in known' : \A r \in objects'[t] : r \in Res /\ t \in known /\ r \in objects[t]
      BY <1>1, <3>1
    <3>4. ObjectsForeign'
      BY <1>0, <1>1, <3>2, <3>3, ForeignGrows
    <3>5. QED BY <2>1, <3>4
  <2>4. QED BY <1>4, <2>2, <2>3 DEF NextNested
<1>5. CASE RequestChildren
  <2>1. pc = "request" /\ UNCHANGED <<known, objects>>
    BY <1>5 DEF RequestChildren, found
  <2>2. \A r \in got' : r \in got \/ \E c \in combos : r \in Children(Head(todo), c)
    BY <1>5 DEF RequestChildren, GiveUp
  <2>3. ASSUME NEW r \in got', Info[r].owner # Target
        PROVE  BelowObjects(r) \/ (Ownerless(Current, r) /\ Related(r))
    BY <2>1, <2>2, <2>3, ForeignChildren DEF ForeignInv
  <2>4. GotForeign'
    <3>1. \A r : (BelowObjects(r)' <=> BelowObjects(r)) /\ (Related(r)' <=> Related(r))
      BY <2>1 DEF BelowObjects, Related
    <3>2. QED BY <1>0, <1>2, <2>3, <3>1, SameOwnerless DEF GotForeign
  <2>5. QED BY <1>3, <2>1, <2>4
<1>6. CASE EndNested
  <2>0. /\ todo # <<>> /\ got \in SUBSET Res /\ pc = "request" /\ pc' = "nested"
        /\ Keep(Head(todo), got)
    BY <1>1, <1>6 DEF EndNested, BaseInv, RequestInv, TypeOK
  <2>1. /\ Head(todo) \in Type /\ known' = known \cup {Head(todo)}
        /\ \A t \in Type : objects'[t] = IF t = Head(todo) THEN got ELSE objects[t]
    BY <1>1, <2>0, KeepFacts
  <2>2. \A t \in Type : objects[t] \subseteq objects'[t]
    BY <1>0, <1>2, <2>0, KeepGrows
  <2>3. \A t \in known' : \A r \in objects'[t] :
            r \in Res /\ ((t \in known /\ r \in objects[t]) \/ (pc = "request" /\ r \in got))
    BY <1>1, <2>0, <2>1
  <2>4. ObjectsForeign'
    BY <1>0, <1>1, <2>2, <2>3, ForeignGrows
  <2>5. QED BY <2>0, <2>4
<1>7. CASE NextPass
  BY <1>3, <1>7 DEF NextPass, found
<1>8. QED BY <1>4, <1>5, <1>6, <1>7

LEMMA ForeignStep == ASSUME BaseInv, ForeignInv, [Next]_vars PROVE ForeignInv'
<1>1. CASE Prepare
  <2>1. listed' = {} /\ pc' \notin Collecting
    BY <1>1, PrepareFacts DEF BaseInv, QueueInv
  <2>2. QED BY <2>1 DEF ForeignInv, ForeignIsUnmarked, Collecting
<1>2. CASE Collect
  <2>1. ForeignIsUnmarked'
    BY <1>2, ForeignReport
  <2>2. CASE pc' \notin Collecting
    BY <2>1, <2>2 DEF ForeignInv, Collecting
  <2>3. CASE StartCollect /\ pc' \in Collecting
    <3>1. known' = {} /\ pc' # "request"
      BY <2>3 DEF StartCollect, Abort
    <3>2. QED BY <2>1, <3>1 DEF ForeignInv
  <2>4. CASE ListDirect /\ pc' \in Collecting
    <3>1. pc' = "direct"
      BY <2>4 DEF ListDirect, TakenForMissing, AfterFailure, Abort, Collecting
    <3>2. QED BY <2>1, <2>4, <3>1, ForeignList DEF ForeignInv, ObjectsForeign
  <2>5. CASE EndDirect /\ pc' \in Collecting
    <3>1. pc' = "nested"
      BY <2>5 DEF EndDirect, Abort, Collecting
    <3>2. QED BY <2>1, <2>5, <3>1, ForeignEndDirect DEF ForeignInv, ObjectsForeign
  <2>6. CASE (NextNested \/ RequestChildren \/ EndNested \/ NextPass) /\ pc' \in Collecting
    <3>1. pc' # "failed"
      BY <2>6 DEF Collecting
    <3>2. QED BY <2>1, <2>6, <3>1, ForeignNested DEF ForeignInv, ObjectsForeign, GotForeign
  <2>7. EndCollect \/ CollectCrash \/ Report => pc' \notin Collecting
    BY DEF EndCollect, CollectCrash, Report, Abort, Collecting
  <2>8. QED BY <1>2, <2>2, <2>3, <2>4, <2>5, <2>6, <2>7 DEF Collect
<1>3. CASE UNCHANGED <<pc, setup, queue, listed, request, found>>
  <2>1. UNCHANGED <<pc, providers, listed, known, objects, got>> /\ Current' = Current
    BY <1>3 DEF setup, request, found, Current
  <2>2. \A s : Names(s)' = Names(s) /\ ProviderConnection(s)' = ProviderConnection(s)
    BY <1>3, SameSetup
  <2>3. ForeignIsUnmarked'
    BY <2>1, <2>2 DEF ForeignInv, ForeignIsUnmarked, Elements
  <2>4. \A r : (BelowObjects(r)' <=> BelowObjects(r)) /\ (Related(r)' <=> Related(r))
    BY <2>1 DEF BelowObjects, Related
  <2>5. \A s, r : Ownerless(s, r)' <=> Ownerless(s, r)
    BY <1>3, SameOwnerless
  <2>6. QED BY <2>1, <2>3, <2>4, <2>5 DEF ForeignInv
<1>4. QED BY <1>1, <1>2, <1>3, StepCases

\* A resource of another project gets into the report only below another one,
\* or when nothing shows its owner and the connection was not the target's.
THEOREM ForeignIsAlwaysUnmarked == Spec => []ForeignIsUnmarked
<1>1. Init => BaseInv /\ ForeignInv
  BY BaseInit DEF Init, ForeignInv, ForeignIsUnmarked, Collecting
<1>2. BaseInv /\ ForeignInv /\ [Next]_vars => BaseInv' /\ ForeignInv'
  BY BaseStep, ForeignStep
<1>3. ForeignInv => ForeignIsUnmarked
  BY DEF ForeignInv
<1>4. QED BY <1>1, <1>2, <1>3, PTL DEF Spec

-----------------------------------------------------------------------------
(* The default security group.                                               *)

\* A type may be missing from the report: the report says so, or a failed
\* request was taken for a missing type.
Missed(s, t) == Excused(s, t) \/ t \in dropped

\* The project's resources that existed all along.
Lasting == {r \in cloud \ Late : Info[r].owner = Target}

\* Direct types: what is shown is kept, and a filter that is honoured works.
DirectComplete == pc = "direct" =>
    /\ \A r \in Lasting : Info[r].type \in known /\ Visible(Current, r) =>
          r \in objects[Info[r].type] \/ Missed(Current, Info[r].type)
    /\ \A t \in known : \A r \in objects[t] : Attr[t].filter = "honoured" => Info[r].owner = Target

GroupsLeft(s, rs) ==
    s \in Network /\ Sdk(s) =>
        \A r \in rs : \A g \in ({r} \cup Info[r].ref) \cap (cloud \ Late) :
            Info[r].type \in Elements(Names(s)) /\ Info[g].default => Missed(s, Info[g].type)
DefaultInv ==
    /\ pc \in Listing => \A s \in Closed : GroupsLeft(s, listed)
    /\ pc \in {"nested", "request"} => \A t \in known : GroupsLeft(Current, objects[t])

LEMMA CloudShrinks ==
    ASSUME BaseInv, [Next]_vars
    PROVE  cloud' \ Late \subseteq cloud \ Late /\ Lasting' \subseteq Lasting
<1>1. cloud' \ Late \subseteq cloud \ Late
  <2>1. CASE Prepare
    BY <2>1, PrepareFacts DEF BaseInv
  <2>2. CASE Collect
    BY <2>2, CollectFacts
  <2>3. CASE UNCHANGED cloud \/ \E r \in Res : CloudCreate(r) \/ CloudDelete(r)
    BY <2>3 DEF CloudCreate, CloudDelete
  <2>4. QED BY <2>1, <2>2, <2>3, StepCases
<1>2. QED BY <1>1 DEF Lasting

LEMMA ErrorsGrow == ASSUME Collect PROVE errors \subseteq errors' /\ dropped \subseteq dropped'
<1>1. CASE StartCollect
  BY <1>1 DEF StartCollect, Note
<1>2. CASE ListDirect
  BY <1>2 DEF ListDirect, TakenForMissing, Note
<1>3. CASE EndDirect
  BY <1>3 DEF EndDirect, Note
<1>4. CASE NextNested
  BY <1>4 DEF NextNested
<1>5. CASE RequestChildren
  BY <1>5 DEF RequestChildren, TakenForMissing, Note
<1>6. CASE EndNested
  BY <1>6 DEF EndNested
<1>7. CASE NextPass
  BY <1>7 DEF NextPass
<1>8. CASE EndCollect
  BY <1>8 DEF EndCollect
<1>9. CASE CollectCrash
  BY <1>9 DEF CollectCrash
<1>10. CASE Report
  BY <1>10 DEF Report
<1>11. QED BY <1>1, <1>2, <1>3, <1>4, <1>5, <1>6, <1>7, <1>8, <1>9, <1>10 DEF Collect

LEMMA ExcusedStays ==
    ASSUME errors \subseteq errors'
    PROVE  \A s, t : Excused(s, t) => Excused(s, t)'
  BY DEF Excused

LEMMA MissedGrows ==
    ASSUME errors \subseteq errors', dropped \subseteq dropped'
    PROVE  \A s, t : Missed(s, t) => Missed(s, t)'
  BY ExcusedStays DEF Missed

LEMMA DirectListed ==
    ASSUME BaseInv, DirectComplete, ListDirect, pc' = "direct"
    PROVE  DirectComplete'
<1>0. PICK s : s = Current
  OBVIOUS
<1>1. PICK x : x = Head(todo)
  OBVIOUS
<1>2. /\ TypeOK /\ pc = "direct" /\ pc \in Collecting /\ todo # <<>> /\ Current' = s
      /\ s \in Service /\ Elements(todo) \cap known = {} /\ UNCHANGED setup /\ cloud' = cloud
      /\ Elements(todo) \subseteq Elements(DirectSpecs(s))
  BY <1>0, BusyFacts DEF BaseInv, ListDirect, Current, Collecting, DirectInv
<1>3. errors \subseteq errors' /\ dropped \subseteq dropped' /\ \A u, r : Visible(u, r)' <=> Visible(u, r)
  BY <1>2, ErrorsGrow, SameSetup DEF Collect
<1>4. Lasting' = Lasting
  BY <1>2 DEF Lasting
<1>5. PICK a : a = {r \in Answer(x, ProviderConnection(s), ProjectFilter(s, x)) : BelongsToProject(s, r)}
  OBVIOUS
<1>6. a \in SUBSET Res /\ {} \in SUBSET Res
  BY <1>2, <1>5 DEF Answer, TypeOK
<1>7. PICK values \in {a, {}} : Keep(x, values) /\ (values # a => Missed(s, x)')
  <2>1. \/ Keep(x, a)
        \/ x \in dropped' /\ Keep(x, {})
        \/ Note(x) /\ Keep(x, {})
    BY <1>0, <1>1, <1>5 DEF ListDirect, TakenForMissing
  <2>2. x \in dropped' => Missed(s, x)'
    BY DEF Missed, Excused
  <2>3. Note(x) => Missed(s, x)'
    BY <1>0 DEF Missed, Excused, Note
  <2>4. QED BY <2>1, <2>2, <2>3
<1>8. /\ x \in Type /\ known' = known \cup {x} /\ x \in Elements(todo)
      /\ \A t \in Type : objects'[t] = IF t = x THEN values ELSE objects[t]
  BY <1>1, <1>2, <1>6, <1>7, KeepFacts
<1>9. ASSUME NEW r \in Lasting, Info[r].type \in known', Visible(s, r)
      PROVE  r \in objects'[Info[r].type] \/ Missed(s, Info[r].type)'
  <2>1. r \in Res /\ r \in cloud /\ Info[r].owner = Target
    BY <1>2, <1>9 DEF Lasting, TypeOK
  <2>2. Info[r].type \in Type
    BY <2>1, InfoFacts
  <2>3. CASE Info[r].type = x
    <3>1. CASE values = a
      <4>1. BelongsToProject(s, r)
        BY <1>9 DEF Visible
      <4>2. ~ProjectFilter(s, x) => Attr[x].wide \/ ProviderConnection(s) \in {NoProject, Target}
        BY <1>9, <2>3 DEF Visible
      <4>3. r \in Answer(x, ProviderConnection(s), ProjectFilter(s, x))
        BY <2>1, <2>3, <4>2 DEF Answer
      <4>4. QED BY <1>5, <1>8, <2>2, <2>3, <3>1, <4>1, <4>3
    <3>2. CASE values # a
      BY <1>7, <2>3, <3>2
    <3>3. QED BY <3>1, <3>2
  <2>4. CASE Info[r].type # x
    <3>1. r \in objects[Info[r].type] \/ Missed(s, Info[r].type)
      BY <1>0, <1>2, <1>8, <1>9, <2>4 DEF DirectComplete
    <3>2. QED BY <1>3, <1>8, <2>2, <2>4, <3>1, MissedGrows
  <2>5. QED BY <2>3, <2>4
<1>10. ASSUME NEW t \in known', NEW r \in objects'[t], Attr[t].filter = "honoured"
       PROVE  Info[r].owner = Target
  <2>1. t \in Type
    BY <1>2, <1>8 DEF TypeOK
  <2>2. CASE t = x
    <3>1. r \in a
      BY <1>7, <1>8, <2>1, <2>2
    <3>2. QED BY <1>5, <1>10, <2>2, <3>1 DEF Answer, ProjectFilter
  <2>3. CASE t # x
    BY <1>2, <1>8, <1>10, <2>1, <2>3 DEF DirectComplete
  <2>4. QED BY <2>2, <2>3
<1>11. QED BY <1>2, <1>3, <1>4, <1>9, <1>10 DEF DirectComplete

LEMMA DirectCompleteStep == ASSUME BaseInv, DirectComplete, [Next]_vars PROVE DirectComplete'
<1>1. CASE Prepare
  BY <1>1, PrepareFacts DEF BaseInv, DirectComplete, Collecting
<1>2. CASE Collect
  <2>1. CASE StartCollect
    BY <2>1 DEF StartCollect, DirectComplete
  <2>2. CASE ListDirect
    BY <2>2, DirectListed DEF DirectComplete
  <2>3. CASE ~StartCollect /\ ~ListDirect
    <3>1. pc' # "direct"
      BY <1>2, <2>3 DEF Collect, EndDirect, NextNested, RequestChildren, TakenForMissing, EndNested, NextPass,
                        EndCollect, CollectCrash, Report, AfterFailure, Abort
    <3>2. QED BY <3>1 DEF DirectComplete
  <2>4. QED BY <2>1, <2>2, <2>3
<1>3. CASE UNCHANGED <<pc, setup, queue, errors, dropped, found>>
  <2>1. UNCHANGED <<pc, errors, dropped, known, objects>> /\ Current' = Current
    BY <1>3 DEF found, Current
  <2>2. Lasting' \subseteq Lasting
    BY CloudShrinks
  <2>3. \A s, r : Visible(s, r)' <=> Visible(s, r)
    BY <1>3, SameSetup
  <2>4. \A s, t : Missed(s, t)' <=> Missed(s, t)
    BY <2>1 DEF Missed, Excused
  <2>5. QED BY <2>1, <2>2, <2>3, <2>4 DEF DirectComplete
<1>4. QED BY <1>1, <1>2, <1>3, StepCases

\* A default group and its rules are of types that are listed directly.
LEMMA DefaultTypes ==
    ASSUME NEW s \in Service, s \in Network, Sdk(s), NEW r \in Res, NEW g \in {r} \cup Info[r].ref,
           Info[r].type \in Elements(Names(s)), Info[g].default,
           NEW t \in {Info[r].type, Info[g].type}
    PROVE  /\ t \in Elements(DirectSpecs(s)) /\ Attr[t].filter = "honoured" /\ Attr[t].shows = "owner"
           /\ t \notin LaterSpecs(s)
<1>1. Info[r].type \in TypesOf(s)
  BY SpecFacts
<1>2. /\ t \in Elements(Registry[s]) /\ Attr[t].parents = {} /\ ~Attr[t].isGlobal
      /\ ~Attr[t].nonDeletable /\ Attr[t].field /\ Attr[t].shows = "owner"
      /\ Attr[t].filter = "honoured"
  BY <1>1, DefaultAssumption
<1>3. t \in Elements(Names(s)) /\ t \in Type
  <2>1. t \in Elements(Names(s))
    BY <1>2 DEF Names
  <2>2. QED BY <2>1, SpecFacts
<1>4. ~Skipped(s, t)
  BY <1>2 DEF Skipped, IsGlobal, NonDeletableResource
<1>5. t \in Elements(DirectSpecs(s))
  BY <1>2, <1>3, <1>4, SpecFacts
<1>6. t \notin Elements(NestedSpecs(s))
  BY <1>2, SpecFacts
<1>7. t # ContainerType /\ t # ObjectType
  BY <1>2, StoreAssumption
<1>8. QED BY <1>2, <1>5, <1>6, <1>7 DEF LaterSpecs

\* The default group is dropped with its rules once the direct types are there.
LEMMA DefaultEndDirect ==
    ASSUME BaseInv, DirectComplete, EndDirect
    PROVE  \A t \in known' : GroupsLeft(Current, objects[t])'
<1>0. PICK s : s = Current
  OBVIOUS
<1>1. /\ TypeOK /\ pc = "direct" /\ pc \in Collecting /\ todo = <<>> /\ Current' = s
      /\ s \in Service /\ UNCHANGED setup /\ known' = known /\ cloud' = cloud
  BY <1>0, BusyFacts DEF BaseInv, EndDirect, Current, Collecting
<1>2. known = Elements(DirectSpecs(s))
  BY <1>0, <1>1, EmptyFacts DEF BaseInv, DirectInv
<1>3. errors \subseteq errors' /\ dropped \subseteq dropped' /\ (Sdk(s)' <=> Sdk(s)) /\ Names(s)' = Names(s)
  BY <1>1, ErrorsGrow, SameSetup DEF Collect
<1>4. SUFFICES ASSUME NEW t \in known, s \in Network, Sdk(s), NEW r \in objects'[t],
                      NEW g \in ({r} \cup Info[r].ref) \cap (cloud \ Late),
                      Info[r].type \in Elements(Names(s)), Info[g].default
               PROVE  Missed(s, Info[g].type)
  BY <1>1, <1>3, MissedGrows DEF GroupsLeft, Elements
<1>5. t \in Type
  BY <1>1 DEF TypeOK
<1>6. r \in ExcludeDefaultSecurityGroup(objects[t])
  BY <1>4, <1>5 DEF EndDirect, FilterRelatedResources
<1>7. r \in objects[t] /\ r \notin DefaultGroups /\ Info[r].ref \cap DefaultGroups = {}
  BY <1>0, <1>4, <1>6 DEF ExcludeDefaultSecurityGroup
<1>8. r \in Res /\ Info[r].type = t
  BY <1>1, <1>5, <1>7, ObjectFacts
<1>9. /\ Info[g].type \in Elements(DirectSpecs(s)) /\ Attr[Info[g].type].filter = "honoured"
      /\ Attr[Info[g].type].shows = "owner" /\ Attr[t].filter = "honoured"
  BY <1>1, <1>4, <1>8, DefaultTypes
<1>10. Info[r].owner = Target
  BY <1>1, <1>4, <1>7, <1>9 DEF DirectComplete
<1>11. Info[g].owner = Target /\ g \in Res
  BY <1>8, <1>10, InfoFacts, ResourcesAssumption
<1>12. Visible(s, g)
  BY <1>9, <1>11 DEF Visible, ProjectFilter, BelongsToProject, ProjectValue
<1>13. g \in objects[Info[g].type] \/ Missed(s, Info[g].type)
  BY <1>0, <1>1, <1>2, <1>4, <1>9, <1>11, <1>12 DEF DirectComplete, Lasting
<1>14. g \in objects[Info[g].type] => g \in DefaultGroups
  BY <1>2, <1>4, <1>9 DEF DefaultGroups
<1>15. QED BY <1>7, <1>13, <1>14

\* Types listed later have no default group.
LEMMA NoDefaultLater ==
    ASSUME BaseInv, pc \in {"nested", "request"}, todo # <<>>, NEW values \in SUBSET Res,
           \A r \in values : Info[r].type = Head(todo)
    PROVE  GroupsLeft(Current, values)
<1>1. /\ TypeOK /\ Current \in Service /\ Elements(todo) \subseteq LaterSpecs(Current)
  BY BusyFacts DEF BaseInv, Collecting, NestedInv
<1>2. Head(todo) \in LaterSpecs(Current)
  BY <1>1, TailFacts DEF TypeOK
<1>3. SUFFICES ASSUME Current \in Network, Sdk(Current), NEW r \in values,
                      NEW g \in ({r} \cup Info[r].ref) \cap (cloud \ Late),
                      Info[r].type \in Elements(Names(Current)), Info[g].default
               PROVE  FALSE
  BY DEF GroupsLeft
<1>4. r \in Res /\ Info[r].type = Head(todo)
  OBVIOUS
<1>5. Info[r].type \notin LaterSpecs(Current)
  BY <1>1, <1>3, <1>4, DefaultTypes
<1>6. QED BY <1>2, <1>4, <1>5

LEMMA GroupsStay ==
    ASSUME UNCHANGED setup, errors \subseteq errors', dropped \subseteq dropped', cloud' \ Late \subseteq cloud \ Late
    PROVE  \A s, rs : GroupsLeft(s, rs) => GroupsLeft(s, rs)'
<1>1. \A s : (Sdk(s)' <=> Sdk(s)) /\ Names(s)' = Names(s)
  BY SameSetup
<1>2. QED BY <1>1, MissedGrows DEF GroupsLeft, Elements

LEMMA DefaultReport ==
    ASSUME BaseInv, DefaultInv, Collect
    PROVE  pc' \in Listing => \A s \in Closed' : GroupsLeft(s, listed)'
<1>1. UNCHANGED setup /\ errors \subseteq errors' /\ dropped \subseteq dropped' /\ cloud' = cloud /\ pc \in Listing /\ TypeOK
  BY CollectFacts, ErrorsGrow DEF Listing, BaseInv
<1>2. \A s : (Sdk(s)' <=> Sdk(s)) /\ Names(s)' = Names(s)
  BY <1>1, SameSetup
<1>3. SUFFICES ASSUME NEW s \in Closed', s \in Network, Sdk(s), NEW r \in listed',
                      NEW g \in ({r} \cup Info[r].ref) \cap (cloud \ Late),
                      Info[r].type \in Elements(Names(s)), Info[g].default
               PROVE  Missed(s, Info[g].type)
  BY <1>1, <1>2, MissedGrows DEF GroupsLeft, Elements
<1>4. CASE r \in listed
  <2>1. PICK u \in Closed : Info[r].type \in Elements(Names(u))
    BY <1>4 DEF BaseInv, ListedInv
  <2>2. u \in Service /\ s \in Service
    <3>1. Closed' \subseteq Service
      BY <1>1, ElementsType DEF Closed, setup, TypeOK
    <3>2. QED BY <1>3, <2>1, <3>1, ClosedStep
  <2>3. u = s
    BY <1>3, <2>1, <2>2, OneService
  <2>4. QED BY <1>1, <1>3, <1>4, <2>1, <2>3 DEF DefaultInv, GroupsLeft
<1>5. CASE r \notin listed
  <2>1. EndCollect
    BY <1>5, CollectQueue
  <2>2. /\ Info[r].type \in known /\ r \in objects[Info[r].type]
        /\ Info[r].type \in Elements(Names(Current))
    BY <1>5, <2>1, EndCollectAdds
  <2>3. pc = "nested" /\ Current \in Service
    BY <2>1, BusyFacts DEF EndCollect, Collecting
  <2>4. s \in Service
    <3>1. Closed' \subseteq Service
      BY <1>1, ElementsType DEF Closed, setup, TypeOK
    <3>2. QED BY <1>3, <3>1
  <2>5. s = Current
    BY <1>3, <2>2, <2>3, <2>4, OneService
  <2>6. GroupsLeft(s, objects[Info[r].type])
    BY <2>2, <2>3, <2>5 DEF DefaultInv
  <2>7. QED BY <1>3, <2>2, <2>6 DEF GroupsLeft
<1>6. QED BY <1>4, <1>5

LEMMA DefaultNested ==
    ASSUME BaseInv, DefaultInv, NextNested \/ RequestChildren \/ EndNested \/ NextPass
    PROVE  \A t \in known' : GroupsLeft(Current, objects[t])'
<1>1. /\ pc \in {"nested", "request"} /\ UNCHANGED setup /\ UNCHANGED queue /\ cloud' = cloud
      /\ TypeOK /\ pc \in Collecting
  BY DEF NextNested, RequestChildren, EndNested, NextPass, BaseInv, Collecting
<1>2. errors \subseteq errors' /\ dropped \subseteq dropped' /\ Current' = Current
  BY <1>1, ErrorsGrow DEF Collect, Current
<1>3. \A s, rs : GroupsLeft(s, rs) => GroupsLeft(s, rs)'
  BY <1>1, <1>2, GroupsStay
<1>5. \A t \in known : GroupsLeft(Current, objects[t])
  BY <1>1 DEF DefaultInv
<1>6. CASE UNCHANGED <<known, objects>>
  <2>1. \A t \in known : GroupsLeft(Current, objects[t])'
    BY <1>2, <1>3, <1>5, <1>6 DEF GroupsLeft
  <2>2. QED BY <1>6, <2>1
<1>7. CASE \E values \in SUBSET Res : /\ todo # <<>> /\ Keep(Head(todo), values)
                                      /\ \A r \in values : Info[r].type = Head(todo)
  <2>1. PICK values \in SUBSET Res : /\ todo # <<>> /\ Keep(Head(todo), values)
                                     /\ \A r \in values : Info[r].type = Head(todo)
    BY <1>7
  <2>2. /\ Head(todo) \in Type /\ known' = known \cup {Head(todo)}
        /\ \A t \in Type : objects'[t] = IF t = Head(todo) THEN values ELSE objects[t]
    BY <1>1, <2>1, KeepFacts
  <2>3. GroupsLeft(Current, values)
    BY <1>1, <2>1, NoDefaultLater
  <2>4. ASSUME NEW t \in known' PROVE GroupsLeft(Current, objects[t])'
    <3>1. PICK rs : rs = objects'[t]
      OBVIOUS
    <3>2. GroupsLeft(Current, rs)
      BY <1>1, <1>5, <2>2, <2>3, <3>1 DEF TypeOK
    <3>3. QED BY <1>2, <1>3, <3>1, <3>2 DEF GroupsLeft
  <2>5. QED BY <2>4
<1>8. NextNested => UNCHANGED found \/ (todo # <<>> /\ Keep(Head(todo), {}))
  BY DEF NextNested
<1>9. EndNested => /\ todo # <<>> /\ Keep(Head(todo), got) /\ got \in SUBSET Res
                   /\ \A r \in got : Info[r].type = Head(todo)
  BY DEF EndNested, BaseInv, RequestInv, TypeOK
<1>10. RequestChildren \/ NextPass => UNCHANGED found
  BY DEF RequestChildren, NextPass
<1>11. QED BY <1>6, <1>7, <1>8, <1>9, <1>10 DEF found

LEMMA DefaultStep == ASSUME BaseInv, DirectComplete, DefaultInv, [Next]_vars PROVE DefaultInv'
<1>1. CASE Prepare
  <2>1. listed' = {} /\ pc' \notin Collecting
    BY <1>1, PrepareFacts DEF BaseInv, QueueInv
  <2>2. QED BY <2>1 DEF DefaultInv, GroupsLeft, Collecting
<1>2. CASE Collect
  <2>1. pc' \in Listing => \A s \in Closed' : GroupsLeft(s, listed)'
    BY <1>2, DefaultReport
  <2>2. pc' \in {"nested", "request"} =>
            EndDirect \/ NextNested \/ RequestChildren \/ EndNested \/ NextPass
    BY <1>2 DEF Collect, StartCollect, ListDirect, TakenForMissing, EndCollect, CollectCrash,
                Report, AfterFailure, Abort
  <2>3. QED BY <2>1, <2>2, DefaultEndDirect, DefaultNested DEF DefaultInv
<1>3. CASE UNCHANGED <<pc, setup, queue, errors, dropped, found, listed>>
  <2>1. UNCHANGED <<pc, errors, dropped, known, objects, listed>> /\ Current' = Current /\ Closed' = Closed
    BY <1>3 DEF found, Current, Closed, setup
  <2>2. cloud' \ Late \subseteq cloud \ Late
    BY CloudShrinks
  <2>3. \A s, rs : GroupsLeft(s, rs) => GroupsLeft(s, rs)'
    BY <1>3, <2>1, <2>2, GroupsStay
  <2>4. pc \in Listing => \A s \in Closed : GroupsLeft(s, listed)'
    BY <2>1, <2>3 DEF DefaultInv, GroupsLeft
  <2>5. pc \in {"nested", "request"} => \A t \in known : GroupsLeft(Current, objects[t])'
    BY <2>1, <2>3 DEF DefaultInv, GroupsLeft
  <2>6. QED BY <2>1, <2>4, <2>5 DEF DefaultInv
<1>4. QED BY <1>1, <1>2, <1>3, StepCases

LEMMA DefaultInit == Init => DirectComplete /\ DefaultInv
  BY DEF Init, DirectComplete, DefaultInv, Listing, Collecting

\* A report lists the default security group and its rules only when listing
\* the groups failed.
THEOREM DefaultGroupAlwaysLeft == Spec => []DefaultGroupLeft
<1>1. Init => BaseInv /\ DirectComplete /\ DefaultInv
  BY BaseInit, DefaultInit
<1>2. BaseInv /\ DirectComplete /\ DefaultInv /\ [Next]_vars => BaseInv' /\ DirectComplete' /\ DefaultInv'
  BY BaseStep, DirectCompleteStep, DefaultStep
<1>3. BaseInv /\ DefaultInv => DefaultGroupLeft
  <2>1. SUFFICES ASSUME BaseInv, DefaultInv, pc = "done" PROVE DefaultGroupLeft
    BY DEF DefaultGroupLeft
  <2>2. Closed = Elements(providers) /\ pc \in Listing
    BY <2>1, EmptyFacts DEF BaseInv, QueueInv, Closed, Listing
  <2>3. QED BY <2>1, <2>2 DEF DefaultInv, Missed, GroupsLeft, DefaultGroupLeft
<1>4. QED BY <1>1, <1>2, <1>3, PTL DEF Spec

-----------------------------------------------------------------------------
(* What the report owes.                                                     *)

\* The cloud keeps what a resource refers to.
CloudInv == \A r \in cloud : Info[r].parents \cup Info[r].ref \subseteq cloud

\* What the report of the current service owes, with the objects found so far
\* in the place of the report.
Owed(s, r) ==
    /\ r \in Lasting /\ Info[r].type \in Asked(s)
    /\ Sdk(s) => Attr[Info[r].type].addressed /\ BelongsToProject(s, r)
    /\ IF Info[r].parents = {} THEN Visible(s, r)
       ELSE \A p \in Info[r].parents : p \in objects[Info[p].type]
    /\ Sdk(s) /\ s \in Network => ~(\E g \in {r} \cup Info[r].ref : Info[g].default)
    /\ Related(r)

Excuse(s, t) == \/ Missed(s, t)
                \/ ~Sdk(s) /\ t \in Elements(later)

KnownComplete == pc \in {"nested", "request"} =>
    \A r \in Res : Owed(Current, r) /\ Info[r].type \in known =>
        r \in objects[Info[r].type] \/ Excuse(Current, Info[r].type)
RequestComplete == pc = "request" =>
    \A r \in Res : Owed(Current, r) /\ Info[r].type = Head(todo) =>
        r \in got \/ Info[r].parents \in combos \/ Excuse(Current, Info[r].type)

ClosedComplete == pc \in Listing => \A s \in Closed : \A r \in Expected(s) :
    r \in listed \/ Excused(s, Info[r].type) \/ Info[r].type \in dropped

\* A service with an endpoint waits for a client, has one, or is an error.
ClientInv ==
    /\ \A e \in endpoints : e.service \in Service /\ e.rank \in Nat
    /\ pc \in {"project", "connect"} => \A e \in endpoints : e.service \in Elements(queue)
    /\ pc = "resolve" => \A e \in endpoints : \/ e.service \in Elements(queue)
                                              \/ kind[e.service] # "none"
                                              \/ <<e.service, "(client)">> \in errors
    /\ pc \in Listing => \A e \in endpoints : \/ kind[e.service] # "none"
                                              \/ <<e.service, "(client)">> \in errors

LEMMA CloudInit == Init => CloudInv
  BY ResourcesAssumption DEF Init, CloudInv

LEMMA CloudStep == ASSUME BaseInv, CloudInv, [Next]_vars PROVE CloudInv'
<1>1. CASE Prepare
  BY <1>1, PrepareFacts DEF BaseInv, CloudInv
<1>2. CASE Collect
  BY <1>2, CollectFacts DEF CloudInv
<1>3. CASE UNCHANGED cloud
  BY <1>3 DEF CloudInv
<1>4. ASSUME NEW r \in Res, CloudCreate(r) PROVE CloudInv'
  BY <1>4 DEF CloudCreate, CloudInv
<1>5. ASSUME NEW r \in Res, CloudDelete(r) PROVE CloudInv'
  BY <1>5 DEF CloudDelete, CloudInv
<1>6. QED BY <1>1, <1>2, <1>3, <1>4, <1>5, StepCases

\* sorted(matching, key=rank)[0] is an endpoint of the service.
LEMMA BestFacts ==
    ASSUME NEW s, Matching(s) # {}, \A e \in endpoints : e.rank \in Nat
    PROVE  Best(s) \in endpoints /\ Best(s).service = s
<1>1. PICK M : M = Matching(s)
  OBVIOUS
<1>2. M \subseteq endpoints /\ \A e \in M : e.service = s
  BY <1>1 DEF Matching, Candidates
<1>3. PICK n \in {e.rank : e \in M} : \A m \in {e.rank : e \in M} : n <= m
  <2>1. {e.rank : e \in M} \subseteq Nat /\ {e.rank : e \in M} # {}
    BY <1>1, <1>2
  <2>2. QED BY <2>1, LeastNumber
<1>4. PICK e \in M : n = e.rank
  OBVIOUS
<1>5. \E x \in Matching(s) : \A f \in Matching(s) : x.rank <= f.rank
  BY <1>1, <1>3, <1>4
<1>6. Best(s) \in Matching(s)
  BY <1>5 DEF Best
<1>7. QED BY <1>1, <1>2, <1>6

LEMMA ClientPrepare == ASSUME BaseInv, ClientInv, Prepare PROVE ClientInv'
<1>0. TypeOK /\ \A e \in endpoints : e.service \in Service /\ e.rank \in Nat
  BY DEF BaseInv, ClientInv
<1>1. CASE DiscoverEndpoints
  <2>1. pc' \in {"select", "failed"}
    BY <1>1 DEF DiscoverEndpoints, Abort
  <2>2. \A e \in endpoints' : e.service \in Service /\ e.rank \in Nat
    <3>1. endpoints' = endpoints \/ \E catalog \in Catalogs : endpoints' = Enabled(catalog)
      BY <1>1 DEF DiscoverEndpoints
    <3>2. QED BY <1>0, <3>1, ServicesAssumption DEF Enabled
  <2>3. QED BY <2>1, <2>2 DEF ClientInv, Listing, Collecting
<1>2. CASE SelectEndpoints
  <2>1. CASE pc' = "failed"
    <3>1. endpoints' = endpoints
      BY <1>2, <2>1 DEF SelectEndpoints
    <3>2. QED BY <1>0, <2>1, <3>1 DEF ClientInv, Listing, Collecting
  <2>2. CASE pc' # "failed"
    <3>1. PICK named : named = {e.service : e \in Candidates}
      OBVIOUS
    <3>2. /\ \A s \in named : Matching(s) # {} /\ pc' = "project"
          /\ endpoints' = {Best(s) : s \in named} /\ queue' = Only(ServiceOrder, named)
      BY <1>2, <2>2, <3>1 DEF SelectEndpoints, Abort
    <3>3. \A s \in named : Best(s) \in endpoints /\ Best(s).service = s
      BY <1>0, <3>2, BestFacts
    <3>4. named \subseteq Service
      BY <1>0, <3>1 DEF Candidates
    <3>5. Elements(queue') = named
      <4>1. Elements(Only(ServiceOrder, named)) = Elements(ServiceOrder) \cap named
        BY ServicesAssumption, OnlyFacts
      <4>2. QED BY <3>2, <3>4, <4>1 DEF Service
    <3>6. \A e \in endpoints' : e \in endpoints /\ e.service \in Elements(queue')
      BY <3>2, <3>3, <3>5
    <3>7. pc' = "project"
      BY <1>2, <2>2 DEF SelectEndpoints, Abort
    <3>8. QED BY <1>0, <3>6, <3>7 DEF ClientInv, Listing, Collecting, Elements
  <2>3. QED BY <2>1, <2>2
<1>3. CASE ResolveProject
  <2>1. pc = "project" /\ pc' \in {"connect", "failed"} /\ UNCHANGED <<endpoints, queue>>
    BY <1>3 DEF ResolveProject, Abort, setup
  <2>2. QED BY <2>1 DEF ClientInv, Listing, Collecting
<1>4. CASE AsProjectConnection
  <2>1. pc = "connect" /\ pc' = "resolve" /\ UNCHANGED <<endpoints, queue>>
    BY <1>4 DEF AsProjectConnection
  <2>2. QED BY <2>1 DEF ClientInv, Listing, Collecting
<1>5. CASE ResolveProvider
  <2>1. PICK s, c : /\ s = Head(queue) /\ kind' = [kind EXCEPT ![s] = Provider(c)]
                    /\ errors' = IF Provider(c) = "none" THEN errors \cup {<<s, "(client)">>} ELSE errors
    BY <1>5 DEF ResolveProvider
  <2>2. /\ pc = "resolve" /\ pc' = "resolve" /\ endpoints' = endpoints /\ queue # <<>>
        /\ queue' = Tail(queue)
    BY <1>5 DEF ResolveProvider
  <2>3. Elements(queue) = {s} \cup Elements(queue') /\ s \in Service
    BY <1>0, <2>1, <2>2, TailFacts DEF TypeOK
  <2>4. \A u \in Service : kind'[u] = IF u = s THEN Provider(c) ELSE kind[u]
    BY <1>0, <2>1 DEF TypeOK
  <2>5. ASSUME NEW e \in endpoints
        PROVE  \/ e.service \in Elements(queue')
               \/ kind'[e.service] # "none"
               \/ <<e.service, "(client)">> \in errors'
    <3>1. e.service \in Service
      BY <1>0
    <3>2. CASE e.service = s
      BY <2>1, <2>4, <3>1, <3>2
    <3>3. CASE e.service # s
      <4>1. \/ e.service \in Elements(queue)
            \/ kind[e.service] # "none"
            \/ <<e.service, "(client)">> \in errors
        BY <2>2 DEF ClientInv
      <4>2. errors \subseteq errors' /\ kind'[e.service] = kind[e.service]
        BY <2>1, <2>4, <3>1, <3>3
      <4>3. QED BY <2>3, <3>3, <4>1, <4>2
    <3>4. QED BY <3>2, <3>3
  <2>6. QED BY <1>0, <2>2, <2>5 DEF ClientInv, Listing, Collecting, Elements
<1>6. CASE Preflight
  <2>1. /\ pc = "resolve" /\ queue = <<>> /\ pc' \in {"collect", "failed"}
        /\ UNCHANGED <<endpoints, kind, errors>>
    BY <1>6 DEF Preflight, Abort, setup
  <2>2. QED BY <2>1, EmptyFacts DEF ClientInv, Listing, Collecting
<1>7. QED BY <1>1, <1>2, <1>3, <1>4, <1>5, <1>6 DEF Prepare

LEMMA ClientStep == ASSUME BaseInv, ClientInv, [Next]_vars PROVE ClientInv'
<1>1. CASE Prepare
  BY <1>1, ClientPrepare
<1>2. CASE Collect
  <2>1. errors \subseteq errors' /\ UNCHANGED <<endpoints, kind>> /\ pc \in Listing
    BY <1>2, ErrorsGrow, CollectFacts DEF setup, Listing
  <2>2. pc' \notin {"project", "connect", "resolve"}
    BY <1>2, CollectFacts DEF Preparing
  <2>3. QED BY <2>1, <2>2 DEF ClientInv
<1>3. CASE UNCHANGED <<pc, setup, queue, errors>>
  BY <1>3 DEF ClientInv, setup
<1>4. QED BY <1>1, <1>2, <1>3, StepCases

LEMMA AskedFacts ==
    ASSUME NEW s \in Service
    PROVE  Asked(s) \subseteq Elements(Names(s)) /\ Asked(s) \subseteq TypesOf(s)
<1>1. /\ Elements(DirectSpecs(s)) \subseteq Elements(Names(s))
      /\ Elements(NestedSpecs(s)) \subseteq Elements(Names(s))
      /\ Elements(Names(s)) \subseteq TypesOf(s)
  BY SpecFacts
<1>2. InStore(s) /\ ~StoreBroken(s) => {ContainerType, ObjectType} \subseteq Elements(Names(s))
  BY DEF StoreBroken
<1>3. QED BY <1>1, <1>2 DEF Asked

\* What a resource is below, and what an execution refers to, is of the same
\* service.
LEMMA SameService ==
    ASSUME NEW s \in Service, NEW r \in Res, Info[r].type \in TypesOf(s)
    PROVE  /\ \A p \in Info[r].parents : Info[p].type \in TypesOf(s)
           /\ Attr[Info[r].type].related => \A w \in Info[r].ref : Info[w].type \in TypesOf(s)
<1>1. {Info[p].type : p \in Info[r].parents} = Attr[Info[r].type].parents
  BY ResourcesAssumption
<1>2. Attr[Info[r].type].parents \subseteq TypesOf(s)
  BY TypesAssumption
<1>3. Attr[Info[r].type].related => \A w \in Info[r].ref : Info[w].type \in TypesOf(s)
  BY RelatedAssumption
<1>4. QED BY <1>1, <1>2, <1>3

\* What is owed is owed as long as the objects it depends on are the same.
LEMMA OwedSame ==
    ASSUME UNCHANGED setup, Lasting' \subseteq Lasting, NEW s, NEW r,
           \A p \in Info[r].parents : objects'[Info[p].type] = objects[Info[p].type],
           Attr[Info[r].type].related =>
               \A w \in Info[r].ref : objects'[Info[w].type] = objects[Info[w].type],
           Owed(s, r)'
    PROVE  Owed(s, r)
<1>1. /\ Asked(s)' = Asked(s) /\ (Sdk(s)' <=> Sdk(s))
      /\ (BelongsToProject(s, r)' <=> BelongsToProject(s, r))
      /\ (Visible(s, r)' <=> Visible(s, r))
  BY SameSetup
<1>2. r \in Lasting /\ Info[r].type \in Asked(s)
  BY <1>1 DEF Owed
<1>3. Sdk(s) => Attr[Info[r].type].addressed /\ BelongsToProject(s, r)
  BY <1>1 DEF Owed
<1>4. IF Info[r].parents = {} THEN Visible(s, r)
      ELSE \A p \in Info[r].parents : p \in objects[Info[p].type]
  BY <1>1 DEF Owed
<1>5. Sdk(s) /\ s \in Network => ~(\E g \in {r} \cup Info[r].ref : Info[g].default)
  BY <1>1 DEF Owed
<1>6. Related(r)
  BY DEF Owed, Related
<1>7. QED BY <1>2, <1>3, <1>4, <1>5, <1>6 DEF Owed

LEMMA ExcuseStays ==
    ASSUME UNCHANGED setup, errors \subseteq errors', dropped \subseteq dropped',
           NEW s, ~Sdk(s) => Elements(later) \subseteq Elements(later')
    PROVE  \A t : Excuse(s, t) => Excuse(s, t)'
<1>1. Sdk(s)' <=> Sdk(s)
  BY SameSetup
<1>2. \A t : Excused(s, t) => Excused(s, t)'
  BY ExcusedStays
<1>3. QED BY <1>1, <1>2 DEF Excuse, Missed, Elements

\* Direct types: the filters that follow keep what is owed.
LEMMA CompleteEndDirect ==
    ASSUME BaseInv, DirectComplete, EndDirect, pc' = "nested"
    PROVE  KnownComplete' /\ RequestComplete'
<1>0. PICK s : s = Current
  OBVIOUS
<1>1. /\ TypeOK /\ pc = "direct" /\ pc \in Collecting /\ todo = <<>> /\ Current' = s
      /\ s \in Service /\ UNCHANGED setup /\ known' = known /\ cloud' = cloud
  BY <1>0, BusyFacts DEF BaseInv, EndDirect, Current, Collecting
<1>2. known = Elements(DirectSpecs(s)) /\ \A t \in Elements(DirectSpecs(s)) : Attr[t].parents = {}
  BY <1>0, <1>1, EmptyFacts, SpecFacts DEF BaseInv, DirectInv
<1>3. errors \subseteq errors' /\ dropped \subseteq dropped' /\ Lasting' = Lasting
  BY <1>1, ErrorsGrow DEF Collect, Lasting
<1>4. SUFFICES ASSUME NEW r \in Res, Owed(s, r)', Info[r].type \in known
               PROVE  r \in objects'[Info[r].type] \/ Missed(s, Info[r].type)'
  BY <1>1 DEF KnownComplete, RequestComplete, Excuse, Missed
<1>5. PICK t : t = Info[r].type /\ t \in Type
  BY InfoFacts
<1>6. Info[r].parents = {}
  BY <1>2, <1>4, InfoFacts
<1>7. r \in Lasting /\ Visible(s, r)
  BY <1>1, <1>3, <1>4, <1>6, SameSetup DEF Owed
<1>8. r \in objects[t] \/ Missed(s, t)
  BY <1>0, <1>1, <1>4, <1>5, <1>7 DEF DirectComplete
<1>9. ASSUME r \in objects[t] PROVE r \in objects'[t]
  <2>1. Sdk(s) /\ s \in Network => ~(\E g \in {r} \cup Info[r].ref : Info[g].default)
    BY <1>1, <1>4, SameSetup DEF Owed
  <2>2. r \in ExcludeDefaultSecurityGroup(objects[t])
    BY <1>0, <1>9, <2>1 DEF ExcludeDefaultSecurityGroup, DefaultGroups
  <2>3. \A x \in Type : objects'[x] \subseteq objects[x]
    BY DEF EndDirect, FilterRelatedResources, ExcludeDefaultSecurityGroup
  <2>4. Attr[t].related => \E w \in Info[r].ref : w \in objects[Info[w].type]
    <3>1. Attr[t].related => \E w \in Info[r].ref : w \in objects'[Info[w].type]
      BY <1>4, <1>5 DEF Owed, Related
    <3>2. \A w \in Info[r].ref : Info[w].type \in Type
      BY InfoFacts
    <3>3. QED BY <2>3, <3>1, <3>2
  <2>5. r \in FilterRelatedResources(t, ExcludeDefaultSecurityGroup(objects[t]))
    BY <2>2, <2>4 DEF FilterRelatedResources
  <2>6. QED BY <1>5, <2>5 DEF EndDirect
<1>10. QED BY <1>3, <1>5, <1>8, <1>9, MissedGrows

\* Listing a nested type settles nothing about the types known before it, and
\* does not change what it owes itself.
LEMMA OwedBeforeKeep ==
    ASSUME BaseInv, pc \in {"nested", "request"}, UNCHANGED setup, UNCHANGED cloud, todo # <<>>,
           Attr[Head(todo)].parents \subseteq known,
           NEW values \in SUBSET Res, Keep(Head(todo), values),
           NEW r \in Res, Info[r].type \in known \cup {Head(todo)}, Owed(Current, r)'
    PROVE  Owed(Current', r)
<1>1. PICK t : t = Head(todo)
  OBVIOUS
<1>2. /\ TypeOK /\ pc \in Collecting /\ Current \in Service /\ Elements(todo) \cap known = {}
      /\ Elements(todo) \subseteq LaterSpecs(Current)
      /\ \A x \in known : Attr[x].parents \subseteq known
  BY BusyFacts DEF BaseInv, Collecting, NestedInv
<1>3. /\ t \in Type /\ t \in Elements(todo)
      /\ \A x \in Type : objects'[x] = IF x = t THEN values ELSE objects[x]
  BY <1>1, <1>2, KeepFacts
<1>4. t \notin known
  BY <1>2, <1>3
<1>5. Attr[Info[r].type].parents \subseteq known
  BY <1>1, <1>2
<1>6. \A p \in Info[r].parents : Info[p].type \in known
  BY <1>5, ResourcesAssumption
<1>7. \A p \in Info[r].parents : objects'[Info[p].type] = objects[Info[p].type]
  BY <1>2, <1>3, <1>4, <1>6 DEF TypeOK
<1>8. ASSUME Attr[Info[r].type].related, NEW w \in Info[r].ref
      PROVE  objects'[Info[w].type] = objects[Info[w].type]
  <2>1. Info[w].type # ContainerType /\ Attr[Info[w].type].parents = {}
    BY <1>8, RelatedAssumption
  <2>2. Info[w].type \in Type
    BY <1>8, InfoFacts
  <2>3. \A x \in Elements(NestedSpecs(Current)) : Attr[x].parents # {}
    BY <1>2, SpecFacts
  <2>4. Info[w].type \notin LaterSpecs(Current)
    BY <2>1, <2>3, StoreAssumption DEF LaterSpecs
  <2>5. QED BY <1>2, <1>3, <2>2, <2>4
<1>9. Lasting' = Lasting
  BY DEF Lasting
<1>10. \A u : Owed(u, r)' => Owed(u, r)
  BY <1>7, <1>8, <1>9, OwedSame
<1>11. PICK u : u = Current'
  OBVIOUS
<1>12. Owed(u, r)'
  BY <1>11 DEF Owed
<1>13. QED BY <1>10, <1>11, <1>12

\* Nothing is found or lost: what is owed stays as it was.
LEMMA CompleteSame ==
    ASSUME BaseInv, KnownComplete, pc \in {"nested", "request"}, UNCHANGED setup, UNCHANGED queue,
           UNCHANGED <<known, objects>>, Lasting' \subseteq Lasting,
           errors \subseteq errors', dropped \subseteq dropped',
           ~Sdk(Current) => Elements(later) \subseteq Elements(later')
    PROVE  KnownComplete'
<1>0. PICK s : s = Current /\ Current' = s
  BY DEF Current
<1>1. \A r : Owed(s, r)' => Owed(s, r)
  BY OwedSame
<1>2. \A t : Excuse(s, t) => Excuse(s, t)'
  BY <1>0, ExcuseStays
<1>3. QED BY <1>0, <1>1, <1>2 DEF KnownComplete

\* A type is listed with the values received for it.
LEMMA CompleteKeep ==
    ASSUME BaseInv, KnownComplete, pc \in {"nested", "request"}, UNCHANGED setup, UNCHANGED queue,
           UNCHANGED cloud, errors \subseteq errors', dropped \subseteq dropped', later' = later,
           todo # <<>>, Attr[Head(todo)].parents \subseteq known,
           NEW values \in SUBSET Res, Keep(Head(todo), values),
           \A r \in Res : Owed(Current, r) /\ Info[r].type = Head(todo) =>
               r \in values \/ Excuse(Current, Head(todo))
    PROVE  KnownComplete'
<1>0. PICK s : s = Current /\ Current' = s
  BY DEF Current
<1>1. TypeOK
  BY DEF BaseInv
<1>2. /\ Head(todo) \in Type /\ known' = known \cup {Head(todo)}
      /\ \A x \in Type : objects'[x] = IF x = Head(todo) THEN values ELSE objects[x]
  BY <1>1, KeepFacts
<1>3. \A t : Excuse(s, t) => Excuse(s, t)'
  BY ExcuseStays
<1>4. \A r \in Res : Info[r].type \in Type
  BY InfoFacts
<1>5. SUFFICES ASSUME NEW r \in Res, Owed(s, r)', Info[r].type \in known'
               PROVE  r \in objects'[Info[r].type] \/ Excuse(s, Info[r].type)
  BY <1>0, <1>3 DEF KnownComplete
<1>6. Owed(s, r)
  BY <1>0, <1>2, <1>5, OwedBeforeKeep
<1>7. CASE Info[r].type = Head(todo)
  BY <1>0, <1>2, <1>6, <1>7
<1>8. CASE Info[r].type # Head(todo)
  BY <1>0, <1>2, <1>4, <1>5, <1>6, <1>8 DEF KnownComplete
<1>9. QED BY <1>7, <1>8

\* The parents of what is owed are among the combinations.
LEMMA OwedCombination ==
    ASSUME BaseInv, pc \in Collecting, NEW s, NEW r \in Res, Owed(s, r), NEW t, t = Info[r].type
    PROVE  /\ Attr[t].addressed => Info[r].parents \in Combinations(t)
           /\ ~ParentsUnknown(t) /\ ~ParentsEmpty(t)
<1>1. {Info[p].type : p \in Info[r].parents} = Attr[t].parents
  BY ResourcesAssumption
<1>2. \A p, q \in Info[r].parents : Info[p].type = Info[q].type => p = q
  BY ResourcesAssumption
<1>3. \A p \in Info[r].parents : p \in objects[Info[p].type]
  BY DEF Owed
<1>4. Info[r].parents \subseteq UNION {objects[p] : p \in Attr[t].parents}
  BY <1>1, <1>3
<1>5. Attr[t].addressed => Info[r].parents \in Combinations(t)
  BY <1>1, <1>2, <1>4 DEF Combinations
<1>6. ASSUME NEW x \in Attr[t].parents PROVE x \in known /\ objects[x] # {}
  <2>1. PICK p \in Info[r].parents : Info[p].type = x
    BY <1>1, <1>6
  <2>2. p \in objects[x] /\ x \in Type
    BY <1>3, <2>1, InfoFacts
  <2>3. x \in known
    BY <2>2, ObjectFacts
  <2>4. QED BY <2>2, <2>3
<1>7. ~ParentsUnknown(t) /\ ~ParentsEmpty(t)
  BY <1>6 DEF ParentsUnknown, ParentsEmpty
<1>8. QED BY <1>5, <1>7

LEMMA CompleteNext ==
    ASSUME BaseInv, KnownComplete, NextNested
    PROVE  KnownComplete' /\ RequestComplete'
<1>0. PICK s : s = Current /\ Current' = s
  BY DEF NextNested, Current
<1>1. /\ TypeOK /\ pc = "nested" /\ pc \in Collecting /\ todo # <<>>
      /\ UNCHANGED setup /\ UNCHANGED queue /\ UNCHANGED cloud /\ UNCHANGED errors /\ UNCHANGED dropped
  BY DEF BaseInv, NextNested, Collecting
<1>2. PICK t : t = Head(todo) /\ t \in Type
  BY <1>1, TailFacts DEF TypeOK
<1>3. Lasting' = Lasting
  BY <1>1 DEF Lasting
<1>4. Elements(Append(later, t)) = Elements(later) \cup {t}
  BY <1>1, <1>2, AppendFacts DEF TypeOK
<1>5. CASE /\ ParentsUnknown(t) \/ (Sdk(s) /\ ParentsEmpty(t))
           /\ later' = Append(later, t) /\ UNCHANGED <<pc, found>>
  <2>1. KnownComplete'
    BY <1>1, <1>3, <1>4, <1>5, CompleteSame DEF found
  <2>2. QED BY <1>1, <1>5, <2>1 DEF RequestComplete
<1>6. CASE /\ ~Sdk(s) /\ ~ParentsUnknown(t) /\ ParentsEmpty(t)
           /\ Keep(t, {}) /\ UNCHANGED <<pc, later>>
  <2>1. {} \in SUBSET Res /\ Attr[t].parents \subseteq known
    BY <1>6 DEF ParentsUnknown
  <2>2. \A r \in Res : ~(Owed(s, r) /\ Info[r].type = t)
    BY <1>1, <1>6, OwedCombination
  <2>3. KnownComplete'
    BY <1>0, <1>1, <1>2, <1>6, <2>1, <2>2, CompleteKeep
  <2>4. QED BY <1>1, <1>6, <2>3 DEF RequestComplete
<1>7. CASE /\ combos' = Combinations(t) /\ pc' = "request"
           /\ later' = IF ~Sdk(s) /\ ~Attr[t].addressed THEN Append(later, t) ELSE later
           /\ UNCHANGED <<todo, found>>
  <2>1. ~Sdk(s) => Elements(later) \subseteq Elements(later')
    BY <1>4, <1>7
  <2>2. KnownComplete'
    BY <1>0, <1>1, <1>3, <1>7, <2>1, CompleteSame DEF found
  <2>3. SUFFICES ASSUME NEW r \in Res, Owed(s, r)', Info[r].type = t
                 PROVE  Info[r].parents \in combos' \/ Excuse(s, t)'
    BY <1>0, <1>2, <1>7, <2>2 DEF RequestComplete
  <2>4. Owed(s, r)
    BY <1>1, <1>3, <1>7, <2>3, OwedSame DEF found
  <2>5. CASE Attr[t].addressed
    BY <1>1, <1>7, <2>3, <2>4, <2>5, OwedCombination
  <2>6. CASE ~Attr[t].addressed
    <3>1. ~Sdk(s) /\ (Sdk(s)' <=> Sdk(s))
      BY <1>1, <2>3, <2>4, <2>6, SameSetup DEF Owed
    <3>2. t \in Elements(later')
      BY <1>4, <1>7, <2>6, <3>1
    <3>3. QED BY <3>1, <3>2 DEF Excuse, Missed, Elements
  <2>7. QED BY <2>5, <2>6
<1>8. QED BY <1>0, <1>2, <1>5, <1>6, <1>7 DEF NextNested

\* Each request brings the children of its parents, or its failure is noted.
LEMMA CompleteRequest ==
    ASSUME BaseInv, CloudInv, KnownComplete, RequestComplete, RequestChildren
    PROVE  KnownComplete' /\ RequestComplete'
<1>0. PICK s : s = Current /\ Current' = s
  BY DEF RequestChildren, Current
<1>1. /\ TypeOK /\ pc = "request" /\ pc \in Collecting
      /\ UNCHANGED setup /\ UNCHANGED queue /\ UNCHANGED cloud
      /\ UNCHANGED <<todo, later, known, objects>>
  BY DEF BaseInv, RequestChildren, Collecting, pass, found
<1>2. PICK t : t = Head(todo)
  OBVIOUS
<1>3. errors \subseteq errors' /\ dropped \subseteq dropped' /\ Lasting' = Lasting
  BY <1>1, ErrorsGrow DEF Collect, Lasting
<1>4. KnownComplete'
  BY <1>1, <1>3, CompleteSame
<1>5. \A x : Excuse(s, x) => Excuse(s, x)'
  BY <1>1, <1>3, ExcuseStays
<1>6. SUFFICES ASSUME NEW r \in Res, Owed(s, r), Info[r].type = t
               PROVE  r \in got' \/ Info[r].parents \in combos' \/ Excuse(s, t)'
  <2>1. \A r : Owed(s, r)' => Owed(s, r)
    BY <1>1, <1>3, OwedSame
  <2>2. QED BY <1>0, <1>1, <1>2, <1>4, <2>1 DEF RequestComplete
<1>7. SUFFICES ASSUME ~Excuse(s, t)' PROVE r \in got' \/ Info[r].parents \in combos'
  OBVIOUS
<1>8. r \in got \/ Info[r].parents \in combos
  BY <1>0, <1>1, <1>2, <1>5, <1>6, <1>7 DEF RequestComplete
<1>9. r \in cloud /\ Info[r].owner = Target
  BY <1>6 DEF Owed, Lasting
<1>10. PICK c \in combos :
          \/ /\ Attr[t].served
             /\ got' = got \cup Children(t, c) /\ combos' = combos \ {c}
          \/ /\ GiveUp(t, c)
             /\ (PerParent(s, t) /\ ~(c \subseteq cloud)) \/ t \in dropped'
          \/ Note(t)
  BY <1>0, <1>2 DEF RequestChildren, TakenForMissing
<1>11. CASE Attr[t].served /\ got' = got \cup Children(t, c) /\ combos' = combos \ {c}
  <2>1. ASSUME Info[r].parents = c PROVE r \in Children(t, c)
    <3>1. CASE c = {}
      <4>1. Elements(DirectSpecs(s)) \subseteq known /\ Elements(todo) \cap known = {} /\ todo # <<>>
        BY <1>0, <1>1 DEF BaseInv, NestedInv, RequestInv
      <4>2. t \notin Elements(DirectSpecs(s))
        BY <1>1, <1>2, <4>1, TailFacts DEF TypeOK
      <4>3. Visible(s, r)
        BY <1>6, <2>1, <3>1 DEF Owed
      <4>4. Attr[t].wide \/ ProviderConnection(s) \in {NoProject, Target}
        BY <1>6, <4>2, <4>3 DEF Visible
      <4>5. QED BY <1>0, <1>6, <1>9, <3>1, <4>4 DEF Children, Answer
    <3>2. CASE c # {}
      <4>1. ~PerParent(s, t) => BelongsToProject(s, r)
        BY <1>6 DEF Owed, PerParent
      <4>2. QED BY <1>0, <1>6, <1>9, <2>1, <3>2, <4>1 DEF Children, Below
    <3>3. QED BY <3>1, <3>2
  <2>2. QED BY <1>8, <1>11, <2>1
<1>12. CASE GiveUp(t, c) /\ ((PerParent(s, t) /\ ~(c \subseteq cloud)) \/ t \in dropped')
  <2>1. t \notin dropped'
    BY <1>7 DEF Excuse, Missed
  <2>2. PerParent(s, t) /\ ~(c \subseteq cloud)
    BY <1>12, <2>1
  <2>3. Info[r].parents \subseteq cloud
    BY <1>9 DEF CloudInv
  <2>4. Info[r].parents # c
    BY <2>2, <2>3
  <2>5. got' = got /\ combos' = combos \ {c}
    BY <1>0, <1>12, <2>2 DEF GiveUp
  <2>6. QED BY <1>8, <2>4, <2>5
<1>13. CASE Note(t)
  <2>1. Excuse(s, t)'
    BY <1>0, <1>13 DEF Note, Excuse, Missed, Excused
  <2>2. QED BY <1>7, <2>1
<1>14. QED BY <1>10, <1>11, <1>12, <1>13

LEMMA CompleteEndNested ==
    ASSUME BaseInv, KnownComplete, RequestComplete, EndNested
    PROVE  KnownComplete' /\ RequestComplete'
<1>1. /\ TypeOK /\ pc = "request" /\ pc' = "nested" /\ combos = {} /\ Keep(Head(todo), got)
      /\ UNCHANGED setup /\ UNCHANGED queue /\ UNCHANGED cloud
      /\ UNCHANGED errors /\ UNCHANGED dropped /\ later' = later
  BY DEF BaseInv, EndNested
<1>2. todo # <<>> /\ Attr[Head(todo)].parents \subseteq known /\ got \in SUBSET Res
  BY <1>1 DEF BaseInv, RequestInv, TypeOK
<1>3. \A r \in Res : Owed(Current, r) /\ Info[r].type = Head(todo) =>
          r \in got \/ Excuse(Current, Head(todo))
  BY <1>1 DEF RequestComplete
<1>4. KnownComplete'
  BY <1>1, <1>2, <1>3, CompleteKeep
<1>5. QED BY <1>1, <1>4 DEF RequestComplete

LEMMA CompletePass ==
    ASSUME BaseInv, KnownComplete, NextPass
    PROVE  KnownComplete' /\ RequestComplete'
<1>1. /\ pc = "nested" /\ pc' = "nested" /\ Sdk(Current) /\ UNCHANGED <<known, objects>>
      /\ UNCHANGED setup /\ UNCHANGED queue /\ UNCHANGED cloud /\ UNCHANGED errors /\ UNCHANGED dropped
  BY DEF NextPass, found
<1>2. Lasting' = Lasting
  BY <1>1 DEF Lasting
<1>3. KnownComplete'
  BY <1>1, <1>2, CompleteSame
<1>4. QED BY <1>1, <1>3 DEF RequestComplete

LEMMA CompleteStep ==
    ASSUME BaseInv, CloudInv, DirectComplete, KnownComplete, RequestComplete, [Next]_vars
    PROVE  KnownComplete' /\ RequestComplete'
<1>1. CASE Prepare
  BY <1>1, PrepareFacts DEF BaseInv, KnownComplete, RequestComplete, Collecting
<1>2. CASE Collect
  <2>1. CASE pc' \notin {"nested", "request"}
    BY <2>1 DEF KnownComplete, RequestComplete
  <2>2. CASE pc' \in {"nested", "request"}
    <3>1. EndDirect \/ NextNested \/ RequestChildren \/ EndNested \/ NextPass
      BY <1>2, <2>2 DEF Collect, StartCollect, ListDirect, TakenForMissing, EndCollect, CollectCrash, Report,
                        AfterFailure, Abort
    <3>2. EndDirect => pc' = "nested"
      BY <2>2 DEF EndDirect, Abort
    <3>3. QED BY <3>1, <3>2, CompleteEndDirect, CompleteNext, CompleteRequest, CompleteEndNested,
                 CompletePass
  <2>3. QED BY <2>1, <2>2
<1>3. CASE UNCHANGED <<pc, setup, queue, errors, pass, request, found, dropped>>
  <2>1. UNCHANGED <<pc, errors, dropped, todo, later, combos, got, known, objects>>
    BY <1>3 DEF pass, request, found
  <2>2. Lasting' \subseteq Lasting
    BY CloudShrinks
  <2>3. KnownComplete'
    <3>1. CASE pc \in {"nested", "request"}
      BY <1>3, <2>1, <2>2, <3>1, CompleteSame
    <3>2. CASE pc \notin {"nested", "request"}
      BY <2>1, <3>2 DEF KnownComplete
    <3>3. QED BY <3>1, <3>2
  <2>4. RequestComplete'
    <3>0. PICK s : s = Current /\ Current' = s
      BY <1>3 DEF Current
    <3>1. \A r : Owed(s, r)' => Owed(s, r)
      BY <1>3, <2>1, <2>2, OwedSame
    <3>2. \A x : Excuse(s, x) => Excuse(s, x)'
      BY <1>3, <2>1, ExcuseStays
    <3>3. QED BY <2>1, <3>0, <3>1, <3>2 DEF RequestComplete
  <2>5. QED BY <2>3, <2>4
<1>4. QED BY <1>1, <1>2, <1>3, StepCases

\* What a closed service owes does not grow with the reports of the others.
LEMMA ExpectedShrinks ==
    ASSUME BaseInv, Collect, NEW s \in Closed, NEW r \in Expected(s)'
    PROVE  r \in Expected(s)
<1>1. /\ TypeOK /\ UNCHANGED setup /\ UNCHANGED cloud /\ Closed \subseteq Service
  BY CollectFacts, ClosedStep DEF BaseInv
<1>2. /\ Asked(s)' = Asked(s) /\ (Sdk(s)' <=> Sdk(s))
      /\ (BelongsToProject(s, r)' <=> BelongsToProject(s, r))
      /\ (Visible(s, r)' <=> Visible(s, r))
  BY <1>1, SameSetup
<1>3. r \in cloud \ Late /\ r \in Res /\ Info[r].type \in Asked(s) /\ s \in Service
  BY <1>1, <1>2 DEF Expected, TypeOK
<1>4. ASSUME NEW p \in listed', Info[p].type \in TypesOf(s) PROVE p \in listed
  <2>1. SUFFICES ASSUME p \notin listed PROVE FALSE
    OBVIOUS
  <2>2. EndCollect
    BY <2>1, CollectQueue
  <2>3. Info[p].type \in Elements(Names(Current)) /\ queue' = Tail(queue)
    BY <2>1, <2>2, EndCollectAdds
  <2>4. queue # <<>> /\ Current \in Service
    BY <2>2, BusyFacts DEF EndCollect, Collecting
  <2>5. Current # s
    <3>1. queue' # queue
      BY <1>1, <2>3, <2>4 DEF TypeOK
    <3>2. QED BY <3>1, ClosedStep
  <2>6. Info[p].type \in TypesOf(Current)
    BY <2>3, <2>4, SpecFacts
  <2>7. QED BY <1>3, <1>4, <2>4, <2>5, <2>6, ServicesAssumption
<1>5. Info[r].type \in TypesOf(s)
  BY <1>3, AskedFacts
<1>6. /\ \A p \in Info[r].parents : Info[p].type \in TypesOf(s)
      /\ Attr[Info[r].type].related => \A w \in Info[r].ref : Info[w].type \in TypesOf(s)
  BY <1>3, <1>5, SameService
<1>7. IF Info[r].parents = {} THEN Visible(s, r) ELSE Info[r].parents \subseteq listed
  <2>1. IF Info[r].parents = {} THEN Visible(s, r) ELSE Info[r].parents \subseteq listed'
    BY <1>2 DEF Expected
  <2>2. QED BY <1>4, <1>6, <2>1
<1>8. Attr[Info[r].type].related => Info[r].ref \cap listed # {}
  <2>1. Attr[Info[r].type].related => Info[r].ref \cap listed' # {}
    BY DEF Expected
  <2>2. QED BY <1>4, <1>6, <2>1
<1>9. /\ Info[r].owner = Target
      /\ Sdk(s) => Attr[Info[r].type].addressed /\ BelongsToProject(s, r)
      /\ Sdk(s) /\ s \in Network => ~(\E g \in {r} \cup Info[r].ref : Info[g].default)
  BY <1>2 DEF Expected
<1>10. QED BY <1>3, <1>7, <1>8, <1>9 DEF Expected

\* What a service owes when its collection ends is what it owed to its objects.
LEMMA EndOwes ==
    ASSUME BaseInv, EndCollect, queue' = Tail(queue), NEW s, s = Current, NEW r \in Expected(s)'
    PROVE  r \in Res /\ Owed(s, r)
<1>1. /\ TypeOK /\ UNCHANGED setup /\ UNCHANGED cloud /\ s \in Service /\ pc \in Collecting
  BY BusyFacts DEF BaseInv, EndCollect, Collecting
<1>2. /\ Asked(s)' = Asked(s) /\ (Sdk(s)' <=> Sdk(s))
      /\ (BelongsToProject(s, r)' <=> BelongsToProject(s, r))
      /\ (Visible(s, r)' <=> Visible(s, r))
  BY <1>1, SameSetup
<1>3. r \in cloud \ Late /\ r \in Res /\ Info[r].type \in Asked(s)
  BY <1>1, <1>2 DEF Expected, TypeOK
<1>4. ASSUME NEW p \in listed', p \in Res, Info[p].type \in TypesOf(s) PROVE p \in objects[Info[p].type]
  <2>1. CASE p \notin listed
    BY <2>1, EndCollectAdds
  <2>2. CASE p \in listed
    <3>1. PICK u \in Closed : Info[p].type \in Elements(Names(u))
      BY <2>2 DEF BaseInv, ListedInv
    <3>2. queue # <<>> /\ queue' # queue
      BY <1>1, BusyFacts DEF TypeOK
    <3>3. Current \notin Closed /\ Closed \subseteq Service
      BY <3>2, ClosedStep DEF Collect
    <3>4. Info[p].type \in TypesOf(u)
      BY <3>1, <3>3, SpecFacts
    <3>5. QED BY <1>1, <1>4, <3>1, <3>3, <3>4, ServicesAssumption
  <2>3. QED BY <2>1, <2>2
<1>5. Info[r].type \in TypesOf(s)
  BY <1>1, <1>3, AskedFacts
<1>6. /\ \A p \in Info[r].parents : Info[p].type \in TypesOf(s)
      /\ Attr[Info[r].type].related => \A w \in Info[r].ref : Info[w].type \in TypesOf(s)
      /\ Info[r].parents \subseteq Res /\ Info[r].ref \subseteq Res
  BY <1>1, <1>3, <1>5, SameService, InfoFacts
<1>7. IF Info[r].parents = {} THEN Visible(s, r)
      ELSE \A p \in Info[r].parents : p \in objects[Info[p].type]
  <2>1. IF Info[r].parents = {} THEN Visible(s, r) ELSE Info[r].parents \subseteq listed'
    BY <1>2 DEF Expected
  <2>2. QED BY <1>4, <1>6, <2>1
<1>8. Related(r)
  <2>1. Attr[Info[r].type].related => Info[r].ref \cap listed' # {}
    BY DEF Expected
  <2>2. QED BY <1>4, <1>6, <2>1 DEF Related
<1>9. /\ Info[r].owner = Target
      /\ Sdk(s) => Attr[Info[r].type].addressed /\ BelongsToProject(s, r)
      /\ Sdk(s) /\ s \in Network => ~(\E g \in {r} \cup Info[r].ref : Info[g].default)
  BY <1>2 DEF Expected
<1>10. QED BY <1>3, <1>7, <1>8, <1>9 DEF Owed, Lasting

\* A collection that ends has listed what is owed: the types that still wait
\* have no parents, or are noted as unlisted.
LEMMA EndComplete ==
    ASSUME BaseInv, KnownComplete, EndCollect, queue' = Tail(queue), NEW s, s = Current,
           NEW r \in Expected(s)'
    PROVE  r \in listed' \/ Excused(s, Info[r].type)' \/ Info[r].type \in dropped'
<1>1. /\ TypeOK /\ pc = "nested" /\ pc \in Collecting /\ todo = <<>> /\ queue # <<>>
      /\ dropped' = dropped /\ errors' = errors \cup Unlisted
      /\ ~(Sdk(s) /\ progressed /\ later # <<>>)
  BY BusyFacts DEF BaseInv, EndCollect, Collecting
<1>2. r \in Res /\ Owed(s, r)
  BY EndOwes
<1>3. PICK t : t = Info[r].type /\ t \in Type /\ t \in Asked(s)
  BY <1>2, InfoFacts DEF Owed
<1>4. \A x : Excused(s, x) => Excused(s, x)'
  BY <1>1, ExcusedStays
<1>5. ~Sdk(s) /\ t \in Elements(later) => Excused(s, t)'
  <2>1. SUFFICES ASSUME ~Sdk(s), t \in Elements(later) PROVE <<s, t>> \in errors'
    BY DEF Excused
  <2>2. PICK i \in DOMAIN later : t = later[i]
    BY <2>1 DEF Elements
  <2>3. <<s, t>> \in Unlisted
    BY <2>1, <2>2 DEF Unlisted
  <2>4. QED BY <1>1, <2>3
<1>6. CASE t \in known
  <2>1. r \in objects[t] \/ Excuse(s, t)
    BY <1>1, <1>2, <1>3, <1>6 DEF KnownComplete
  <2>2. r \in objects[t] => r \in listed'
    <3>1. listed' = listed \cup UNION {objects[x] : x \in known}
      <4>1. queue' # queue
        BY <1>1 DEF TypeOK
      <4>2. QED BY <4>1 DEF EndCollect
    <3>2. QED BY <1>6, <3>1
  <2>3. QED BY <1>1, <1>3, <1>4, <1>5, <2>1, <2>2 DEF Excuse, Missed
<1>7. CASE t \notin known
  <2>1. t \in Elements(later)
    BY <1>1, <1>3, <1>7, EmptyFacts DEF BaseInv, NestedInv
  <2>2. CASE ~Sdk(s)
    BY <1>3, <1>5, <2>1, <2>2
  <2>3. CASE Sdk(s)
    <3>1. ~progressed
      BY <1>1, <2>1, <2>3, EmptyFacts
    <3>2. ParentsUnknown(t) \/ ParentsEmpty(t)
      BY <1>1, <2>1, <2>3, <3>1 DEF BaseInv, NestedInv
    <3>3. QED BY <1>1, <1>2, <1>3, <3>2, OwedCombination
  <2>4. QED BY <2>2, <2>3
<1>8. QED BY <1>6, <1>7

LEMMA ClosedCompleteStep ==
    ASSUME BaseInv, KnownComplete, ClosedComplete, [Next]_vars
    PROVE  ClosedComplete'
<1>1. CASE Prepare
  <2>1. pc' \in Listing => Closed' = {}
    <3>1. pc' \in Listing => Preflight /\ queue' = providers /\ providers' = providers
      BY <1>1 DEF Prepare, DiscoverEndpoints, SelectEndpoints, ResolveProject, AsProjectConnection,
                  ResolveProvider, Preflight, Abort, Listing, Collecting, setup
    <3>2. QED BY <3>1 DEF Closed
  <2>2. QED BY <2>1 DEF ClosedComplete
<1>2. CASE Collect
  <2>1. /\ errors \subseteq errors' /\ dropped \subseteq dropped' /\ pc \in Listing
        /\ listed \subseteq listed'
    BY <1>2, ErrorsGrow, CollectFacts, CollectQueue DEF Listing, EndCollect
  <2>2. ASSUME NEW s \in Closed', NEW r \in Expected(s)'
        PROVE  r \in listed' \/ Excused(s, Info[r].type)' \/ Info[r].type \in dropped'
    <3>1. CASE s \in Closed
      <4>1. r \in Expected(s)
        BY <1>2, <2>2, <3>1, ExpectedShrinks
      <4>2. r \in listed \/ Excused(s, Info[r].type) \/ Info[r].type \in dropped
        BY <2>1, <3>1, <4>1 DEF ClosedComplete
      <4>3. QED BY <2>1, <4>2, ExcusedStays
    <3>2. CASE s \notin Closed
      <4>1. queue' # queue /\ s = Current
        BY <1>2, <2>2, <3>2, ClosedStep
      <4>2. queue' = Tail(queue) /\ pc' = "collect"
        BY <1>2, <4>1, CollectQueue
      <4>3. EndCollect \/ CollectCrash
        BY <1>2, <4>1 DEF Collect, StartCollect, ListDirect, EndDirect, NextNested,
                          RequestChildren, EndNested, NextPass, Report
      <4>4. CASE EndCollect
        BY <2>2, <4>1, <4>2, <4>4, EndComplete
      <4>5. CASE CollectCrash
        BY <4>1, <4>5 DEF CollectCrash, Excused
      <4>6. QED BY <4>3, <4>4, <4>5
    <3>3. QED BY <3>1, <3>2
  <2>3. QED BY <2>2 DEF ClosedComplete
<1>3. CASE UNCHANGED <<pc, setup, queue, errors, listed, dropped>>
  <2>1. UNCHANGED <<pc, errors, listed, dropped>> /\ Closed' = Closed
    BY <1>3 DEF Closed, setup
  <2>2. \A s : Asked(s)' = Asked(s) /\ (Sdk(s)' <=> Sdk(s))
    BY <1>3, SameSetup
  <2>3. \A s, r : /\ BelongsToProject(s, r)' <=> BelongsToProject(s, r)
                  /\ Visible(s, r)' <=> Visible(s, r)
    BY <1>3, SameSetup
  <2>4. cloud' \ Late \subseteq cloud \ Late
    BY CloudShrinks
  <2>5. \A s : Expected(s)' \subseteq Expected(s)
    BY <2>1, <2>2, <2>3, <2>4 DEF Expected
  <2>6. \A s, t : Excused(s, t) => Excused(s, t)'
    BY <2>1, ExcusedStays
  <2>7. QED BY <2>1, <2>5, <2>6 DEF ClosedComplete
<1>4. QED BY <1>1, <1>2, <1>3, StepCases

\* What holds of the resources in every state.
CompleteInv == /\ BaseInv /\ CloudInv /\ DirectComplete /\ KnownComplete /\ RequestComplete
               /\ ClosedComplete /\ ClientInv

LEMMA CompleteInit == Init => CompleteInv
<1>1. Init => ClientInv /\ KnownComplete /\ RequestComplete /\ ClosedComplete
  BY DEF Init, ClientInv, KnownComplete, RequestComplete, ClosedComplete, Listing, Collecting
<1>2. QED BY <1>1, BaseInit, CloudInit, DefaultInit DEF CompleteInv

\* A report is complete or says where it is not: what the project had all along
\* and its services show is listed, below other resources and after any number
\* of passes, or an error names its type, its service or its missing client.
THEOREM AlwaysCompleteOrReported == Spec => []CompleteOrReported
<1>1. Init => CompleteInv
  BY CompleteInit
<1>2. CompleteInv /\ [Next]_vars => CompleteInv'
  BY BaseStep, CloudStep, DirectCompleteStep, CompleteStep, ClosedCompleteStep, ClientStep
     DEF CompleteInv
<1>3. CompleteInv => CompleteOrReported
  <2>1. SUFFICES ASSUME CompleteInv, pc = "done" PROVE CompleteOrReported
    BY DEF CompleteOrReported
  <2>2. Closed = Elements(providers) /\ pc \in Listing
    BY <2>1, EmptyFacts DEF CompleteInv, BaseInv, QueueInv, Closed, Listing
  <2>3. \A s \in Elements(providers) : \A r \in Expected(s) :
            r \in listed \/ Excused(s, Info[r].type) \/ Info[r].type \in dropped
    BY <2>1, <2>2 DEF CompleteInv, ClosedComplete
  <2>4. \A e \in endpoints : kind[e.service] = "none" => <<e.service, "(client)">> \in errors
    BY <2>1, <2>2 DEF CompleteInv, ClientInv
  <2>5. QED BY <2>3, <2>4 DEF CompleteOrReported
<1>4. QED BY <1>1, <1>2, <1>3, PTL DEF Spec

=============================================================================
