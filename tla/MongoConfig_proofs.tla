------------------------- MODULE MongoConfig_proofs -------------------------
(* What the operators of MongoConfig compute, for every list of options and  *)
(* every tree.  _normalize is a loop over the options; its result is         *)
(* characterised by induction on the number of options handled, which the    *)
(* least-element property of the natural numbers provides.                   *)
EXTENDS MongoConfig, WellFoundedInduction, TLAPS

-----------------------------------------------------------------------------
(* Induction.                                                                *)

\* Every nonempty set of natural numbers has a least element.
LEMMA Least ==
    ASSUME NEW T, T \subseteq Nat, T # {}
    PROVE  \E n \in T : \A m \in T : n <= m
<1> DEFINE R == OpToRel(<, Nat)
<1>1. IsWellFoundedOn(R, Nat)
  BY NatLessThanWellFounded
<1>2. \A m, n \in Nat : <<m, n>> \in R <=> m < n
  BY DEF OpToRel
<1> HIDE DEF R
<1>3. PICK n \in T : \A m \in T : ~(<<m, n>> \in R)
  BY <1>1, WFMin
<1>4. ASSUME NEW m \in T PROVE n <= m
  <2>1. m \in Nat /\ n \in Nat
    OBVIOUS
  <2>2. ~(m < n)
    BY <1>2, <1>3, <2>1
  <2>3. QED BY <2>1, <2>2
<1>5. QED BY <1>4

\* A set that has 0 and the successor of each of its numbers has them all.
LEMMA Induct ==
    ASSUME NEW S, 0 \in S, \A n \in Nat : n \in S => n + 1 \in S
    PROVE  Nat \subseteq S
<1> SUFFICES ASSUME Nat \ S # {} PROVE FALSE
  OBVIOUS
<1>1. PICK n \in Nat \ S : \A m \in Nat \ S : n <= m
  BY Least
<1>2. n # 0 /\ n - 1 \in Nat
  BY <1>1
<1>3. n - 1 \in S
  BY <1>1, <1>2
<1>4. QED BY <1>1, <1>2, <1>3

-----------------------------------------------------------------------------
(* One assignment and one merge.                                             *)

LEMMA RelatedSymmetric ==
    ASSUME NEW p, NEW q
    PROVE  Related(p, q) <=> Related(q, p)
  BY DEF Related

LEMMA RelatedBelow ==
    ASSUME NEW key \in Path, NEW p \in Path
    PROVE  Related(key, key \o p)
<1>1. Len(key) <= Len(key \o p) /\ SubSeq(key \o p, 1, Len(key)) = key
  BY DEF Path
<1>2. QED BY <1>1 DEF Related

\* target[key] = value keeps what is unrelated to the key and has the leaves
\* of the value below it.
LEMMA PutGives ==
    ASSUME NEW tree, NEW entry, entry.key \in Path, DOMAIN entry.value \subseteq Path,
           NEW p
    PROVE  LET t == Put(tree, entry.key, entry.value) IN
           /\ p \in DOMAIN t <=> \/ p \in Leaves(entry)
                                 \/ (p \in DOMAIN tree /\ ~Related(entry.key, p))
           /\ p \in Leaves(entry) =>
                /\ Related(entry.key, p)
                /\ t[p] = entry.value[SubSeq(p, Len(entry.key) + 1, Len(p))]
           /\ (p \in DOMAIN tree /\ ~Related(entry.key, p)) => t[p] = tree[p]
<1> DEFINE key == entry.key
           value == entry.value
           kept == {q \in DOMAIN tree : ~Related(key, q)}
           new == {key \o l : l \in DOMAIN value}
           t == Put(tree, key, value)
<1>1. new = Leaves(entry) /\ \A q \in new : Related(key, q)
  BY RelatedBelow DEF Leaves
<1>2. t = [q \in kept \cup new |->
             IF q \in new THEN value[SubSeq(q, Len(key) + 1, Len(q))] ELSE tree[q]]
  BY DEF Put
<1> HIDE DEF key, value, new, t
<1>3. QED BY <1>1, <1>2 DEF key, value, t

LEMMA MergeGives ==
    ASSUME NEW target, NEW source, NEW p
    PROVE  LET t == Merge(target, source) IN
           /\ p \in DOMAIN t <=> \/ p \in DOMAIN source
                                 \/ (p \in DOMAIN target /\ \A q \in DOMAIN source : ~Related(q, p))
           /\ p \in DOMAIN source => t[p] = source[p]
           /\ (p \in DOMAIN t /\ p \notin DOMAIN source) => p \in DOMAIN target /\ t[p] = target[p]
  BY DEF Merge

LEMMA SanitizeGives ==
    ASSUME NEW tree, NEW p
    PROVE  LET t == Sanitize(tree) IN
           /\ p \in DOMAIN t <=> p \in DOMAIN tree /\ ~Obsolete(p, tree[p])
           /\ p \in DOMAIN t => t[p] = tree[p]
  BY DEF Sanitize

-----------------------------------------------------------------------------
(* The loop of _normalize.                                                   *)

\* The recursive function exists: f[i] is the tree after i options.
LEMMA NormalizeTree ==
    ASSUME NEW options, Len(options) \in Nat
    PROVE  \E f : /\ f = [i \in 0 .. Len(options) |->
                            IF i = 0 THEN Empty
                            ELSE Put(f[i - 1], options[i].key, options[i].value)]
                  /\ Normalize(options) = f[Len(options)]
<1> DEFINE Body(f, n) == [i \in 0 .. n |-> IF i = 0 THEN Empty
                            ELSE Put(f[i - 1], options[i].key, options[i].value)]
           Good == {n \in Nat : \E f : f = Body(f, n)}
<1>1. 0 \in Good
  <2>1. [i \in 0 .. 0 |-> Empty] = Body([i \in 0 .. 0 |-> Empty], 0)
    OBVIOUS
  <2>2. QED BY <2>1
<1>2. ASSUME NEW n \in Nat, n \in Good PROVE n + 1 \in Good
  <2>1. PICK f : f = Body(f, n)
    BY <1>2
  <2> DEFINE g == [i \in 0 .. n + 1 |->
                     IF i = n + 1 THEN Put(f[n], options[n + 1].key, options[n + 1].value)
                     ELSE f[i]]
  <2>2. g = Body(g, n + 1)
    <3>1. ASSUME NEW i \in 0 .. n + 1 PROVE g[i] = Body(g, n + 1)[i]
      <4>1. CASE i = n + 1
        BY <4>1
      <4>2. CASE i = 0
        BY <4>2, <2>1
      <4>3. CASE i \in 1 .. n
        <5>1. g[i] = f[i] /\ g[i - 1] = f[i - 1]
          BY <4>3
        <5>2. f[i] = Put(f[i - 1], options[i].key, options[i].value)
          BY <4>3, <2>1
        <5>3. QED BY <4>3, <5>1, <5>2
      <4>4. QED BY <4>1, <4>2, <4>3
    <3>2. QED BY <3>1
  <2>3. \E h : h = Body(h, n + 1)
    <3> HIDE DEF g, Body
    <3>1. QED BY <2>2
  <2>4. n + 1 \in Nat
    OBVIOUS
  <2> HIDE DEF Body
  <2>5. QED BY <2>3, <2>4
<1>3. Len(options) \in Good
  BY <1>1, <1>2, Induct
<1>4. PICK h : h = Body(h, Len(options))
  BY <1>3
<1>5. QED BY <1>4 DEF Normalize

\* After n options: the entries that give a path its value.
ReachesIn(options, n, p) ==
    {k \in 1 .. n : /\ p \in Leaves(options[k])
                    /\ \A l \in 1 .. n : l > k => ~Related(options[l].key, p)}

At(options, k, p) == options[k].value[SubSeq(p, Len(options[k].key) + 1, Len(p))]

\* One more option: it gives the paths below its key their values, and takes
\* every other related path away.
LEMMA ReachesStep ==
    ASSUME NEW options, IsOptionList(options), NEW n \in Nat, n + 1 <= Len(options), NEW p
    PROVE  LET e == options[n + 1] IN
           /\ p \in Leaves(e) => ReachesIn(options, n + 1, p) = {n + 1}
           /\ p \notin Leaves(e) =>
                ReachesIn(options, n + 1, p) =
                    IF Related(e.key, p) THEN {} ELSE ReachesIn(options, n, p)
<1>1. n + 1 \in DOMAIN options
  BY DEF IsOptionList
<1>2. options[n + 1].key \in Path /\ DOMAIN options[n + 1].value \subseteq Path
  BY <1>1 DEF IsOptionList
<1>3. p \in Leaves(options[n + 1]) => Related(options[n + 1].key, p)
  BY <1>2, RelatedBelow DEF Leaves
<1>4. 1 .. n + 1 = 1 .. n \cup {n + 1} /\ \A k \in 1 .. n : n + 1 > k /\ ~(k > n + 1)
  OBVIOUS
<1>5. ~(n + 1 > n + 1)
  OBVIOUS
<1>6. QED BY <1>3, <1>4, <1>5 DEF ReachesIn

\* The options _normalize leaves in its tree are those of the reference
\* definition, with its values, for every list of options.
THEOREM NormalizeIsReference ==
    ASSUME NEW options, IsOptionList(options), NEW p
    PROVE  /\ p \in DOMAIN Normalize(options) <=> Reaches(options, p) # {}
           /\ p \in DOMAIN Normalize(options) => Normalize(options)[p] = Given(options, p)
<1> DEFINE N == Len(options)
<1>0. N \in Nat /\ DOMAIN options = 1 .. N
  BY DEF IsOptionList
<1>1. PICK f : /\ f = [i \in 0 .. N |-> IF i = 0 THEN Empty
                         ELSE Put(f[i - 1], options[i].key, options[i].value)]
               /\ Normalize(options) = f[N]
  BY <1>0, NormalizeTree
<1> HIDE DEF N
<1> DEFINE Right(n) == /\ p \in DOMAIN f[n] <=> ReachesIn(options, n, p) # {}
                       /\ \A k \in ReachesIn(options, n, p) : f[n][p] = At(options, k, p)
           Good == {n \in Nat : n <= N => Right(n)}
<1>2. 0 \in Good
  <2>1. f[0] = Empty /\ DOMAIN Empty = {}
    BY <1>0, <1>1 DEF Empty
  <2>2. ReachesIn(options, 0, p) = {}
    BY DEF ReachesIn
  <2>3. Right(0)
    BY <2>1, <2>2
  <2> HIDE DEF Right
  <2>4. QED BY <2>3
<1>3. ASSUME NEW n \in Nat, n \in Good PROVE n + 1 \in Good
  <2>1. SUFFICES ASSUME n + 1 <= N PROVE Right(n + 1)
    OBVIOUS
  <2>a. PICK e : e = options[n + 1]
    OBVIOUS
  <2>2. n <= N /\ Right(n)
    BY <1>0, <1>3, <2>1
  <2>3. f[n + 1] = Put(f[n], e.key, e.value)
    BY <1>0, <1>1, <2>1, <2>a
  <2>4. e.key \in Path /\ DOMAIN e.value \subseteq Path
    BY <1>0, <2>1, <2>a DEF IsOptionList
  <2>5. /\ p \in DOMAIN f[n + 1] <=> \/ p \in Leaves(e)
                                     \/ (p \in DOMAIN f[n] /\ ~Related(e.key, p))
        /\ p \in Leaves(e) => /\ Related(e.key, p)
                              /\ f[n + 1][p] = At(options, n + 1, p)
        /\ (p \in DOMAIN f[n] /\ ~Related(e.key, p)) => f[n + 1][p] = f[n][p]
    <3>1. PICK u : u = Put(f[n], e.key, e.value)
      OBVIOUS
    <3>2. /\ p \in DOMAIN u <=> \/ p \in Leaves(e)
                                \/ (p \in DOMAIN f[n] /\ ~Related(e.key, p))
          /\ p \in Leaves(e) => /\ Related(e.key, p)
                                /\ u[p] = e.value[SubSeq(p, Len(e.key) + 1, Len(p))]
          /\ (p \in DOMAIN f[n] /\ ~Related(e.key, p)) => u[p] = f[n][p]
      BY <2>4, <3>1, PutGives
    <3>3. f[n + 1] = u
      BY <2>3, <3>1
    <3>4. At(options, n + 1, p) = e.value[SubSeq(p, Len(e.key) + 1, Len(p))]
      BY <2>a DEF At
    <3>5. QED BY <3>2, <3>3, <3>4
  <2>6. /\ p \in Leaves(e) => ReachesIn(options, n + 1, p) = {n + 1}
        /\ p \notin Leaves(e) =>
             ReachesIn(options, n + 1, p) =
                 IF Related(e.key, p) THEN {} ELSE ReachesIn(options, n, p)
    BY <2>1, <2>a, ReachesStep DEF N
  <2>7. CASE p \in Leaves(e)
    BY <2>5, <2>6, <2>7
  <2>8. CASE p \notin Leaves(e)
    BY <2>2, <2>5, <2>6, <2>8
  <2>9. QED BY <2>7, <2>8
<1>4. Right(N)
  <2> HIDE DEF Right
  <2>1. N \in Good
    BY <1>0, <1>2, <1>3, Induct
  <2>2. QED BY <1>0, <2>1
<1>5. ReachesIn(options, N, p) = Reaches(options, p)
  BY <1>0 DEF ReachesIn, Reaches
<1>6. Reaches(options, p) # {} =>
        \E k \in Reaches(options, p) : Given(options, p) = At(options, k, p)
  <2> DEFINE k == CHOOSE k \in Reaches(options, p) : TRUE
  <2>1. Reaches(options, p) # {} => k \in Reaches(options, p)
    OBVIOUS
  <2>2. Given(options, p) = At(options, k, p)
    BY DEF Given, At
  <2> HIDE DEF k
  <2>3. QED BY <2>1, <2>2
<1>7. QED BY <1>1, <1>4, <1>5, <1>6

LEMMA ReachedIsReaches ==
    ASSUME NEW options, NEW p
    PROVE  p \in Reached(options) <=> Reaches(options, p) # {}
<1>1. ASSUME NEW k \in Reaches(options, p) PROVE k \in DOMAIN options /\ p \in Leaves(options[k])
  BY DEF Reaches
<1>2. QED BY <1>1 DEF Reached

\* What the manager writes for a list of options: the paths of the reference
\* definition that MongoDB 8 accepts, with its values.
THEOREM ManagerNormalizes ==
    ASSUME NEW options, IsOptionList(options), NEW p
    PROVE  /\ p \in DOMAIN normalize(options) <=>
                p \in Reached(options) /\ ~Obsolete(p, Given(options, p))
           /\ p \in DOMAIN normalize(options) => normalize(options)[p] = Given(options, p)
  BY NormalizeIsReference, ReachedIsReaches, SanitizeGives DEF normalize

-----------------------------------------------------------------------------
(* The base configuration.                                                   *)

LEMMA RelatedAgree ==
    ASSUME NEW S, NEW p \in Seq(S), NEW q \in Seq(S), Related(p, q),
           NEW i \in Nat, 1 <= i, i <= Len(p), i <= Len(q)
    PROVE  p[i] = q[i]
<1>1. CASE Len(p) <= Len(q) /\ SubSeq(q, 1, Len(p)) = p
  BY <1>1
<1>2. CASE Len(q) <= Len(p) /\ SubSeq(p, 1, Len(q)) = q
  BY <1>2
<1>3. QED BY <1>1, <1>2 DEF Related

\* The guest's own settings are none of the rejected ones.
LEMMA OwnAccepted ==
    ASSUME NEW v
    PROVE  ~Obsolete(DbPath, v) /\ ~Obsolete(CachePath, v)
<1> DEFINE S == {"storage", "mmapv1", "journal", "enabled", "dbPath", "wiredTiger",
                 "engineConfig", "cacheSizeGB"}
           a == <<"storage", "mmapv1">>
           b == <<"storage", "journal", "enabled">>
<1>1. DbPath \in Seq(S) /\ Len(DbPath) = 2 /\ DbPath[2] = "dbPath"
  BY DEF DbPath
<1>2. CachePath \in Seq(S) /\ Len(CachePath) = 4 /\ CachePath[2] = "wiredTiger"
  BY DEF CachePath
<1>3. a \in Seq(S) /\ b \in Seq(S) /\ Len(a) = 2 /\ Len(b) = 3 /\ a[2] = "mmapv1" /\ b[2] = "journal"
  OBVIOUS
<1>4. DbPath # <<"systemLog", "destination">> /\ CachePath # <<"systemLog", "destination">>
  BY DEF DbPath, CachePath
<1> HIDE DEF S, a, b
<1>5. ASSUME NEW p \in Seq(S), Len(p) >= 2, p[2] \in {"dbPath", "wiredTiger"}
      PROVE  ~Related(a, p) /\ ~Related(b, p)
  <2>1. 2 \in Nat /\ 1 <= 2 /\ 2 <= Len(a) /\ 2 <= Len(b) /\ 2 <= Len(p)
    BY <1>3, <1>5
  <2>2. Related(a, p) => a[2] = p[2]
    BY <1>3, <2>1, RelatedAgree
  <2>3. Related(b, p) => b[2] = p[2]
    BY <1>3, <2>1, RelatedAgree
  <2>4. QED BY <1>3, <1>5, <2>2, <2>3
<1>6. ~Related(a, DbPath) /\ ~Related(b, DbPath)
  BY <1>1, <1>5
<1>7. ~Related(a, CachePath) /\ ~Related(b, CachePath)
  <2>1. Len(CachePath) >= 2
    BY <1>2
  <2>2. QED BY <1>2, <1>5, <2>1
<1>8. QED BY <1>4, <1>6, <1>7 DEF Obsolete, a, b

\* The base configuration of a guest: what its user gave, then the guest's own
\* settings; none is rejected, and the cache size is at least the minimum
\* unless the user gave one.
LEMMA ContentsGive ==
    ASSUME NEW options, IsOptionList(options), NEW memory \in Nat
    PROVE  LET t == ConfigurationContents(options, memory) IN
           /\ \A p \in DOMAIN t : ~Obsolete(p, t[p])
           /\ \A p \in DOMAIN normalize(options) : p \in DOMAIN t /\ t[p] = normalize(options)[p]
           /\ (CachePath \in DOMAIN t /\ CachePath \notin DOMAIN normalize(options))
                => t[CachePath] >= MinCache
<1> DEFINE own == IF memory > 0
                  THEN [p \in {DbPath, CachePath} |->
                          IF p = DbPath THEN "data" ELSE CacheSize(memory)]
                  ELSE [p \in {DbPath} |-> "data"]
           user == normalize(options)
           t == Merge(own, user)
<1>1. CacheSize(memory) \in Nat /\ CacheSize(memory) >= MinCache
  BY DEF CacheSize, MinCache, MaxCache
<1>2. DbPath # CachePath
  BY DEF DbPath, CachePath
<1>4. \A p \in DOMAIN own : ~Obsolete(p, own[p])
  <2>1. ~Obsolete(DbPath, "data") /\ ~Obsolete(CachePath, CacheSize(memory))
    BY OwnAccepted
  <2>2. QED BY <1>2, <2>1
<1>5. CachePath \in DOMAIN own => own[CachePath] >= MinCache
  BY <1>1, <1>2
<1>6. \A p \in DOMAIN user : ~Obsolete(p, user[p])
  BY ManagerNormalizes
<1>7. t = ConfigurationContents(options, memory)
  BY DEF ConfigurationContents
<1> HIDE DEF own, user, t
<1>8. ASSUME NEW p
      PROVE  /\ p \in DOMAIN t => ~Obsolete(p, t[p])
             /\ p \in DOMAIN user => p \in DOMAIN t /\ t[p] = user[p]
             /\ (p \in DOMAIN t /\ p \notin DOMAIN user) => p \in DOMAIN own /\ t[p] = own[p]
  BY <1>4, <1>6, MergeGives DEF t
<1>9. QED BY <1>5, <1>7, <1>8 DEF user

=============================================================================
