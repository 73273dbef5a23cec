----------------------------- MODULE MongoConfig -----------------------------
(* MongoConfigurationManager and the base configuration of service.py, as    *)
(* operators.  A set of options is a tree, kept as the function from the     *)
(* paths of its leaves to their values; an empty dict is no leaf.            *)
EXTENDS Naturals, Sequences

Empty == << >>

\* One of two paths leads through the other.
Related(p, q) ==
    \/ Len(p) <= Len(q) /\ SubSeq(q, 1, Len(p)) = p
    \/ Len(q) <= Len(p) /\ SubSeq(p, 1, Len(q)) = q

\* target[key] = value, where value is a leaf or a whole dict: what was on the
\* way to the key or below it is gone.
Put(tree, key, value) ==
    LET kept == {q \in DOMAIN tree : ~Related(key, q)}
        new == {key \o p : p \in DOMAIN value}
    IN  [q \in kept \cup new |->
           IF q \in new THEN value[SubSeq(q, Len(key) + 1, Len(q))] ELSE tree[q]]

\* mutant: what is there already wins
MergeKeeping(target, source) ==
    [q \in DOMAIN target \cup DOMAIN source |->
        IF q \in DOMAIN target THEN target[q] ELSE source[q]]

\* _merge: dicts are merged, anything else replaces what it meets.
Merge(target, source) ==
    LET kept == {q \in DOMAIN target : \A p \in DOMAIN source : ~Related(p, q)}
    IN  [q \in kept \cup DOMAIN source |->
           IF q \in DOMAIN source THEN source[q] ELSE target[q]]

\* A list of options: what yaml or Trove hands over, keys split at their dots.
\* A component may itself hold dots: the keys of a dict that is the value of a
\* dotted key are not split.
Path == Seq(STRING)
IsOptionList(options) ==
    /\ Len(options) \in Nat /\ DOMAIN options = 1 .. Len(options)
    /\ \A k \in DOMAIN options : options[k].key \in Path /\ DOMAIN options[k].value \subseteq Path

\* _normalize: the options in the order they are given, dotted keys split.
Normalize(options) ==
    LET tree[i \in 0 .. Len(options)] ==
          IF i = 0 THEN Empty ELSE Put(tree[i - 1], options[i].key, options[i].value)
    IN  tree[Len(options)]

\* Options that MongoDB 8 rejects, with the subtrees below them.
Obsolete(p, value) ==
    \/ Related(<<"storage", "mmapv1">>, p) /\ Len(p) >= 2
    \/ Related(<<"storage", "journal", "enabled">>, p) /\ Len(p) >= 3
    \/ p = <<"systemLog", "destination">> /\ value = "stderr"

\* mutant: the journal switch stays
SanitizeStorageOnly(tree) ==
    LET kept == {q \in DOMAIN tree : ~Related(<<"storage", "mmapv1">>, q)}
    IN  [q \in kept |-> tree[q]]

Sanitize(tree) ==
    LET kept == {q \in DOMAIN tree : ~Obsolete(q, tree[q])}
    IN  [q \in kept |-> tree[q]]

normalize(options) == Sanitize(Normalize(options))

\* cacheSizeGB in units of 1/512000 GB: a quarter of the memory, at least
\* 0.256 GB, at most 2 GB.
MinCache == 131072
MaxCache == 1024000
CacheSize(memory) ==
    LET quarter == 125 * memory
    IN  IF quarter < MinCache THEN MinCache ELSE IF quarter > MaxCache THEN MaxCache ELSE quarter

CachePath == <<"storage", "wiredTiger", "engineConfig", "cacheSizeGB">>
DbPath == <<"storage", "dbPath">>

\* _configuration_contents: the guest's own settings under the user's.
ConfigurationContents(options, memory) ==
    LET own == IF memory > 0
               THEN [p \in {DbPath, CachePath} |->
                       IF p = DbPath THEN "data" ELSE CacheSize(memory)]
               ELSE [p \in {DbPath} |-> "data"]
    IN  Merge(own, normalize(options))

-----------------------------------------------------------------------------
(* Reference: the value that a list of options gives to a path is that of    *)
(* its last entry that reaches the path, unless a later entry replaces a     *)
(* dict on the way to it.                                                    *)
Leaves(entry) == {entry.key \o leaf : leaf \in DOMAIN entry.value}
Reaches(options, p) ==
    {k \in DOMAIN options :
        /\ p \in Leaves(options[k])
        /\ \A l \in DOMAIN options : l > k => ~Related(options[l].key, p)}
Reached(options) ==
    {p \in UNION {Leaves(options[k]) : k \in DOMAIN options} : Reaches(options, p) # {}}
Given(options, p) ==
    LET k == CHOOSE k \in Reaches(options, p) : TRUE
    IN  options[k].value[SubSeq(p, Len(options[k].key) + 1, Len(p))]
=============================================================================
