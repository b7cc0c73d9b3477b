-------------------------- MODULE ConfigLoadProofs --------------------------
(***************************************************************************)
(* What ConfigLoad guarantees for every file: that it is accepted exactly  *)
(* if it is sound, what it is blamed for if it is not, and that under a    *)
(* Config every shown id finds its provider.                               *)
(***************************************************************************)
EXTENDS ConfigLoad, NamespacingProofs, FiniteSetTheorems

ProviderKeys(f) == {f.providers[i].key : i \in DOMAIN f.providers}

(* A text of KEY_PATTERN's characters.                                     *)
LEMMA Texts ==
  ASSUME NEW A, NEW t \in Seq(Chars), Text(A, t)
  PROVE  t \in Seq(A)
  BY DEF Text

(* Two default prefixes overlap only if their keys are the same: the colon *)
(* that ends one is in no key.                                             *)
LEMMA DefaultsPrefixFree ==
  ASSUME NEW k \in Seq(KeyAlphabet), NEW l \in Seq(KeyAlphabet),
         IsPrefix(Append(k, ":"), Append(l, ":"))
  PROVE  k = l
  <1> DEFINE s == Append(k, ":")
             t == Append(l, ":")
  <1>1. s \in Seq(Chars) /\ Len(s) = Len(k) + 1 /\ s[Len(k) + 1] = ":"
        /\ \A i \in 1..Len(k) : s[i] = k[i]
    BY CharsAssumption
  <1>2. t \in Seq(Chars) /\ Len(t) = Len(l) + 1 /\ t[Len(l) + 1] = ":"
        /\ \A i \in 1..Len(l) : t[i] = l[i]
    BY CharsAssumption
  <1> HIDE DEF s, t
  <1>3. Len(s) <= Len(t) /\ \A i \in 1..Len(s) : s[i] = t[i]
    <2>1. IsPrefix(s, t)
      BY DEF s, t
    <2> QED
      BY <1>1, <1>2, <2>1, PrefixChars
  <1>4. Len(k) = Len(l)
    <2>1. SUFFICES ASSUME Len(k) < Len(l) PROVE FALSE
      BY <1>1, <1>2, <1>3
    <2>2. l[Len(k) + 1] = ":" /\ l[Len(k) + 1] \in KeyAlphabet
      BY <1>1, <1>2, <1>3, <2>1
    <2> QED
      BY <2>2, CharsAssumption
  <1> QED
    BY <1>1, <1>2, <1>3, <1>4

(* What the absence of each kind of fault means.                           *)
LEMMA Firsts == \A S : First(S) = {} <=> S = {}
  BY DEF First

LEMMA FirstIsOne ==
  ASSUME NEW S, S \subseteq Nat, NEW i \in First(S)
  PROVE  i \in S
  <1>1. \E m \in S : \A j \in S : m <= j
    <2>1. S # {}
      BY DEF First
    <2> QED
      BY <2>1, Least
  <1> QED
    BY <1>1 DEF First

LEMMA Merged ==
  ASSUME NEW f, f.customs \in Seq(Custom), MergeFaults(f) = {}
  PROVE  DOMAIN Roots(f) \subseteq Seq(KeyAlphabet)
  <1>1. BadKeys(f) = {}
    <2>1. SUFFICES ASSUME BadKeys(f) # {} PROVE FALSE
      OBVIOUS
    <2>2. PICK i \in First(BadKeys(f)) : TRUE
      BY <2>1, Firsts
    <2>3. <<"custom key", i>> \in MergeFaults(f)
      BY <2>1, <2>2 DEF MergeFaults
    <2> QED
      BY <2>3
  <1>2. ASSUME NEW i \in DOMAIN f.customs PROVE f.customs[i].key \in Seq(KeyAlphabet)
    <2>1. f.customs[i] \in Custom
      OBVIOUS
    <2>2. f.customs[i].key \in Seq(Chars)
      BY <2>1 DEF Custom
    <2>3. Text(KeyAlphabet, f.customs[i].key)
      BY <1>1 DEF BadKeys
    <2> QED
      BY <2>2, <2>3, Texts
  <1>3. DOMAIN Roots(f) = {f.customs[i].key : i \in DOMAIN f.customs} \cup DOMAIN BuiltIn
    BY DEF Roots
  <1> QED
    BY <1>2, <1>3, FilesAssumption

LEMMA Keyed ==
  ASSUME NEW f, KeyFaults(f) = {}
  PROVE  \A i \in DOMAIN f.providers : f.providers[i].key \in DOMAIN Roots(f)
  <1>1. WrongKeys(f) = {}
    <2>1. SUFFICES ASSUME WrongKeys(f) # {} PROVE FALSE
      OBVIOUS
    <2>2. PICK i \in First(WrongKeys(f)) : TRUE
      BY <2>1, Firsts
    <2>3. <<IF f.providers[i].key \in DOMAIN Roots(f) THEN "twice" ELSE "unknown", i>>
              \in KeyFaults(f)
      BY <2>2 DEF KeyFaults
    <2> QED
      BY <2>3
  <1> QED
    BY <1>1 DEF WrongKeys

LEMMA Pair == \A a, b : <<a, b>>[1] = a /\ <<a, b>>[2] = b
  OBVIOUS

(* What each kind of fault says of the file.                               *)
LEMMA KeyFaultsAreReal ==
  ASSUME NEW f, NEW x \in KeyFaults(f)
  PROVE  /\ x[1] \in {"twice", "unknown"}
         /\ x[1] = "unknown" => f.providers[x[2]].key \notin DOMAIN Roots(f)
  BY DEF KeyFaults

LEMMA MergeFaultsAreReal ==
  ASSUME NEW f, NEW x \in MergeFaults(f)
  PROVE  x[1] \in {"custom key", "taken"}
  <1>1. (\E i : x = <<"custom key", i>>) \/ (\E i : x = <<"taken", i>>)
    BY Zenon DEF MergeFaults
  <1>2. CASE \E i : x = <<"custom key", i>>
    BY <1>2, Zenon, Pair
  <1>3. CASE \E i : x = <<"taken", i>>
    BY <1>3, Zenon, Pair
  <1> QED
    BY <1>1, <1>2, <1>3

LEMMA PrefixFaultsAreReal ==
  ASSUME NEW f, NEW pre, NEW x \in PrefixFaults(f, pre)
  PROVE  /\ x[1] \in {"blanks", "overlap"}
         /\ x[1] = "overlap" => x[2] \in Overlaps(pre)
  BY DEF PrefixFaults, Blanks

LEMMA FieldFaultsAreReal ==
  ASSUME NEW f, NEW x \in FieldFaults(f)
  PROVE  /\ x[1] \in {"base_url", "no providers", "prefix", "root"}
         /\ x[1] = "prefix" => f.providers[x[2]].prefix # None
  <1>1. \/ x = <<"base_url", 0>> \/ x = <<"no providers", 0>>
        \/ \E i : x = <<"prefix", i>> /\ f.providers[i].prefix # None
        \/ \E i : x = <<"root", i>>
    BY Zenon DEF FieldFaults
  <1>2. \/ x[1] \in {"base_url", "no providers", "root"}
        \/ x[1] = "prefix" /\ f.providers[x[2]].prefix # None
    <2>1. CASE x = <<"base_url", 0>> \/ x = <<"no providers", 0>>
      BY <2>1, Pair, Zenon
    <2>2. CASE \E i : x = <<"prefix", i>> /\ f.providers[i].prefix # None
      BY <2>2
    <2>3. CASE \E i : x = <<"root", i>>
      BY <2>3, Pair, Zenon
    <2> QED
      BY <1>1, <2>1, <2>2, <2>3
  <1> QED
    BY <1>2

LEMMA Unambiguous ==
  ASSUME NEW f, NEW pre, PrefixFaults(f, pre) = {}, IsFiniteSet(DOMAIN pre)
  PROVE  PrefixesOK(pre, f.allow)
  <1>1. IsFiniteSet(Blank(pre))
    BY FS_Subset DEF Blank
  <1>2. ASSUME Cardinality(Blank(pre)) > 1, ~f.allow PROVE FALSE
    <2>1. Blanks(pre) = {}
      BY <1>2 DEF PrefixFaults
    <2>2. Blank(pre) = {}
      BY <2>1 DEF Blanks
    <2> QED
      BY <1>2, <2>2, FS_EmptySet
  <1>3. ASSUME ~f.allow, NEW p \in Blank(pre), NEW q \in Blank(pre) PROVE p = q
    <2>1. Cardinality(Blank(pre)) \in Nat /\ Cardinality(Blank(pre)) <= 1
      BY <1>1, <1>2, <1>3, FS_CardinalityType
    <2>2. ASSUME p # q PROVE FALSE
      <3>1. IsFiniteSet({p}) /\ Cardinality({p}) = 1
        BY FS_Singleton
      <3>2. Cardinality({p} \cup {q}) = 2
        <4>1. \A T, e : IsFiniteSet(T) /\ e \notin T => Cardinality(T \cup {e}) = Cardinality(T) + 1
          BY FS_AddElement
        <4>2. q \notin {p}
          BY <2>2
        <4>3. Cardinality({p} \cup {q}) = Cardinality({p}) + 1
          BY <3>1, <4>1, <4>2, Zenon
        <4> QED
          BY <3>1, <4>3
      <3>3. Cardinality({p} \cup {q}) <= Cardinality(Blank(pre))
        BY <1>1, FS_Subset
      <3> QED
        BY <2>1, <3>2, <3>3
    <2> QED
      BY <2>2
  <1>4. \A o \in Overlaps(pre) : FALSE
    <2>1. TAKE o \in Overlaps(pre)
    <2>2. <<"overlap", o>> \in PrefixFaults(f, pre)
      BY <1>2 DEF PrefixFaults
    <2> QED
      BY <2>2
  <1>5. ASSUME NEW p \in Named(pre), NEW q \in Named(pre), p # q
        PROVE  ~IsPrefix(pre[p], pre[q])
    <2>1. <<p, q>> \in Named(pre) \X Named(pre) /\ <<p, q>>[1] = p /\ <<p, q>>[2] = q
      OBVIOUS
    <2> QED
      BY <1>4, <1>5, <2>1 DEF Overlaps
  <1> QED
    BY <1>3, <1>5 DEF PrefixesOK

-----------------------------------------------------------------------------
(* The prefixes a Config is built with, and the entry one of them is from. *)
BuiltPrefixes(f) ==
    [k \in ProviderKeys(f) |-> Resolved(f.providers[CHOOSE i \in DOMAIN f.providers :
                                                          f.providers[i].key = k])]

LEMMA FromAnEntry ==
  ASSUME NEW f, NEW k \in ProviderKeys(f)
  PROVE  \E i \in DOMAIN f.providers :
            f.providers[i].key = k /\ BuiltPrefixes(f)[k] = Resolved(f.providers[i])
  <1> DEFINE i == CHOOSE i \in DOMAIN f.providers : f.providers[i].key = k
  <1>1. i \in DOMAIN f.providers /\ f.providers[i].key = k
    BY DEF ProviderKeys
  <1>2. BuiltPrefixes(f)[k] = Resolved(f.providers[i])
    BY DEF BuiltPrefixes
  <1> QED
    BY <1>1, <1>2

LEMMA ResolvedType ==
  ASSUME NEW e \in Entry
  PROVE  /\ e.key \in Seq(Chars)
         /\ Resolved(e) \in Seq(Chars)
         /\ e.prefix = None => Resolved(e) = Append(e.key, ":")
  <1>1. e.key \in Seq(Chars) /\ e.prefix \in Seq(Chars) \cup {None}
    BY DEF Entry
  <1>2. ":" \in Chars
    BY CharsAssumption
  <1>3. Append(e.key, ":") \in Seq(Chars)
    BY <1>1, <1>2
  <1>4. CASE e.prefix = None
    BY <1>1, <1>3, <1>4 DEF Resolved
  <1>5. CASE e.prefix # None
    BY <1>1, <1>5 DEF Resolved
  <1> QED
    BY <1>4, <1>5

LEMMA PrefixesType ==
  ASSUME NEW f, f.providers \in Seq(Entry)
  PROVE  /\ BuiltPrefixes(f) \in [ProviderKeys(f) -> Seq(Chars)]
         /\ IsFiniteSet(DOMAIN BuiltPrefixes(f))
  <1>1. ASSUME NEW k \in ProviderKeys(f) PROVE BuiltPrefixes(f)[k] \in Seq(Chars)
    <2>1. PICK i \in DOMAIN f.providers : BuiltPrefixes(f)[k] = Resolved(f.providers[i])
      BY FromAnEntry
    <2>2. f.providers[i] \in Entry
      OBVIOUS
    <2> QED
      BY <2>1, <2>2, ResolvedType
  <1>2. BuiltPrefixes(f) \in [ProviderKeys(f) -> Seq(Chars)]
    BY <1>1 DEF BuiltPrefixes
  <1>3. IsFiniteSet(ProviderKeys(f))
    <2>1. IsFiniteSet(1..Len(f.providers))
      BY FS_Interval
    <2>2. DOMAIN f.providers = 1..Len(f.providers)
      OBVIOUS
    <2>3. IsFiniteSet(DOMAIN f.providers)
      BY <2>1, <2>2
    <2> DEFINE g == [i \in DOMAIN f.providers |-> f.providers[i].key]
    <2>4. g \in [DOMAIN f.providers -> ProviderKeys(f)]
      BY DEF ProviderKeys
    <2>5. \A k \in ProviderKeys(f) : \E i \in DOMAIN f.providers : g[i] = k
      BY DEF ProviderKeys
    <2>6. g \in Surjection(DOMAIN f.providers, ProviderKeys(f))
      BY <2>4, <2>5 DEF Surjection
    <2> QED
      BY <2>3, <2>6, FS_Surjection
  <1>4. DOMAIN BuiltPrefixes(f) = ProviderKeys(f)
    BY DEF BuiltPrefixes
  <1> QED
    BY <1>2, <1>3, <1>4

(* With the merge and the keys in order, a prefix nobody wrote is neither  *)
(* malformed,                                                              *)
LEMMA DefaultIsText ==
  ASSUME NEW f, f.providers \in Seq(Entry), f.customs \in Seq(Custom),
         MergeFaults(f) = {}, KeyFaults(f) = {},
         NEW i \in DOMAIN f.providers, f.providers[i].prefix = None
  PROVE  /\ f.providers[i].key \in Seq(KeyAlphabet)
         /\ Text(PrefixAlphabet, Resolved(f.providers[i]))
  <1>1. f.providers[i] \in Entry
    OBVIOUS
  <1>2. f.providers[i].key \in Seq(KeyAlphabet)
    BY Merged, Keyed
  <1> DEFINE k == f.providers[i].key
  <1>3. Resolved(f.providers[i]) = Append(k, ":")
    BY <1>1, ResolvedType
  <1> HIDE DEF k
  <1>4. Text(PrefixAlphabet, Append(k, ":"))
    <2>1. k \in Seq(KeyAlphabet)
      BY <1>2 DEF k
    <2> QED
      BY <2>1, CharsAssumption DEF Text
  <1> QED
    BY <1>2, <1>3, <1>4

LEMMA ProviderFaultsAreReal ==
  ASSUME NEW f, f.providers \in Seq(Entry), f.customs \in Seq(Custom),
         \/ MergeFaults(f) = {} /\ KeyFaults(f) = {}
         \/ \A i \in DOMAIN f.providers : f.providers[i].prefix # None,
         NEW x \in ProviderFaults(f)
  PROVE  x[1] = "prefix" /\ f.providers[x[2]].prefix # None
  <1> DEFINE S == {j \in DOMAIN f.providers : ~Text(PrefixAlphabet, Resolved(f.providers[j]))}
  <1> HIDE DEF S
  <1>2. PICK i \in First(S) : x = <<"prefix", i>>
    BY DEF ProviderFaults, S
  <1>3. i \in DOMAIN f.providers /\ ~Text(PrefixAlphabet, Resolved(f.providers[i]))
    <2>1. S \subseteq Nat
      BY DEF S
    <2>2. i \in S
      BY <2>1, FirstIsOne
    <2> QED
      BY <2>2 DEF S
  <1>4. f.providers[i].prefix # None
    BY <1>3, DefaultIsText
  <1> QED
    BY <1>2, <1>4

(* nor overlaps another such.                                              *)
LEMMA OverlapsAreWritten ==
  ASSUME NEW f, f.providers \in Seq(Entry), f.customs \in Seq(Custom),
         MergeFaults(f) = {}, KeyFaults(f) = {},
         NEW o \in Overlaps(BuiltPrefixes(f))
  PROVE  \E i \in DOMAIN f.providers :
             f.providers[i].prefix # None /\ f.providers[i].key \in {o[1], o[2]}
  <1>1. /\ o[1] \in ProviderKeys(f) /\ o[2] \in ProviderKeys(f) /\ o[1] # o[2]
        /\ IsPrefix(BuiltPrefixes(f)[o[1]], BuiltPrefixes(f)[o[2]])
    BY DEF Overlaps, Named, BuiltPrefixes
  <1>2. PICK i \in DOMAIN f.providers :
            f.providers[i].key = o[1] /\ BuiltPrefixes(f)[o[1]] = Resolved(f.providers[i])
    BY <1>1, FromAnEntry
  <1>3. PICK j \in DOMAIN f.providers :
            f.providers[j].key = o[2] /\ BuiltPrefixes(f)[o[2]] = Resolved(f.providers[j])
    BY <1>1, FromAnEntry
  <1>4. CASE f.providers[i].prefix # None
    BY <1>2, <1>4
  <1>5. CASE f.providers[j].prefix # None
    BY <1>3, <1>5
  <1>6. CASE f.providers[i].prefix = None /\ f.providers[j].prefix = None
    <2>1. f.providers[i] \in Entry /\ f.providers[j] \in Entry
      OBVIOUS
    <2>2. o[1] \in Seq(KeyAlphabet) /\ o[2] \in Seq(KeyAlphabet)
      BY <1>2, <1>3, <1>6, DefaultIsText
    <2>3. BuiltPrefixes(f)[o[1]] = Append(o[1], ":") /\ BuiltPrefixes(f)[o[2]] = Append(o[2], ":")
      BY <1>2, <1>3, <1>6, <2>1, ResolvedType
    <2> QED
      BY <1>1, <2>2, <2>3, DefaultsPrefixFree
  <1> QED
    BY <1>4, <1>5, <1>6

-----------------------------------------------------------------------------
(* A file is sound exactly if none of the checks faults it: what each of   *)
(* them finds nothing wrong with, told without the check.                  *)
LEMMA NoFieldFaults ==
  ASSUME NEW f
  PROVE  FieldFaults(f) = {} <=>
             /\ BaseUrlOK(f.base) /\ f.providers # << >>
             /\ \A i \in DOMAIN f.providers :
                    f.providers[i].prefix = None \/ Text(PrefixAlphabet, f.providers[i].prefix)
             /\ \A i \in DOMAIN f.customs : f.customs[i].root \in GoodRoots
  <1> DEFINE P == {j \in DOMAIN f.providers :
                       f.providers[j].prefix # None /\ ~Text(PrefixAlphabet, f.providers[j].prefix)}
             R == {j \in DOMAIN f.customs : f.customs[j].root \notin GoodRoots}
             B == IF BaseUrlOK(f.base) THEN {} ELSE {<<"base_url", 0>>}
             N == IF f.providers = << >> THEN {<<"no providers", 0>>} ELSE {}
  <1>1. FieldFaults(f) = B \cup N \cup {<<"prefix", i>> : i \in P} \cup {<<"root", i>> : i \in R}
    BY DEF FieldFaults
  <1>2. B = {} <=> BaseUrlOK(f.base)
    OBVIOUS
  <1>3. N = {} <=> f.providers # << >>
    OBVIOUS
  <1> HIDE DEF P, R, B, N
  <1>4. {<<"prefix", i>> : i \in P} = {} <=> P = {}
    OBVIOUS
  <1>5. {<<"root", i>> : i \in R} = {} <=> R = {}
    OBVIOUS
  <1>6. P = {} <=> \A i \in DOMAIN f.providers :
                       f.providers[i].prefix = None \/ Text(PrefixAlphabet, f.providers[i].prefix)
    BY DEF P
  <1>7. R = {} <=> \A i \in DOMAIN f.customs : f.customs[i].root \in GoodRoots
    BY DEF R
  <1>8. FieldFaults(f) = {} <=> B = {} /\ N = {} /\ P = {} /\ R = {}
    BY <1>1, <1>4, <1>5
  <1> QED
    BY <1>2, <1>3, <1>6, <1>7, <1>8

LEMMA NoMergeFaults ==
  ASSUME NEW f
  PROVE  MergeFaults(f) = {} <=> BadKeys(f) = {} /\ TakenKeys(f) = {}
  <1>1. CASE BadKeys(f) # {}
    <2>1. PICK i \in First(BadKeys(f)) : TRUE
      BY <1>1, Firsts
    <2>2. <<"custom key", i>> \in MergeFaults(f)
      BY <1>1, <2>1 DEF MergeFaults
    <2> QED
      BY <1>1, <2>2
  <1>2. CASE BadKeys(f) = {}
    <2>1. MergeFaults(f) = {<<"taken", i>> : i \in First(TakenKeys(f))}
      BY <1>2 DEF MergeFaults
    <2>2. MergeFaults(f) = {} <=> First(TakenKeys(f)) = {}
      BY <2>1
    <2> QED
      BY <1>2, <2>2, Firsts
  <1> QED
    BY <1>1, <1>2

LEMMA NoBadKeys ==
  ASSUME NEW f, f.customs \in Seq(Custom)
  PROVE  BadKeys(f) = {} <=>
             \A i \in DOMAIN f.customs : f.customs[i].key \in Seq(KeyAlphabet) \ {<< >>}
  <1>1. ASSUME NEW i \in DOMAIN f.customs
        PROVE  Text(KeyAlphabet, f.customs[i].key) <=> f.customs[i].key \in Seq(KeyAlphabet)
    <2>1. f.customs[i] \in Custom
      OBVIOUS
    <2>2. f.customs[i].key \in Seq(Chars)
      BY <2>1 DEF Custom
    <2> QED
      BY <2>2, Texts DEF Text
  <1>2. BadKeys(f) = {} <=> \A i \in DOMAIN f.customs :
                                f.customs[i].key # << >> /\ Text(KeyAlphabet, f.customs[i].key)
    BY DEF BadKeys
  <1> QED
    BY <1>1, <1>2

(* The keys of n entries are n, and none of B, if there are n more of both *)
(* together than of B.                                                     *)
LEMMA AllCounted ==
  ASSUME NEW n \in Nat, NEW g, DOMAIN g = 1..n, NEW B, IsFiniteSet(B)
  PROVE  Cardinality({g[i] : i \in 1..n} \cup B) = n + Cardinality(B) <=>
             /\ \A i \in 1..n : g[i] \notin B
             /\ \A i, j \in 1..n : i # j => g[i] # g[j]
  <1> DEFINE K == {g[i] : i \in 1..n}
             h == [i \in 1..n |-> g[i]]
  <1>1. IsFiniteSet(1..n) /\ Cardinality(1..n) = n
    BY FS_Interval
  <1>2. h \in [1..n -> K] /\ h \in Surjection(1..n, K)
    BY DEF Surjection
  <1>3. IsFiniteSet(K) /\ Cardinality(K) <= n /\ (Cardinality(K) = n <=> h \in Injection(1..n, K))
    <2>1. \A S, T : \A s \in Surjection(S, T) : IsFiniteSet(S) =>
              /\ IsFiniteSet(T) /\ Cardinality(T) <= Cardinality(S)
              /\ Cardinality(T) = Cardinality(S) <=> s \in Injection(S, T)
      BY FS_Surjection
    <2> DEFINE I == 1..n
    <2>2. h \in Surjection(I, K) /\ IsFiniteSet(I) /\ Cardinality(I) = n
      BY <1>1, <1>2
    <2> HIDE DEF K, h, I
    <2>3. /\ IsFiniteSet(K) /\ Cardinality(K) <= Cardinality(I)
          /\ Cardinality(K) = Cardinality(I) <=> h \in Injection(I, K)
      BY <2>1, <2>2, Zenon
    <2> QED
      BY <2>2, <2>3 DEF I
  <1>4. h \in Injection(1..n, K) <=> \A i, j \in 1..n : i # j => g[i] # g[j]
    <2>1. \A i \in 1..n : h[i] = g[i]
      OBVIOUS
    <2> HIDE DEF K, h
    <2>2. h \in Injection(1..n, K) <=> \A i, j \in 1..n : h[i] = h[j] => i = j
      BY <1>2 DEF Injection, IsInjective
    <2> QED
      BY <2>1, <2>2
  <1>5. (K \cap B = {}) <=> \A i \in 1..n : g[i] \notin B
    OBVIOUS
  <1> HIDE DEF K, h
  <1>6. IsFiniteSet(K \cap B) /\ Cardinality(K \cap B) \in Nat
        /\ (Cardinality(K \cap B) = 0 <=> K \cap B = {})
    BY <1>3, FS_Subset, FS_CardinalityType, FS_EmptySet
  <1>7. Cardinality(K) \in Nat /\ Cardinality(B) \in Nat
        /\ Cardinality(K \cup B) = Cardinality(K) + Cardinality(B) - Cardinality(K \cap B)
    BY <1>3, FS_Union, FS_CardinalityType
  <1>8. Cardinality(K \cup B) = n + Cardinality(B) <=>
            Cardinality(K) = n /\ Cardinality(K \cap B) = 0
    BY <1>3, <1>6, <1>7
  <1> QED
    BY <1>3, <1>4, <1>5, <1>6, <1>8 DEF K

LEMMA NoTakenKeys ==
  ASSUME NEW f, f.customs \in Seq(Custom)
  PROVE  TakenKeys(f) = {} <=>
             Cardinality(DOMAIN Roots(f)) = Len(f.customs) + Cardinality(DOMAIN BuiltIn)
  <1> DEFINE n == Len(f.customs)
             g == [i \in 1..n |-> f.customs[i].key]
  <1>1. n \in Nat /\ DOMAIN f.customs = 1..n
    OBVIOUS
  <1>2. DOMAIN Roots(f) = {g[i] : i \in 1..n} \cup DOMAIN BuiltIn
    BY <1>1 DEF Roots
  <1>3. TakenKeys(f) = {i \in 1..n : g[i] \in DOMAIN BuiltIn \/ \E j \in 1..(i - 1) : g[j] = g[i]}
    <2>1. \A i \in 1..n : f.customs[i].key = g[i] /\ \A j \in 1..(i - 1) : f.customs[j].key = g[j]
      BY <1>1
    <2>2. TakenKeys(f) =
              {i \in 1..n : \/ f.customs[i].key \in DOMAIN BuiltIn
                            \/ \E j \in 1..(i - 1) : f.customs[j].key = f.customs[i].key}
      BY <1>1 DEF TakenKeys
    <2> HIDE DEF g
    <2> QED
      BY <2>1, <2>2
  <1>4. DOMAIN g = 1..n
    OBVIOUS
  <1> HIDE DEF n, g
  <1>5. TakenKeys(f) = {} <=> /\ \A i \in 1..n : g[i] \notin DOMAIN BuiltIn
                              /\ \A i, j \in 1..n : i # j => g[i] # g[j]
    <2>1. TakenKeys(f) = {} <=> /\ \A i \in 1..n : g[i] \notin DOMAIN BuiltIn
                                /\ \A i \in 1..n : \A j \in 1..(i - 1) : g[j] # g[i]
      BY <1>3
    <2>2. (\A i \in 1..n : \A j \in 1..(i - 1) : g[j] # g[i]) <=>
          (\A i, j \in 1..n : i # j => g[i] # g[j])
      BY <1>1
    <2> QED
      BY <2>1, <2>2
  <1> QED
    <2>1. Cardinality(DOMAIN Roots(f)) = n + Cardinality(DOMAIN BuiltIn) <=>
              /\ \A i \in 1..n : g[i] \notin DOMAIN BuiltIn
              /\ \A i, j \in 1..n : i # j => g[i] # g[j]
      BY SMTT(30), <1>1, <1>2, <1>4, AllCounted, FilesAssumption
    <2> QED
      BY <1>5, <2>1 DEF n

LEMMA NoKeyFaults ==
  ASSUME NEW f, f.providers \in Seq(Entry)
  PROVE  KeyFaults(f) = {} <=>
             /\ \A i \in DOMAIN f.providers : f.providers[i].key \in DOMAIN Roots(f)
             /\ \A i, j \in DOMAIN f.providers : i # j => f.providers[i].key # f.providers[j].key
  <1>1. KeyFaults(f) = {} <=> WrongKeys(f) = {}
    <2>1. KeyFaults(f) = {} <=> First(WrongKeys(f)) = {}
      BY DEF KeyFaults
    <2> QED
      BY <2>1, Firsts
  <1> DEFINE n == Len(f.providers)
             g == [i \in 1..n |-> f.providers[i].key]
             D == DOMAIN Roots(f)
  <1>2. n \in Nat /\ DOMAIN f.providers = 1..n
    OBVIOUS
  <1>3. WrongKeys(f) = {i \in 1..n : g[i] \notin D \/ \E j \in 1..(i - 1) : g[j] = g[i]}
    <2>1. \A i \in 1..n : /\ f.providers[i].key = g[i]
                          /\ \A j \in 1..(i - 1) : f.providers[j].key = g[j]
      BY <1>2
    <2>2. WrongKeys(f) =
              {i \in 1..n : \/ f.providers[i].key \notin D
                            \/ \E j \in 1..(i - 1) : f.providers[j].key = f.providers[i].key}
      BY <1>2 DEF WrongKeys
    <2> HIDE DEF g, D
    <2> QED
      BY <2>1, <2>2
  <1>4. \A i \in 1..n : g[i] = f.providers[i].key
    OBVIOUS
  <1> HIDE DEF n, g, D
  <1>5. WrongKeys(f) = {} <=> /\ \A i \in 1..n : g[i] \in D
                              /\ \A i, j \in 1..n : i # j => g[i] # g[j]
    <2>1. WrongKeys(f) = {} <=> /\ \A i \in 1..n : g[i] \in D
                                /\ \A i \in 1..n : \A j \in 1..(i - 1) : g[j] # g[i]
      BY <1>3
    <2>2. (\A i \in 1..n : \A j \in 1..(i - 1) : g[j] # g[i]) <=>
          (\A i, j \in 1..n : i # j => g[i] # g[j])
      BY <1>2
    <2> QED
      BY <2>1, <2>2
  <1> QED
    BY <1>1, <1>2, <1>4, <1>5 DEF D

LEMMA NoProviderFaults ==
  ASSUME NEW f
  PROVE  ProviderFaults(f) = {} <=>
             \A i \in DOMAIN f.providers : Text(PrefixAlphabet, Resolved(f.providers[i]))
  <1> DEFINE S == {j \in DOMAIN f.providers : ~Text(PrefixAlphabet, Resolved(f.providers[j]))}
  <1>1. ProviderFaults(f) = {<<"prefix", i>> : i \in First(S)}
    BY DEF ProviderFaults
  <1>2. S = {} <=> \A i \in DOMAIN f.providers : Text(PrefixAlphabet, Resolved(f.providers[i]))
    OBVIOUS
  <1> HIDE DEF S
  <1>3. ProviderFaults(f) = {} <=> First(S) = {}
    BY <1>1
  <1> QED
    BY <1>2, <1>3, Firsts

LEMMA NoPrefixFaults ==
  ASSUME NEW f, NEW pre, IsFiniteSet(DOMAIN pre)
  PROVE  PrefixFaults(f, pre) = {} <=> PrefixesOK(pre, f.allow)
  <1>1. ASSUME PrefixesOK(pre, f.allow) PROVE PrefixFaults(f, pre) = {}
    <2>1. ASSUME ~f.allow PROVE ~(Cardinality(Blank(pre)) > 1)
      <3>1. \A p, q \in Blank(pre) : p = q
        BY <1>1, <2>1 DEF PrefixesOK
      <3>2. CASE Blank(pre) = {}
        BY <3>2, FS_EmptySet
      <3>3. CASE Blank(pre) # {}
        <4>1. PICK p \in Blank(pre) : TRUE
          BY <3>3
        <4>2. Blank(pre) = {p}
          BY <3>1, <4>1
        <4> QED
          BY <4>2, FS_Singleton
      <3> QED
        BY <3>2, <3>3
    <2>2. Overlaps(pre) = {}
      BY <1>1 DEF PrefixesOK, Overlaps
    <2> QED
      BY <2>1, <2>2 DEF PrefixFaults
  <1> QED
    BY <1>1, Unambiguous

(* Of different providers' prefixes, one may start another only if it is   *)
(* blank and the other is not, or several may be.                          *)
Listed(n, key, used, pre) ==
    /\ \A i \in 1..n : used[i] \in Seq(Chars) /\ pre[key[i]] = used[i]
    /\ DOMAIN pre = {key[i] : i \in 1..n}
    /\ \A i, j \in 1..n : i # j => key[i] # key[j]

Clear(n, used, allow) ==
    \A i, j \in 1..n : i # j /\ IsPrefix(used[i], used[j]) =>
        used[i] = << >> /\ (used[j] # << >> \/ allow)

LEMMA InPairs ==
  ASSUME NEW n \in Nat, NEW key, NEW used, NEW pre, NEW allow, Listed(n, key, used, pre)
  PROVE  PrefixesOK(pre, allow) <=> Clear(n, used, allow)
  <1> USE DEF Listed, Clear
  <1>1. ASSUME PrefixesOK(pre, allow), NEW i \in 1..n, NEW j \in 1..n, i # j,
               IsPrefix(used[i], used[j])
        PROVE  used[i] = << >> /\ (used[j] # << >> \/ allow)
    <2>1. /\ key[i] \in DOMAIN pre /\ key[j] \in DOMAIN pre /\ key[i] # key[j]
          /\ pre[key[i]] = used[i] /\ pre[key[j]] = used[j]
      BY <1>1
    <2>2. CASE used[i] = << >>
      BY <1>1, <2>1, <2>2 DEF PrefixesOK, Blank
    <2>3. CASE used[i] # << >>
      <3>1. used[j] # << >>
        <4>1. Len(used[i]) <= Len(used[j])
          BY <1>1, PrefixChars
        <4>2. Len(used[i]) > 0
          BY <2>3
        <4> QED
          BY <4>1, <4>2
      <3>2. key[i] \in Named(pre) /\ key[j] \in Named(pre)
        BY <2>1, <2>3, <3>1 DEF Named, Blank
      <3> QED
        BY <1>1, <2>1, <3>2 DEF PrefixesOK
    <2> QED
      BY <2>2, <2>3
  <1>2. ASSUME \A i, j \in 1..n : i # j /\ IsPrefix(used[i], used[j]) =>
                   used[i] = << >> /\ (used[j] # << >> \/ allow)
        PROVE  PrefixesOK(pre, allow)
    <2>1. ASSUME NEW p \in Blank(pre), NEW q \in Blank(pre), p # q PROVE allow
      <3>1. PICK i \in 1..n : p = key[i] /\ used[i] = << >>
        BY DEF Blank
      <3>2. PICK j \in 1..n : q = key[j] /\ used[j] = << >>
        BY DEF Blank
      <3>3. i # j
        BY <2>1, <3>1, <3>2
      <3>4. IsPrefix(used[i], used[j])
        <4>1. << >> \in Seq(Chars)
          OBVIOUS
        <4> QED
          BY <3>1, <3>2, <4>1, PrefixChars
      <3> QED
        BY <1>2, <3>2, <3>3, <3>4
    <2>2. ASSUME NEW p \in Named(pre), NEW q \in Named(pre), p # q
          PROVE  ~IsPrefix(pre[p], pre[q])
      <3>1. PICK i \in 1..n : p = key[i] /\ used[i] = pre[p] /\ used[i] # << >>
        BY DEF Named, Blank
      <3>2. PICK j \in 1..n : q = key[j] /\ used[j] = pre[q]
        BY DEF Named
      <3>3. i # j
        BY <2>2, <3>1, <3>2
      <3> QED
        BY <1>2, <3>1, <3>2, <3>3
    <2> QED
      BY <2>1, <2>2 DEF PrefixesOK
  <1> QED
    BY <1>1, <1>2

(* A Config that is built directly has every prefix given and good roots.  *)
Given(f) ==
    ~f.parsed => /\ \A i \in DOMAIN f.providers : f.providers[i].prefix # None
                 /\ \A i \in DOMAIN f.customs : f.customs[i].root \in GoodRoots

(* No check finds a fault: what an accepted file has behind it.            *)
Faultless(f) ==
    /\ f.parsed => FieldFaults(f) = {}
    /\ MergeFaults(f) = {} /\ KeyFaults(f) = {} /\ ProviderFaults(f) = {}
    /\ PrefixFaults(f, BuiltPrefixes(f)) = {}

Distinct(f) ==
    \A i, j \in DOMAIN f.providers : i # j => f.providers[i].key # f.providers[j].key

Apart(f) ==
    \A i, j \in DOMAIN f.providers :
        i # j /\ IsPrefix(Resolved(f.providers[i]), Resolved(f.providers[j])) =>
            /\ Resolved(f.providers[i]) = << >>
            /\ Resolved(f.providers[j]) # << >> \/ f.allow

LEMMA PrefixFaultsInPairs ==
  ASSUME NEW f, f.providers \in Seq(Entry), Distinct(f)
  PROVE  PrefixFaults(f, BuiltPrefixes(f)) = {} <=> Apart(f)
  <1> DEFINE n == Len(f.providers)
             key == [i \in 1..n |-> f.providers[i].key]
             used == [i \in 1..n |-> Resolved(f.providers[i])]
             pre == BuiltPrefixes(f)
  <1>1. n \in Nat /\ DOMAIN f.providers = 1..n
    OBVIOUS
  <1>2. \A i \in 1..n : key[i] = f.providers[i].key /\ used[i] = Resolved(f.providers[i])
    OBVIOUS
  <1>3. DOMAIN pre = {key[i] : i \in 1..n} /\ IsFiniteSet(DOMAIN pre)
    <2>1. DOMAIN pre = ProviderKeys(f)
      BY DEF BuiltPrefixes
    <2> HIDE DEF pre
    <2> QED
      BY <1>1, <2>1, PrefixesType DEF ProviderKeys, pre
  <1>4. \A i, j \in 1..n : i # j => key[i] # key[j]
    BY <1>1 DEF Distinct
  <1>5. ASSUME NEW i \in 1..n PROVE used[i] \in Seq(Chars) /\ pre[key[i]] = used[i]
    <2>1. key[i] \in ProviderKeys(f)
      BY <1>1 DEF ProviderKeys
    <2>2. PICK j \in DOMAIN f.providers :
              f.providers[j].key = key[i] /\ pre[key[i]] = Resolved(f.providers[j])
      BY <2>1, FromAnEntry
    <2>3. j = i
      BY <1>1, <1>2, <2>2 DEF Distinct
    <2>4. f.providers[i] \in Entry
      BY <1>1
    <2> HIDE DEF pre
    <2> QED
      BY <1>2, <2>2, <2>3, <2>4, ResolvedType
  <1> HIDE DEF n, key, used, pre
  <1>6. PrefixFaults(f, pre) = {} <=> PrefixesOK(pre, f.allow)
    BY <1>3, NoPrefixFaults
  <1>7. PrefixesOK(pre, f.allow) <=> Clear(n, used, f.allow)
    <2>1. Listed(n, key, used, pre)
      BY <1>3, <1>4, <1>5 DEF Listed
    <2> QED
      BY <1>1, <2>1, InPairs
  <1> QED
    BY <1>1, <1>2, <1>6, <1>7 DEF Apart, Clear, pre

(* The definition of a sound file, in the parts the checks are about.      *)
LEMMA SoundInParts ==
  ASSUME NEW f
  PROVE  Sound(f) <=>
             /\ f.parsed => BaseUrlOK(f.base) /\ f.providers # << >>
             /\ \A i \in DOMAIN f.customs : f.customs[i].key \in Seq(KeyAlphabet) \ {<< >>}
             /\ \A i \in DOMAIN f.customs : f.customs[i].root \in GoodRoots
             /\ Cardinality(DOMAIN Roots(f)) = Len(f.customs) + Cardinality(DOMAIN BuiltIn)
             /\ \A i \in DOMAIN f.providers : f.providers[i].key \in DOMAIN Roots(f)
             /\ \A i \in DOMAIN f.providers : Resolved(f.providers[i]) \in Seq(PrefixAlphabet)
             /\ Distinct(f)
             /\ Apart(f)
  <1> DEFINE K == {f.customs[i].key : i \in DOMAIN f.customs} \cup DOMAIN BuiltIn
             ps == f.providers
             used == [i \in DOMAIN ps |->
                          IF ps[i].prefix = None THEN Append(ps[i].key, ":") ELSE ps[i].prefix]
  <1>1. DOMAIN Roots(f) = K
    BY DEF Roots
  <1>2. \A i \in DOMAIN ps : used[i] = Resolved(ps[i])
    BY DEF Resolved
  <1>3. Sound(f) <=>
             /\ f.parsed => BaseUrlOK(f.base) /\ ps # << >>
             /\ \A i \in DOMAIN f.customs :
                    /\ f.customs[i].key \in Seq(KeyAlphabet) \ {<< >>}
                    /\ f.customs[i].root \in GoodRoots
             /\ Cardinality(K) = Len(f.customs) + Cardinality(DOMAIN BuiltIn)
             /\ \A i \in DOMAIN ps : ps[i].key \in K /\ used[i] \in Seq(PrefixAlphabet)
             /\ \A i, j \in DOMAIN ps : i # j =>
                    /\ ps[i].key # ps[j].key
                    /\ IsPrefix(used[i], used[j]) => used[i] = << >> /\ (used[j] # << >> \/ f.allow)
    BY Zenon DEF Sound
  <1> HIDE DEF K, used
  <1>4. (\A i \in DOMAIN ps : ps[i].key \in K /\ used[i] \in Seq(PrefixAlphabet)) <=>
             /\ \A i \in DOMAIN ps : ps[i].key \in K
             /\ \A i \in DOMAIN ps : Resolved(ps[i]) \in Seq(PrefixAlphabet)
    BY <1>2
  <1>5. (\A i, j \in DOMAIN ps : i # j =>
            /\ ps[i].key # ps[j].key
            /\ IsPrefix(used[i], used[j]) => used[i] = << >> /\ (used[j] # << >> \/ f.allow)) <=>
        Distinct(f) /\ Apart(f)
    BY <1>2 DEF Distinct, Apart
  <1> QED
    BY <1>1, <1>3, <1>4, <1>5

(* The checks, in their order, accept a file exactly if it is sound.       *)
LEMMA SoundIsFaultless ==
  ASSUME NEW f, f.providers \in Seq(Entry), f.customs \in Seq(Custom), Given(f)
  PROVE  Sound(f) <=> Faultless(f)
  <1>1. MergeFaults(f) = {} <=>
            /\ \A i \in DOMAIN f.customs : f.customs[i].key \in Seq(KeyAlphabet) \ {<< >>}
            /\ Cardinality(DOMAIN Roots(f)) = Len(f.customs) + Cardinality(DOMAIN BuiltIn)
    BY NoMergeFaults, NoBadKeys, NoTakenKeys
  <1>2. KeyFaults(f) = {} <=>
            (\A i \in DOMAIN f.providers : f.providers[i].key \in DOMAIN Roots(f)) /\ Distinct(f)
    BY NoKeyFaults DEF Distinct
  <1>3. ProviderFaults(f) = {} <=>
            \A i \in DOMAIN f.providers : Resolved(f.providers[i]) \in Seq(PrefixAlphabet)
    <2>1. ASSUME NEW i \in DOMAIN f.providers
          PROVE  Text(PrefixAlphabet, Resolved(f.providers[i])) <=>
                     Resolved(f.providers[i]) \in Seq(PrefixAlphabet)
      <3>1. f.providers[i] \in Entry
        OBVIOUS
      <3>2. Resolved(f.providers[i]) \in Seq(Chars)
        BY <3>1, ResolvedType
      <3> QED
        BY <3>2, Texts DEF Text
    <2> QED
      BY <2>1, NoProviderFaults
  <1>4. Distinct(f) => (PrefixFaults(f, BuiltPrefixes(f)) = {} <=> Apart(f))
    BY PrefixFaultsInPairs
  <1>5. ASSUME NEW i \in DOMAIN f.providers, f.providers[i].prefix # None,
               Resolved(f.providers[i]) \in Seq(PrefixAlphabet)
        PROVE  Text(PrefixAlphabet, f.providers[i].prefix)
    BY <1>5 DEF Resolved, Text
  <1>6. FieldFaults(f) = {} <=>
            /\ BaseUrlOK(f.base) /\ f.providers # << >>
            /\ \A i \in DOMAIN f.providers :
                   f.providers[i].prefix = None \/ Text(PrefixAlphabet, f.providers[i].prefix)
            /\ \A i \in DOMAIN f.customs : f.customs[i].root \in GoodRoots
    BY NoFieldFaults
  <1>7. ASSUME Sound(f) PROVE Faultless(f)
    <2>1. f.parsed => FieldFaults(f) = {}
      BY <1>5, <1>6, <1>7, SoundInParts
    <2> QED
      BY <1>1, <1>2, <1>3, <1>4, <1>7, <2>1, SoundInParts DEF Faultless
  <1>8. ASSUME Faultless(f) PROVE Sound(f)
    <2>1. \A i \in DOMAIN f.customs : f.customs[i].root \in GoodRoots
      BY <1>6, <1>8 DEF Faultless, Given
    <2>2. f.parsed => BaseUrlOK(f.base) /\ f.providers # << >>
      BY <1>6, <1>8 DEF Faultless
    <2> QED
      BY <1>1, <1>2, <1>3, <1>4, <1>8, <2>1, <2>2, SoundInParts DEF Faultless
  <1> QED
    BY <1>7, <1>8

-----------------------------------------------------------------------------
(* How far a load has got says what is known of the file.  The checks of a *)
(* parsed file are done before the prefixes exist, those of a Config that  *)
(* is built directly only after.                                           *)
Typed(f) ==
    /\ f.parsed \in BOOLEAN
    /\ f.providers \in Seq(Entry) /\ f.customs \in Seq(Custom)
    /\ Given(f)

KeysChecked(f) == MergeFaults(f) = {} /\ KeyFaults(f) = {}

Known(f, st, pre) ==
    /\ st \in {"text", "model", "merged"} => f.parsed
    /\ st \in {"model", "merged", "keyed", "built"} /\ f.parsed => FieldFaults(f) = {}
    /\ st = "merged" => MergeFaults(f) = {}
    /\ st \in {"keyed", "built"} /\ f.parsed => KeysChecked(f)
    /\ st \in {"built", "config"} => pre = BuiltPrefixes(f)
    /\ st = "built" => ProviderFaults(f) = {}
    /\ st = "config" => Faultless(f)
    /\ st = "rejected" => ~Faultless(f)

Deserved(f, x) ==
    /\ x[1] = "prefix" => f.providers[x[2]].prefix # None
    /\ x[1] = "overlap" =>
           \E i \in DOMAIN f.providers :
               f.providers[i].prefix # None /\ f.providers[i].key \in {x[2][1], x[2][2]}
    /\ x[1] = "unknown" => f.providers[x[2]].key \notin DOMAIN Roots(f)

IInv ==
    /\ Typed(file)
    /\ Known(file, stage, prefix)
    /\ \A x \in blame : Deserved(file, x)

LEMMA InitIInv == Init => IInv
  <1> SUFFICES ASSUME Init PROVE IInv
    OBVIOUS
  <1>1. Typed(file)
    BY FilesAssumption DEF Init, Typed, Given
  <1>2. Known(file, stage, prefix)
    BY <1>1 DEF Init, Known, Typed
  <1>3. blame = {}
    BY DEF Init
  <1> QED
    BY <1>1, <1>2, <1>3 DEF IInv

(* A rejection leaves the file, and blames it for a fault it has.          *)
LEMMA Rejected ==
  ASSUME IInv, NEW from, NEW faults, Reject(from, faults), ~Faultless(file),
         \A x \in faults : Deserved(file, x)
  PROVE  IInv'
  <1>1. file' = file /\ stage' = "rejected" /\ blame' = faults
    BY DEF Reject
  <1>2. Known(file', stage', prefix')
    BY <1>1 DEF Known
  <1> QED
    BY <1>1, <1>2 DEF IInv

LEMMA ValidateIInv == ASSUME IInv, Validate PROVE IInv'
  <1>1. CASE Reject("text", FieldFaults(file))
    <2>1. \A x \in FieldFaults(file) : Deserved(file, x)
      BY FieldFaultsAreReal DEF Deserved
    <2>2. ~Faultless(file)
      BY <1>1 DEF Reject, IInv, Known, Faultless
    <2> QED
      BY <1>1, <2>1, <2>2, Rejected
  <1>2. CASE FieldFaults(file) = {} /\ Goto("text", "model")
    <2>1. file' = file /\ blame' = blame /\ stage = "text" /\ stage' = "model"
      BY <1>2 DEF Goto
    <2>2. Known(file, stage', prefix')
      BY <1>2, <2>1 DEF IInv, Known
    <2> QED
      BY <2>1, <2>2 DEF IInv
  <1> QED
    BY <1>1, <1>2 DEF Validate

LEMMA MergeIInv == ASSUME IInv, Merge PROVE IInv'
  <1>1. CASE Reject("model", MergeFaults(file))
    <2>1. \A x \in MergeFaults(file) : Deserved(file, x)
      BY MergeFaultsAreReal DEF Deserved
    <2>2. ~Faultless(file)
      BY <1>1 DEF Reject, Faultless
    <2> QED
      BY <1>1, <2>1, <2>2, Rejected
  <1>2. CASE MergeFaults(file) = {} /\ Goto("model", "merged")
    <2>1. file' = file /\ blame' = blame /\ stage = "model" /\ stage' = "merged"
      BY <1>2 DEF Goto
    <2>2. Known(file, stage', prefix')
      BY <1>2, <2>1 DEF IInv, Known
    <2> QED
      BY <2>1, <2>2 DEF IInv
  <1> QED
    BY <1>1, <1>2 DEF Merge

LEMMA CheckKeysIInv == ASSUME IInv, CheckKeys PROVE IInv'
  <1>1. CASE Reject("merged", KeyFaults(file))
    <2>1. \A x \in KeyFaults(file) : Deserved(file, x)
      BY KeyFaultsAreReal DEF Deserved
    <2>2. ~Faultless(file)
      BY <1>1 DEF Reject, Faultless
    <2> QED
      BY <1>1, <2>1, <2>2, Rejected
  <1>2. CASE KeyFaults(file) = {} /\ Goto("merged", "keyed")
    <2>1. file' = file /\ blame' = blame /\ stage = "merged" /\ stage' = "keyed"
      BY <1>2 DEF Goto
    <2>2. Known(file, stage', prefix')
      BY <1>2, <2>1 DEF IInv, Known, KeysChecked
    <2> QED
      BY <2>1, <2>2 DEF IInv
  <1> QED
    BY <1>1, <1>2 DEF CheckKeys

LEMMA BuildIInv == ASSUME IInv, Build PROVE IInv'
  <1>1. CASE Reject("keyed", ProviderFaults(file))
    <2>1. stage = "keyed"
      BY <1>1 DEF Reject
    <2>2. \/ KeysChecked(file)
          \/ \A i \in DOMAIN file.providers : file.providers[i].prefix # None
      BY <2>1 DEF IInv, Known, Typed, Given
    <2>3. \A x \in ProviderFaults(file) : x[1] = "prefix" /\ file.providers[x[2]].prefix # None
      BY <2>2, ProviderFaultsAreReal DEF IInv, Typed, KeysChecked
    <2>4. \A x \in ProviderFaults(file) : Deserved(file, x)
      BY <2>3 DEF Deserved
    <2>5. ~Faultless(file)
      BY <1>1 DEF Reject, Faultless
    <2> QED
      BY <1>1, <2>4, <2>5, Rejected
  <1>2. CASE /\ ProviderFaults(file) = {} /\ Goto("keyed", "built")
             /\ prefix' = BuiltPrefixes(file)
    <2>1. file' = file /\ blame' = blame /\ stage = "keyed" /\ stage' = "built"
      BY <1>2 DEF Goto
    <2>2. Known(file, stage', prefix')
      BY <1>2, <2>1 DEF IInv, Known
    <2> QED
      BY <2>1, <2>2 DEF IInv
  <1> QED
    BY <1>1, <1>2 DEF Build, BuiltPrefixes, ProviderKeys

LEMMA PostInitIInv == ASSUME IInv, PostInit PROVE IInv'
  <1>1. ASSUME NEW x \in SpanningFaults, Reject("built", {x}) PROVE IInv'
    <2>1. stage = "built" /\ prefix = BuiltPrefixes(file)
      BY <1>1 DEF Reject, IInv, Known
    <2>2. ASSUME x \in MergeFaults(file) \/ x \in KeyFaults(file) PROVE Deserved(file, x)
      BY <2>2, MergeFaultsAreReal, KeyFaultsAreReal DEF Deserved
    <2>3. ASSUME KeysChecked(file), x \in PrefixFaults(file, prefix) PROVE Deserved(file, x)
      <3>1. x[1] \in {"blanks", "overlap"} /\ (x[1] = "overlap" => x[2] \in Overlaps(prefix))
        BY <2>3, PrefixFaultsAreReal
      <3>2. \A o \in Overlaps(prefix) : \E i \in DOMAIN file.providers :
               file.providers[i].prefix # None /\ file.providers[i].key \in {o[1], o[2]}
        BY <2>1, <2>3, OverlapsAreWritten DEF IInv, Typed, KeysChecked
      <3> QED
        BY <3>1, <3>2 DEF Deserved
    <2>4. x \in MergeFaults(file) \/ x \in KeyFaults(file)
          \/ (KeysChecked(file) /\ x \in PrefixFaults(file, prefix))
      BY <1>1 DEF SpanningFaults, KeysChecked
    <2>5. ~Faultless(file)
      BY <2>1, <2>4 DEF Faultless
    <2> QED
      BY <1>1, <2>2, <2>3, <2>4, <2>5, Rejected
  <1>2. CASE SpanningFaults = {} /\ Goto("built", "config") /\ UNCHANGED prefix
    <2>1. /\ file' = file /\ blame' = blame /\ prefix' = prefix
          /\ stage = "built" /\ stage' = "config"
      BY <1>2 DEF Goto
    <2>2. MergeFaults(file) = {} /\ KeyFaults(file) = {} /\ PrefixFaults(file, prefix) = {}
      BY <1>2 DEF SpanningFaults
    <2>3. /\ prefix = BuiltPrefixes(file) /\ ProviderFaults(file) = {}
          /\ file.parsed => FieldFaults(file) = {}
      BY <2>1 DEF IInv, Known
    <2>4. Faultless(file)
      BY <2>2, <2>3 DEF Faultless
    <2>5. Known(file, stage', prefix')
      BY <2>1, <2>3, <2>4 DEF Known
    <2> QED
      BY <2>1, <2>5 DEF IInv
  <1> QED
    BY <1>1, <1>2 DEF PostInit

THEOREM Invariance == Spec => []IInv
  <1>1. IInv /\ UNCHANGED vars => IInv'
    BY DEF IInv, vars
  <1>2. IInv /\ [Next]_vars => IInv'
    BY <1>1, ValidateIInv, MergeIInv, CheckKeysIInv, BuildIInv, PostInitIInv DEF Next
  <1> QED
    BY <1>2, InitIInv, PTL DEF Spec

(* Whatever file is rejected is rejected for what is wrong with it: a      *)
(* default prefix is never blamed, nor a key that something defines.       *)
THEOREM BlameHolds == Spec => []BlameIsDeserved
  <1>1. IInv => BlameIsDeserved
    <2> SUFFICES ASSUME IInv, NEW x \in blame
                 PROVE  /\ Deserved(file, x)
                        /\ DOMAIN Roots(file) =
                               {file.customs[i].key : i \in DOMAIN file.customs} \cup DOMAIN BuiltIn
      BY DEF BlameIsDeserved, Deserved
    <2> QED
      BY DEF IInv, Roots
  <1> QED
    BY <1>1, Invariance, PTL

(* A load ends with a Config exactly if the file is sound, whichever check *)
(* a fault in it would be found by and whatever else is wrong with it.     *)
THEOREM AcceptsTheSound == Spec => []AcceptedIfSound
  <1>1. IInv => AcceptedIfSound
    BY SoundIsFaultless DEF IInv, Typed, Known, AcceptedIfSound
  <1> QED
    BY <1>1, Invariance, PTL

(* Under every Config, each id shown for a named provider leads back to    *)
(* that provider alone, with the provider's own id.                        *)
THEOREM EveryIdResolves == Spec => []EveryIdFindsItsProvider
  <1>1. IInv => EveryIdFindsItsProvider
    <2> SUFFICES ASSUME IInv, stage = "config", NEW p \in Named(prefix), NEW x \in Ids
                 PROVE  /\ Owners(prefix, Exposed(prefix, p, x)) = {p}
                        /\ Local(prefix, p, Exposed(prefix, p, x)) = x
      BY DEF EveryIdFindsItsProvider
    <2>1. /\ file.providers \in Seq(Entry) /\ prefix = BuiltPrefixes(file)
          /\ PrefixFaults(file, prefix) = {}
      BY DEF IInv, Typed, Known, Faultless
    <2>2. prefix \in [ProviderKeys(file) -> Seq(Chars)] /\ IsFiniteSet(DOMAIN prefix)
      BY <2>1, PrefixesType
    <2>3. PrefixesOK(prefix, file.allow)
      BY <2>1, <2>2, Unambiguous
    <2>4. x \in Seq(Chars)
      BY FilesAssumption
    <2> QED
      BY <2>2, <2>3, <2>4, RoundTrip
  <1> QED
    BY <1>1, Invariance, PTL
=============================================================================
