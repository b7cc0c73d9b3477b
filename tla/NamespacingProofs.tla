------------------------- MODULE NamespacingProofs -------------------------
(***************************************************************************)
(* What Namespacing guarantees for every set of providers, every prefix    *)
(* and every account id: the routing inverts the prefixing.                *)
(***************************************************************************)
EXTENDS Namespacing, WellFoundedInduction, SequenceTheorems, TLAPS

(* IsPrefix character by character. *)
LEMMA PrefixChars ==
  ASSUME NEW Char, NEW s \in Seq(Char), NEW t \in Seq(Char)
  PROVE  IsPrefix(s, t) <=> Len(s) <= Len(t) /\ \A i \in 1..Len(s) : s[i] = t[i]
  <1>1. ASSUME IsPrefix(s, t) PROVE \A i \in 1..Len(s) : s[i] = t[i]
    <2> TAKE i \in 1..Len(s)
    <2>1. SubSeq(s, 1, Len(s))[i] = SubSeq(t, 1, Len(s))[i]
      BY <1>1 DEF IsPrefix
    <2> QED
      BY <2>1, <1>1 DEF IsPrefix
  <1>2. ASSUME Len(s) <= Len(t), \A i \in 1..Len(s) : s[i] = t[i]
        PROVE  SubSeq(s, 1, Len(s)) = SubSeq(t, 1, Len(s))
    BY <1>2
  <1> QED
    BY <1>1, <1>2 DEF IsPrefix

(* Two texts that start a third start one another. *)
LEMMA PrefixesOfOne ==
  ASSUME NEW Char, NEW s \in Seq(Char), NEW t \in Seq(Char), NEW u \in Seq(Char),
         IsPrefix(s, u), IsPrefix(t, u), Len(s) <= Len(t)
  PROVE  IsPrefix(s, t)
  <1>1. \A i \in 1..Len(s) : s[i] = u[i] /\ t[i] = u[i]
    BY PrefixChars
  <1> QED
    BY <1>1, PrefixChars

(* Taking a prefix off and putting it on again are inverse. *)
LEMMA Rejoin ==
  ASSUME NEW Char, NEW s \in Seq(Char), NEW u \in Seq(Char), IsPrefix(s, u)
  PROVE  /\ SubSeq(u, Len(s) + 1, Len(u)) \in Seq(Char)
         /\ s \o SubSeq(u, Len(s) + 1, Len(u)) = u
  <1>1. Len(s) <= Len(u) /\ \A i \in 1..Len(s) : s[i] = u[i]
    BY PrefixChars
  <1> QED
    BY <1>1

LEMMA Split ==
  ASSUME NEW Char, NEW s \in Seq(Char), NEW t \in Seq(Char)
  PROVE  /\ IsPrefix(s, s \o t)
         /\ SubSeq(s \o t, Len(s) + 1, Len(s \o t)) = t
  <1>1. s \o t \in Seq(Char) /\ Len(s \o t) = Len(s) + Len(t)
    OBVIOUS
  <1>2. \A i \in 1..Len(s) : (s \o t)[i] = s[i]
    OBVIOUS
  <1>3. IsPrefix(s, s \o t)
    <2> DEFINE u == s \o t
    <2>1. u \in Seq(Char) /\ Len(s) <= Len(u) /\ \A i \in 1..Len(s) : s[i] = u[i]
      BY <1>1, <1>2
    <2> HIDE DEF u
    <2>2. IsPrefix(s, u)
      BY <2>1, PrefixChars
    <2> QED
      BY <2>2 DEF u
  <1> QED
    BY <1>1, <1>3

-----------------------------------------------------------------------------
(* A config that passes the check leaves an id at most one owner, or       *)
(* several that all have the blank prefix: longest-prefix matching never   *)
(* has to break a tie between named prefixes.                              *)
THEOREM OneOwner ==
  ASSUME NEW Keys, NEW Char, NEW prefix \in [Keys -> Seq(Char)],
         NEW allowBlanks, PrefixesOK(prefix, allowBlanks),
         NEW id \in Seq(Char),
         NEW p \in Owners(prefix, id), NEW q \in Owners(prefix, id), p # q
  PROVE  p \in Blank(prefix) /\ q \in Blank(prefix)
  <1>1. /\ p \in Keys /\ q \in Keys
        /\ IsPrefix(prefix[p], id) /\ IsPrefix(prefix[q], id)
        /\ Len(prefix[p]) <= Len(prefix[q]) /\ Len(prefix[q]) <= Len(prefix[p])
    BY DEF Owners, Carried
  <1>2. IsPrefix(prefix[p], prefix[q])
    BY <1>1, PrefixesOfOne
  <1>3. Len(prefix[p]) = Len(prefix[q])
    BY <1>1
  <1>4. p \in Blank(prefix) \/ q \in Blank(prefix)
    BY <1>1, <1>2 DEF PrefixesOK, Named
  <1> QED
    BY <1>1, <1>3, <1>4 DEF Blank

(* The id a named provider's account is shown under routes back to that    *)
(* provider alone, as the provider's own id, whatever that id is.          *)
THEOREM RoundTrip ==
  ASSUME NEW Keys, NEW Char, NEW prefix \in [Keys -> Seq(Char)],
         NEW allowBlanks, PrefixesOK(prefix, allowBlanks),
         NEW p \in Named(prefix), NEW id \in Seq(Char)
  PROVE  /\ Owners(prefix, Exposed(prefix, p, id)) = {p}
         /\ Local(prefix, p, Exposed(prefix, p, id)) = id
  <1> DEFINE x == Exposed(prefix, p, id)
  <1>1. p \in Keys /\ prefix[p] \in Seq(Char) /\ prefix[p] # << >>
    BY DEF Named, Blank
  <1>2. x \in Seq(Char) /\ IsPrefix(prefix[p], x)
    BY <1>1, Split DEF Exposed
  <1>3. ASSUME NEW q \in Carried(prefix, x), q # p PROVE q \in Blank(prefix)
    <2>1. q \in Keys /\ prefix[q] \in Seq(Char) /\ IsPrefix(prefix[q], x)
      BY <1>3 DEF Carried
    <2>2. IsPrefix(prefix[p], prefix[q]) \/ IsPrefix(prefix[q], prefix[p])
      BY <1>1, <1>2, <2>1, PrefixesOfOne
    <2> QED
      BY <1>3, <2>1, <2>2 DEF PrefixesOK, Named
  <1>4. ASSUME NEW q \in Carried(prefix, x), q # p PROVE Len(prefix[q]) < Len(prefix[p])
    <2>1. prefix[q] = << >>
      BY <1>3, <1>4 DEF Blank
    <2> QED
      BY <1>1, <2>1
  <1>5. p \in Carried(prefix, x)
    BY <1>1, <1>2 DEF Carried
  <1>6. \A q \in Carried(prefix, x) : Len(prefix[q]) \in Nat
    BY DEF Carried
  <1>7. Owners(prefix, x) = {p}
    BY <1>4, <1>5, <1>6 DEF Owners
  <1>8. Local(prefix, p, x) = id
    BY <1>1, Split DEF Local, Exposed
  <1> QED
    BY <1>7, <1>8

(* Ids of two providers are the same only if one of the prefixes is blank. *)
THEOREM NamedApart ==
  ASSUME NEW Keys, NEW Char, NEW prefix \in [Keys -> Seq(Char)],
         NEW allowBlanks, PrefixesOK(prefix, allowBlanks),
         NEW p \in Keys, NEW q \in Keys, p # q,
         NEW x \in Seq(Char), NEW y \in Seq(Char),
         Exposed(prefix, p, x) = Exposed(prefix, q, y)
  PROVE  p \in Blank(prefix) \/ q \in Blank(prefix)
  <1> DEFINE u == Exposed(prefix, p, x)
  <1>1. prefix[p] \in Seq(Char) /\ prefix[q] \in Seq(Char)
    OBVIOUS
  <1>2. u \in Seq(Char) /\ IsPrefix(prefix[p], u) /\ IsPrefix(prefix[q], u)
    <2>1. u = prefix[p] \o x /\ u = prefix[q] \o y
      BY DEF Exposed
    <2>2. prefix[p] \o x \in Seq(Char)
      BY <1>1
    <2>3. IsPrefix(prefix[p], prefix[p] \o x)
      BY <1>1, Split
    <2>4. IsPrefix(prefix[q], prefix[q] \o y)
      BY <1>1, Split
    <2> HIDE DEF u
    <2> QED
      BY <2>1, <2>2, <2>3, <2>4
  <1>3. IsPrefix(prefix[p], prefix[q]) \/ IsPrefix(prefix[q], prefix[p])
    BY <1>1, <1>2, PrefixesOfOne
  <1> QED
    BY <1>3 DEF PrefixesOK, Named

(* A shown id routes back to the provider it came from, as that provider's *)
(* own id, unless the provider is blank and its id starts like somebody    *)
(* else's.                                                                 *)
THEOREM ShownRoutesBack ==
  ASSUME NEW Keys, NEW Char, NEW prefix \in [Keys -> Seq(Char)],
         NEW allowBlanks, PrefixesOK(prefix, allowBlanks),
         NEW p \in Keys, NEW id \in Seq(Char)
  PROVE  LET x == Exposed(prefix, p, id)
         IN \/ p \in Owners(prefix, x) /\ Local(prefix, p, x) = id
            \/ /\ p \in Blank(prefix)
               /\ \E q \in Named(prefix) : IsPrefix(prefix[q], x)
  <1> DEFINE x == Exposed(prefix, p, id)
  <1>1. CASE p \in Named(prefix)
    BY <1>1, RoundTrip
  <1>2. CASE p \in Blank(prefix)
    <2>1. prefix[p] = << >> /\ x \in Seq(Char)
      BY <1>2 DEF Blank, Exposed
    <2>2. p \in Carried(prefix, x) /\ Local(prefix, p, x) = id
      BY <2>1, Split DEF Carried, Local, Exposed
    <2>3. ASSUME p \notin Owners(prefix, x)
          PROVE  \E q \in Named(prefix) : IsPrefix(prefix[q], x)
      <3>1. PICK q \in Carried(prefix, x) : ~(Len(prefix[q]) <= Len(prefix[p]))
        BY <2>2, <2>3 DEF Owners
      <3>2. q \in Keys /\ prefix[q] \in Seq(Char) /\ prefix[q] # << >>
        BY <2>1, <3>1 DEF Carried
      <3> QED
        BY <3>1, <3>2 DEF Carried, Named, Blank
    <2> QED
      BY <1>2, <2>2, <2>3
  <1> QED
    BY <1>1, <1>2 DEF Named
-----------------------------------------------------------------------------
(* Sequences of sequences, one after the other, in which merge builds its    *)
(* answer.                                                                 *)

(* A set of numbers that is not empty has a least.                       *)
LEMMA Least ==
  ASSUME NEW T, T \subseteq Nat, T # {}
  PROVE  \E m \in T : \A k \in T : m <= k
  <1> DEFINE Below == OpToRel(<, Nat)
  <1>1. \A m, n \in Nat : <<m, n>> \in Below <=> m < n
    BY DEF OpToRel
  <1>2. IsWellFoundedOn(Below, Nat)
    BY NatLessThanWellFounded
  <1> HIDE DEF Below
  <1>3. PICK m \in T : \A n \in T : <<n, m>> \notin Below
    BY <1>2, WFMin
  <1>4. ASSUME NEW n \in T PROVE m <= n
    <2>1. m \in Nat /\ n \in Nat /\ <<n, m>> \notin Below
      BY <1>3
    <2>2. ~(n < m)
      BY <1>1, <2>1, Zenon
    <2> QED
      BY <2>1, <2>2
  <1> QED
    BY <1>3, <1>4

(* Induction up to a bound, over the set of numbers it is true of.         *)
LEMMA Climb ==
  ASSUME NEW n \in Nat, NEW T, 0 \in T, \A k \in 0..(n - 1) : k \in T => k + 1 \in T
  PROVE  \A k \in 0..n : k \in T
  <1> DEFINE Out == {k \in 0..n : k \notin T}
  <1>1. SUFFICES ASSUME Out # {} PROVE FALSE
    OBVIOUS
  <1>2. Out \subseteq Nat
    OBVIOUS
  <1> HIDE DEF Out
  <1>3. PICK m \in Out : \A k \in Out : m <= k
    BY <1>1, <1>2, Least
  <1> USE DEF Out
  <1>4. m \in 1..n /\ m - 1 \in 0..(n - 1) /\ m - 1 \notin Out
    BY <1>3
  <1> QED
    BY <1>3, <1>4

(* FlattenSeq is what its recursion says it is.                            *)
LEMMA Flattened ==
  ASSUME NEW S, NEW s \in Seq(Seq(S)), Len(s) # 0
  PROVE  \E g : /\ g = [i \in 1..Len(s) |-> IF i = 1 THEN s[i] ELSE g[i - 1] \o s[i]]
                /\ FlattenSeq(s) = g[Len(s)]
  <1> DEFINE F(n, g) == [i \in 1..n |-> IF i = 1 THEN s[i] ELSE g[i - 1] \o s[i]]
             h == CHOOSE g : g = F(Len(s), g)
             T == {n \in Nat : n <= Len(s) => \E g : g = F(n, g)}
  <1>1. FlattenSeq(s) = h[Len(s)]
    BY DEF FlattenSeq
  <1>2. 0 \in T
    <2>1. [i \in 1..0 |-> s[i]] = F(0, [i \in 1..0 |-> s[i]])
      OBVIOUS
    <2> QED
      BY <2>1
  <1>3. ASSUME NEW n \in 0..(Len(s) - 1), n \in T PROVE n + 1 \in T
    <2>0. n \in Nat /\ n <= Len(s)
      OBVIOUS
    <2>1. PICK g : g = F(n, g)
      <3> HIDE DEF F
      <3> QED
        BY <1>3, <2>0
    <2> DEFINE e == [i \in 1..(n + 1) |->
                        IF i <= n THEN g[i] ELSE IF i = 1 THEN s[i] ELSE g[n] \o s[i]]
    <2>2. ASSUME NEW i \in 1..(n + 1)
          PROVE  e[i] = IF i = 1 THEN s[i] ELSE e[i - 1] \o s[i]
      <3>1. CASE i <= n
        <4>1. i \in 1..n
          BY <2>0, <3>1
        <4>2. F(n, g)[i] = IF i = 1 THEN s[i] ELSE g[i - 1] \o s[i]
          BY <4>1
        <4>3. g[i] = IF i = 1 THEN s[i] ELSE g[i - 1] \o s[i]
          BY <2>1, <4>2, Zenon
        <4>4. e[i] = g[i] /\ (i # 1 => e[i - 1] = g[i - 1])
          BY <2>0, <4>1
        <4> QED
          BY <4>3, <4>4
      <3>2. CASE i = n + 1
        BY <3>2
      <3> QED
        BY <3>1, <3>2
    <2>3. e = F(n + 1, e)
      BY <2>2
    <2> HIDE DEF F
    <2> QED
      BY <2>3, <2>0
  <1>4. \E g : g = F(Len(s), g)
    <2> HIDE DEF F
    <2>1. Len(s) \in Nat
      OBVIOUS
    <2>2. \A k \in 0..Len(s) : k \in T
      <3> HIDE DEF T
      <3> QED
        BY <1>2, <1>3, <2>1, Climb
    <2> QED
      BY <2>1, <2>2
  <1>5. h = F(Len(s), h)
    <2> HIDE DEF F
    <2> QED
      BY <1>4
  <1> QED
    BY <1>1, <1>5

(* Two sequences one after the other.                                     *)
LEMMA Joint ==
  ASSUME NEW S, NEW a \in Seq(S), NEW b \in Seq(S)
  PROVE  /\ a \o b \in Seq(S)
         /\ Len(a) \in Nat /\ Len(b) \in Nat
         /\ Len(a \o b) = Len(a) + Len(b)
         /\ \A k \in 1..Len(a) : (a \o b)[k] = a[k]
         /\ \A j \in 1..Len(b) : (a \o b)[Len(a) + j] = b[j]
  OBVIOUS

(* Where each of the first n parts of s is in flat, which is made of them:  *)
(* the i-th after the first at[i - 1] places, and nothing elsewhere.       *)
Upto(n, s, flat, at) ==
    /\ at[0] = 0 /\ Len(flat) = at[n]
    /\ \A i \in 0..n : at[i] \in Nat /\ at[i] <= at[n]
    /\ \A i \in 1..n : at[i] = at[i - 1] + Len(s[i])
    /\ \A i \in 1..n : \A j \in 1..Len(s[i]) : flat[at[i - 1] + j] = s[i][j]
    /\ \A k \in 1..Len(flat) : \E i \in 1..n : \E j \in 1..Len(s[i]) : k = at[i - 1] + j

(* One part more, at the end.                                             *)
LEMMA OneMore ==
  ASSUME NEW S, NEW flat \in Seq(S), NEW part \in Seq(S), NEW n \in Nat, NEW m \in Nat,
         m = n + 1, NEW s, NEW at, Upto(n, s, flat, at),
         \A i \in 1..n : Len(s[i]) \in Nat,
         s[m] = part, at[m] = at[n] + Len(part)
  PROVE  Upto(m, s, flat \o part, at)
  <1> DEFINE more == flat \o part
  <1>1. /\ m - 1 = n
        /\ \A i : i \in 1..m <=> i \in 1..n \/ i = m
        /\ \A i : i \in 0..m <=> i \in 0..n \/ i = m
        /\ \A i : i \in 1..n => i \in 0..n /\ i - 1 \in 0..n
    OBVIOUS
  <1>2. /\ more \in Seq(S)
        /\ Len(flat) \in Nat /\ Len(part) \in Nat
        /\ Len(more) = Len(flat) + Len(part)
        /\ \A k \in 1..Len(flat) : more[k] = flat[k]
        /\ \A j \in 1..Len(part) : more[Len(flat) + j] = part[j]
    BY Joint
  <1>3. /\ at[n] = Len(flat) /\ at[m] = at[n] + Len(part)
        /\ at[n] \in Nat /\ at[m] \in Nat /\ at[n] <= at[m]
    BY <1>2 DEF Upto
  <1> HIDE DEF more
  <1>4. ASSUME NEW i \in 1..m PROVE at[i] = at[i - 1] + Len(s[i])
    BY <1>1, <1>3 DEF Upto
  <1>5. ASSUME NEW i \in 0..m PROVE at[i] \in Nat /\ at[i] <= at[m]
    <2>1. i \in 0..n => at[i] \in Nat /\ at[i] <= at[n]
      BY DEF Upto
    <2> QED
      BY <1>1, <1>3, <2>1
  <1>6. ASSUME NEW i \in 1..m, NEW j \in 1..Len(s[i])
        PROVE  more[at[i - 1] + j] = s[i][j]
    <2>1. CASE i \in 1..n
      <3>1. /\ at[i] = at[i - 1] + Len(s[i]) /\ at[i] <= at[n]
            /\ at[i - 1] \in Nat /\ at[i] \in Nat
        BY <1>1, <2>1 DEF Upto
      <3>2. at[i - 1] + j \in 1..Len(flat)
        <4> DEFINE lo == at[i - 1]
                   hi == at[i]
                   len == Len(s[i])
                   top == Len(flat)
        <4>1. /\ lo \in Nat /\ hi \in Nat /\ len \in Nat /\ top \in Nat
              /\ hi = lo + len /\ hi <= top /\ j \in 1..len
          BY <1>2, <1>3, <2>1, <3>1
        <4> HIDE DEF lo, hi, len, top
        <4>2. lo + j \in 1..top
          BY <4>1
        <4> QED
          BY <4>2 DEF lo, top
      <3>3. flat[at[i - 1] + j] = s[i][j]
        BY <2>1 DEF Upto
      <3> QED
        BY <1>2, <3>2, <3>3
    <2>2. CASE i = m
      BY <1>1, <1>2, <1>3, <2>2
    <2> QED
      BY <1>1, <2>1, <2>2
  <1>7. ASSUME NEW k \in 1..Len(more)
        PROVE  \E i \in 1..m : \E j \in 1..Len(s[i]) : k = at[i - 1] + j
    <2>1. CASE k \in 1..Len(flat)
      <3>1. PICK i \in 1..n : \E j \in 1..Len(s[i]) : k = at[i - 1] + j
        BY <2>1 DEF Upto
      <3> QED
        BY <1>1, <3>1
    <2>2. CASE k \notin 1..Len(flat)
      <3>1. k - Len(flat) \in 1..Len(part) /\ k = Len(flat) + (k - Len(flat))
        BY <1>2, <2>2
      <3>2. m \in 1..m
        BY <1>1
      <3> QED
        BY <1>1, <1>3, <3>1, <3>2
    <2> QED
      BY <2>1, <2>2
  <1>8. at[0] = 0 /\ Len(more) = at[m]
    BY <1>2, <1>3 DEF Upto
  <1>9. Upto(m, s, more, at)
    BY <1>4, <1>5, <1>6, <1>7, <1>8 DEF Upto
  <1> QED
    BY <1>9 DEF more

(* The layout of a flattened sequence.                                     *)
Layout(s, flat, at) ==
    /\ Upto(Len(s), s, flat, at)
    /\ \A i, j \in 0..Len(s) : i <= j => at[i] <= at[j]

(* Every flattened sequence has one: FlattenSeq loses, adds and reorders   *)
(* nothing.                                                                *)
LEMMA Laid ==
  ASSUME NEW S, NEW s \in Seq(Seq(S))
  PROVE  FlattenSeq(s) \in Seq(S) /\ \E at : Layout(s, FlattenSeq(s), at)
  <1> DEFINE L == Len(s)
  <1>0. L \in Nat /\ \A i \in 1..L : s[i] \in Seq(S) /\ Len(s[i]) \in Nat
    OBVIOUS
  <1>1. CASE L = 0
    <2>1. s = << >> /\ FlattenSeq(s) = << >>
      BY <1>1 DEF FlattenSeq
    <2>2. Layout(s, << >>, [i \in 0..0 |-> 0])
      BY <2>1 DEF Layout, Upto
    <2> QED
      BY <2>1, <2>2
  <1>2. CASE L # 0
    <2>1. PICK g : /\ g = [i \in 1..L |-> IF i = 1 THEN s[i] ELSE g[i - 1] \o s[i]]
                   /\ FlattenSeq(s) = g[L]
      BY <1>2, Flattened
    <2> HIDE DEF L
    <2>2. ASSUME NEW i \in 1..L PROVE g[i] = IF i = 1 THEN s[i] ELSE g[i - 1] \o s[i]
      BY <2>1
    <2>3. g[1] = s[1] /\ 1 \in 1..L
      BY <1>0, <1>2, <2>2
    <2> DEFINE at == [i \in 0..L |-> IF i = 0 THEN 0 ELSE Len(g[i])]
               T == {n \in 0..L : n # 0 => g[n] \in Seq(S) /\ Upto(n, s, g[n], at)}
    <2>4. at[0] = 0 /\ \A i \in 1..L : at[i] = Len(g[i])
      BY <1>0
    <2> HIDE DEF at
    <2>5. g[1] \in Seq(S) /\ Upto(1, s, g[1], at)
      <3>1. s[1] \in Seq(S) /\ Len(s[1]) \in Nat /\ at[0] = 0 /\ at[1] = Len(s[1]) /\ g[1] = s[1]
        BY <1>0, <2>3, <2>4
      <3> QED
        BY <3>1 DEF Upto
    <2>6. ASSUME NEW n \in 1..(L - 1), NEW m \in 1..L, m = n + 1,
                 g[n] \in Seq(S), Upto(n, s, g[n], at)
          PROVE  g[m] \in Seq(S) /\ Upto(m, s, g[m], at)
      <3>1. n \in 1..L /\ m # 1 /\ m - 1 = n /\ n \in Nat /\ m \in Nat
        BY <1>0, <2>6
      <3>2. g[m] = g[n] \o s[m]
        BY <2>2, <3>1
      <3>3. s[m] \in Seq(S) /\ \A i \in 1..n : Len(s[i]) \in Nat
        BY <1>0, <3>1
      <3>4. g[m] \in Seq(S) /\ Len(g[m]) = Len(g[n]) + Len(s[m])
        BY <2>6, <3>2, <3>3, Joint
      <3>5. at[m] = at[n] + Len(s[m])
        BY <2>4, <3>1, <3>4
      <3> QED
        BY <2>6, <3>1, <3>2, <3>3, <3>4, <3>5, OneMore
    <2>7. ASSUME NEW n \in 1..L PROVE g[n] \in Seq(S) /\ Upto(n, s, g[n], at)
      <3>1. 0 \in T
        BY <1>0
      <3>2. ASSUME NEW n_1 \in 0..(L - 1), n_1 \in T PROVE n_1 + 1 \in T
        <4>1. PICK m \in 1..L : m = n_1 + 1
          BY <1>0
        <4>2. m \in 0..L
          BY <1>0
        <4>3. CASE n_1 = 0
          <5>1. m = 1
            BY <4>1, <4>3
          <5> QED
            BY <2>5, <4>1, <4>2, <5>1
        <4>4. CASE n_1 # 0
          <5>1. n_1 \in 1..(L - 1) /\ g[n_1] \in Seq(S) /\ Upto(n_1, s, g[n_1], at)
            BY <1>0, <3>2, <4>4
          <5>2. g[m] \in Seq(S) /\ Upto(m, s, g[m], at)
            BY <2>6, <4>1, <5>1
          <5> QED
            BY <4>1, <4>2, <5>2
        <4> QED
          BY <4>3, <4>4
      <3>3. \A k \in 0..L : k \in T
        <4> HIDE DEF T
        <4> QED
          BY <1>0, <3>1, <3>2, Climb
      <3>4. n \in 0..L /\ n # 0
        BY <1>0
      <3> QED
        BY <3>3, <3>4
    <2>8. L \in 1..L
      BY <1>0, <1>2
    <2>9. ASSUME NEW i \in 0..L, NEW j \in 0..L, i <= j PROVE at[i] <= at[j]
      <3>1. CASE j = 0
        <4>1. i = 0
          BY <1>0, <2>9, <3>1
        <4> QED
          BY <2>4, <3>1, <4>1
      <3>2. CASE j # 0
        <4>1. j \in 1..L /\ i \in 0..j
          BY <1>0, <2>9, <3>2
        <4> QED
          BY <2>7, <4>1 DEF Upto
      <3> QED
        BY <3>1, <3>2
    <2>10. FlattenSeq(s) \in Seq(S) /\ Upto(L, s, FlattenSeq(s), at)
      BY <2>1, <2>7, <2>8
    <2> QED
      BY <2>9, <2>10 DEF Layout, L
  <1> QED
    BY <1>1, <1>2

(* Parts are laid out in their order.                                      *)
LEMMA PartsInOrder ==
  ASSUME NEW s, NEW flat, NEW at, Layout(s, flat, at), Len(s) \in Nat,
         NEW i \in 1..Len(s), NEW k \in 1..Len(s),
         Len(s[i]) \in Nat, Len(s[k]) \in Nat,
         NEW j \in 1..Len(s[i]), NEW l \in 1..Len(s[k]),
         at[i - 1] + j <= at[k - 1] + l
  PROVE  i <= k
  <1>1. /\ i - 1 \in 0..Len(s) /\ k - 1 \in 0..Len(s) /\ k \in 0..Len(s)
    OBVIOUS
  <1>2. at[i - 1] \in Nat /\ at[k - 1] \in Nat /\ at[k] \in Nat
    BY <1>1 DEF Layout, Upto
  <1>3. at[k] = at[k - 1] + Len(s[k])
    BY DEF Layout, Upto
  <1>4. ASSUME k <= i - 1 PROVE FALSE
    <2>1. at[k] <= at[i - 1]
      BY <1>1, <1>4 DEF Layout
    <2> QED
      BY SMTT(30), <1>2, <1>3, <2>1
  <1> QED
    BY <1>4

(* Flattened parts of one element at most are the elements of those that    *)
(* have one, in their order: the k-th is that of part pos[k].              *)
Sifting(s, flat, pos) ==
    /\ pos \in [1..Len(flat) -> 1..Len(s)]
    /\ \A k \in 1..Len(flat) : Len(s[pos[k]]) = 1 /\ flat[k] = s[pos[k]][1]
    /\ \A k, l \in 1..Len(flat) : k < l => pos[k] < pos[l]
    /\ \A n \in 1..Len(s) : Len(s[n]) = 1 => \E k \in 1..Len(flat) : pos[k] = n

LEMMA Sifted ==
  ASSUME NEW S, NEW s \in Seq(Seq(S)), \A n \in 1..Len(s) : Len(s[n]) <= 1
  PROVE  /\ FlattenSeq(s) \in Seq(S)
         /\ \E pos : Sifting(s, FlattenSeq(s), pos)
  <1> DEFINE flat == FlattenSeq(s)
  <1>1. PICK at : flat \in Seq(S) /\ Layout(s, flat, at)
    BY Laid
  <1>2. Len(s) \in Nat /\ Len(flat) \in Nat /\ \A n \in 1..Len(s) : Len(s[n]) \in {0, 1}
    <2>1. \A n \in 1..Len(s) : s[n] \in Seq(S)
      OBVIOUS
    <2>2. ASSUME NEW n \in 1..Len(s) PROVE Len(s[n]) \in {0, 1}
      <3> DEFINE l == Len(s[n])
      <3>1. l \in Nat /\ l <= 1
        BY <2>1
      <3> HIDE DEF l
      <3>2. l = 0 \/ l = 1
        BY <3>1
      <3> QED
        BY <3>2 DEF l
    <2>3. Len(s) \in Nat /\ Len(flat) \in Nat
      BY <1>1
    <2> HIDE DEF flat
    <2> QED
      BY <2>2, <2>3
  <1> HIDE DEF flat
  <1> DEFINE Place(k, n) == Len(s[n]) = 1 /\ k = at[n - 1] + 1
             pos == [k \in 1..Len(flat) |-> CHOOSE n \in 1..Len(s) : Place(k, n)]
  <1>3. ASSUME NEW k \in 1..Len(flat) PROVE pos[k] \in 1..Len(s) /\ Place(k, pos[k])
    <2>1. PICK n \in 1..Len(s) : \E j \in 1..Len(s[n]) : k = at[n - 1] + j
      BY <1>1 DEF Layout, Upto
    <2>2. Place(k, n)
      BY <1>2, <2>1
    <2> HIDE DEF Place
    <2> QED
      BY <2>2
  <1> HIDE DEF pos
  <1>4. ASSUME NEW k \in 1..Len(flat) PROVE flat[k] = s[pos[k]][1]
    <2>0. pos[k] \in 1..Len(s) /\ Len(s[pos[k]]) = 1 /\ k = at[pos[k] - 1] + 1
      BY <1>3
    <2>1. 1 \in 1..Len(s[pos[k]])
      BY <2>0
    <2> QED
      BY <1>1, <2>0, <2>1 DEF Layout, Upto
  <1>5. ASSUME NEW k \in 1..Len(flat), NEW l \in 1..Len(flat), k < l
        PROVE  pos[k] < pos[l]
    <2>1. /\ pos[k] \in 1..Len(s) /\ pos[l] \in 1..Len(s)
          /\ Len(s[pos[k]]) = 1 /\ Len(s[pos[l]]) = 1
          /\ k = at[pos[k] - 1] + 1 /\ l = at[pos[l] - 1] + 1
      BY <1>3
    <2>2. pos[k] <= pos[l]
      <3> DEFINE a == pos[k]
                 b == pos[l]
      <3>1. /\ a \in 1..Len(s) /\ b \in 1..Len(s)
            /\ Len(s[a]) \in Nat /\ Len(s[b]) \in Nat
            /\ 1 \in 1..Len(s[a]) /\ 1 \in 1..Len(s[b])
            /\ at[a - 1] + 1 <= at[b - 1] + 1
        BY <1>5, <2>1
      <3> HIDE DEF a, b
      <3>2. a <= b
        BY <1>1, <1>2, <3>1, PartsInOrder
      <3> QED
        BY <3>2 DEF a, b
    <2>3. pos[k] # pos[l]
      BY <1>5, <2>1
    <2> QED
      BY <2>1, <2>2, <2>3
  <1>6. ASSUME NEW n \in 1..Len(s), Len(s[n]) = 1
        PROVE  \E k \in 1..Len(flat) : pos[k] = n
    <2>1. /\ at[n] = at[n - 1] + 1 /\ at[n - 1] \in Nat /\ at[n] \in Nat
          /\ at[n] <= Len(flat)
      <3>1. n - 1 \in 0..Len(s) /\ n \in 0..Len(s)
        BY <1>2
      <3> QED
        BY <1>1, <1>6, <3>1 DEF Layout, Upto
    <2>2. PICK k \in 1..Len(flat) : k = at[n - 1] + 1
      BY <1>2, <2>1
    <2>3. /\ pos[k] \in 1..Len(s) /\ Len(s[pos[k]]) = 1
          /\ k = at[pos[k] - 1] + 1
      BY <1>3
    <2> DEFINE a == pos[k]
    <2>4. /\ a \in 1..Len(s) /\ Len(s[a]) \in Nat /\ Len(s[n]) \in Nat
          /\ 1 \in 1..Len(s[a]) /\ 1 \in 1..Len(s[n])
          /\ at[a - 1] + 1 <= at[n - 1] + 1 /\ at[n - 1] + 1 <= at[a - 1] + 1
      BY <1>6, <2>1, <2>2, <2>3
    <2> HIDE DEF a
    <2>5. a <= n
      BY <1>1, <1>2, <2>4, PartsInOrder
    <2>6. n <= a
      BY <1>1, <1>2, <2>4, PartsInOrder
    <2>7. a = n
      BY <2>4, <2>5, <2>6
    <2> QED
      BY <2>7 DEF a
  <1>7. pos \in [1..Len(flat) -> 1..Len(s)]
    BY <1>3 DEF pos
  <1>8. \A k \in 1..Len(flat) : Len(s[pos[k]]) = 1 /\ flat[k] = s[pos[k]][1]
    BY <1>3, <1>4
  <1>9. Sifting(s, flat, pos)
    BY <1>5, <1>6, <1>7, <1>8 DEF Sifting
  <1> QED
    BY <1>1, <1>9 DEF flat
=============================================================================
