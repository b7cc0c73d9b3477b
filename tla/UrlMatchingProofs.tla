------------------------- MODULE UrlMatchingProofs -------------------------
(***************************************************************************)
(* What UrlMatching guarantees for every set of roots and every set of     *)
(* URLs: what is accepted is what belongs to the provider, and what is     *)
(* sent leads under the root, which ends where a segment of it ends.       *)
(*                                                                         *)
(* The texts are compared character by character and the properties are    *)
(* about segments, so most of this lays out a text in the pieces between   *)
(* its slashes: Pieces says where each one is.                             *)
(***************************************************************************)
EXTENDS UrlMatching, NamespacingProofs, TLAPS

(* IsPrefix, character by character.                                       *)
LEMMA StartsWith ==
  ASSUME NEW s \in Seq(Char), NEW t \in Seq(Char), IsPrefix(s, t)
  PROVE  Len(s) <= Len(t) /\ \A i \in 1..Len(s) : t[i] = s[i]
  <1>1. Len(s) <= Len(t) /\ SubSeq(s, 1, Len(s)) = SubSeq(t, 1, Len(s))
    BY DEF IsPrefix
  <1>2. ASSUME NEW i \in 1..Len(s) PROVE t[i] = s[i]
    <2>1. SubSeq(s, 1, Len(s))[i] = s[i] /\ SubSeq(t, 1, Len(s))[i] = t[i]
      BY <1>1
    <2> QED
      BY <1>1, <2>1
  <1> QED
    BY <1>1, <1>2

LEMMA Pairs == ASSUME NEW S, NEW c \in S, NEW n \in Nat PROVE <<c, n>> \in S \X Nat
  OBVIOUS

LEMMA Characters == \A c \in Symbols, n \in Nat : <<c, n>> \in Char
  BY Pairs, Zenon DEF Char

LEMMA Literals ==
  /\ Slash \in Char /\ <<" ", 1>> \in Char
  /\ <<":8443", 0>> \in Char /\ <<"accounts", 0>> \in Char
  BY Characters, SymbolsAssumption DEF Slash

LEMMA Single ==
  ASSUME NEW S, NEW c \in S
  PROVE  <<c>> \in Seq(S) /\ Len(<<c>>) = 1 /\ <<c>>[1] = c
  OBVIOUS

LEMMA Lists ==
  ASSUME NEW S, NEW s \in Seq(S), NEW c \in S
  PROVE  /\ Append(s, c) \in Seq(S) /\ Len(Append(s, c)) = Len(s) + 1
         /\ \A i \in 1..Len(s) : Append(s, c)[i] = s[i]
         /\ Append(s, c)[Len(s) + 1] = c
  OBVIOUS

LEMMA Functions ==
  ASSUME NEW S, NEW n \in Nat, NEW f \in [1..n -> S]
  PROVE  f \in Seq(S) /\ Len(f) = n
  OBVIOUS

LEMMA Joined ==
  ASSUME NEW S, NEW s \in Seq(S), NEW t \in Seq(S)
  PROVE  /\ s \o t \in Seq(S) /\ Len(s \o t) = Len(s) + Len(t)
         /\ \A i \in 1..Len(s) : (s \o t)[i] = s[i]
         /\ \A i \in 1..Len(t) : (s \o t)[Len(s) + i] = t[i]
  OBVIOUS

LEMMA Lowered == ASSUME NEW c \in Char PROVE Lower(c) \in Char
  <1>1. c[2] \in Nat
    BY DEF Char
  <1>2. "bank" \in Symbols
    BY SymbolsAssumption
  <1>3. <<"bank", c[2]>> \in Char
    BY <1>1, <1>2, Characters
  <1> QED
    BY <1>3, Zenon DEF Lower

LEMMA Rendered ==
  ASSUME NEW path \in Seq(Char)
  PROVE  Normal(path) \in Seq(Char) /\ Len(Normal(path)) \in Nat
  <1> DEFINE p == Normal(path)
  <1>1. <<" ", 1>> \in Char
    BY Literals
  <1>2. DOMAIN path = 1..Len(path)
    OBVIOUS
  <1>3. p = [i \in 1..Len(path) |-> IF path[i] = Space THEN <<" ", 1>> ELSE path[i]]
    BY <1>2 DEF Normal
  <1>4. \A i \in 1..Len(path) : path[i] \in Char
    OBVIOUS
  <1>5. \A i \in 1..Len(path) : (IF path[i] = Space THEN <<" ", 1>> ELSE path[i]) \in Char
    BY <1>1, <1>4, Zenon
  <1>6. p \in [1..Len(path) -> Char]
    BY <1>3, <1>5, Zenon
  <1> HIDE DEF p
  <1>7. p \in Seq(Char)
    BY <1>6, Functions
  <1> QED
    BY <1>7 DEF p

(* The texts that are compared and sent, and how they begin.               *)
LEMMA Texts ==
  ASSUME NEW raw \in RawUrl
  PROVE  /\ Text(raw) \in Seq(Char) /\ Len(Text(raw)) >= 1
         /\ raw.host # << >> => Len(Text(raw)) >= 2
         /\ Text(raw)[1] = raw.scheme /\ raw.scheme # Slash
         /\ Loopback(raw.host) => Text(raw)[2] = <<"127.0.0.1", 0>>
  <1> DEFINE host == [i \in DOMAIN raw.host |-> Lower(raw.host[i])]
             port == IF raw.port = "other" THEN <<<<":8443", 0>>>> ELSE << >>
             path == Normal(raw.path)
  <1>1. /\ raw.host \in Seq(Char) /\ raw.path \in Seq(Char)
        /\ raw.scheme \in Char /\ raw.scheme # Slash
    BY DEF RawUrl, Slash
  <1>3. host \in Seq(Char) /\ Len(host) = Len(raw.host)
    <2>1. DOMAIN raw.host = 1..Len(raw.host)
      BY <1>1
    <2>2. \A i \in 1..Len(raw.host) : Lower(raw.host[i]) \in Char
      BY <1>1, Lowered
    <2> QED
      BY <1>1, <2>1, <2>2
  <1>4. port \in Seq(Char)
    <2>1. <<<<":8443", 0>>>> \in Seq(Char)
      BY Literals, Single
    <2>2. << >> \in Seq(Char)
      OBVIOUS
    <2> QED
      BY <2>1, <2>2, Zenon
  <1>5. path \in Seq(Char)
    BY <1>1, Rendered
  <1>6. Text(raw) = <<raw.scheme>> \o host \o port \o path
    BY DEF Text, Origin
  <1>7. raw.host # << >> => Len(host) >= 1
    BY <1>1, <1>3
  <1>8. Loopback(raw.host) => host[1] = <<"127.0.0.1", 0>> /\ Len(host) = 1
    BY <1>3 DEF Loopback, Lower
  <1> HIDE DEF host, port, path
  <1> QED
    BY <1>1, <1>3, <1>4, <1>5, <1>6, <1>7, <1>8

(* The root's text is a URL's text but for the slash at its end.           *)
LEMMA RootTexts ==
  ASSUME NEW r \in RawUrl
  PROVE  /\ RootText(r) \in Seq(Char) /\ Len(RootText(r)) >= 2
         /\ RootText(r)[Len(RootText(r))] = Slash
         /\ RootText(r)[1] = r.scheme
         /\ Loopback(r.host) => RootText(r)[2] = <<"127.0.0.1", 0>>
  <1> DEFINE t == Text(r)
  <1>1. t \in Seq(Char) /\ Len(t) >= 1 /\ t[1] = r.scheme /\ r.scheme # Slash
        /\ (Loopback(r.host) => t[2] = <<"127.0.0.1", 0>> /\ Len(t) >= 2)
    BY Texts DEF Loopback
  <1>2. RootText(r) = IF t[Len(t)] = Slash THEN t ELSE Append(t, Slash)
    BY DEF RootText, Last
  <1> HIDE DEF t
  <1>3. CASE t[Len(t)] = Slash
    BY <1>1, <1>2, <1>3
  <1>4. CASE t[Len(t)] # Slash
    <2>1. RootText(r) = Append(t, Slash)
      BY <1>2, <1>4
    <2>2. /\ Append(t, Slash) \in Seq(Char) /\ Len(Append(t, Slash)) = Len(t) + 1
          /\ \A i \in 1..Len(t) : Append(t, Slash)[i] = t[i]
          /\ Append(t, Slash)[Len(t) + 1] = Slash
      BY <1>1, Literals, Lists
    <2> QED
      BY <1>1, <2>1, <2>2
  <1> QED
    BY <1>3, <1>4

(* Two texts that agree agree once decoded, and a slash stays one.         *)
LEMMA Views ==
  ASSUME NEW s \in Seq(Char), NEW n \in {0, 1}
  PROVE  /\ DOMAIN View(n, s) = 1..Len(s) /\ Len(View(n, s)) = Len(s)
         /\ \A i \in 1..Len(s) : View(n, s)[i] = Less(s[i], n)
         /\ Less(Slash, n) = Slash
  BY DEF View, Less, Slash

(* What Matches gives: t is the root's text up to its last slash, and a    *)
(* slash comes next if anything does.                                      *)
Under(r, t) ==
    /\ t \in Seq(Char)
    /\ Len(t) >= Len(RootText(r)) - 1
    /\ \A i \in 1..(Len(RootText(r)) - 1) : t[i] = RootText(r)[i]
    /\ Len(t) >= Len(RootText(r)) => t[Len(RootText(r))] = Slash

LEMMA MatchesUnder ==
  ASSUME NEW r \in RawUrl, NEW raw \in RawUrl,
         Matches(r, raw), ~DoubleSlash(r)
  PROVE  Under(r, Text(raw)) /\ Under(r, AccountsUrl(raw))
  <1> DEFINE t == Text(raw)
             s == RootText(r)
  <1>1. t \in Seq(Char) /\ s \in Seq(Char) /\ Len(s) >= 2 /\ s[Len(s)] = Slash
    BY Texts, RootTexts
  <1> HIDE DEF t, s
  <1>2. /\ Append(t, Slash) \in Seq(Char) /\ Len(Append(t, Slash)) = Len(t) + 1
        /\ \A i \in 1..Len(t) : Append(t, Slash)[i] = t[i]
        /\ Append(t, Slash)[Len(t) + 1] = Slash
    <2>1. t \in Seq(Char) /\ Slash \in Char
      BY <1>1, Literals
    <2> QED
      BY <2>1, Lists
  <1>3. Len(s) <= Len(t) + 1 /\ \A i \in 1..Len(s) : Append(t, Slash)[i] = s[i]
    <2>1. IsPrefix(s, Append(t, Slash))
      BY DEF Matches, s, t
    <2> QED
      BY <1>1, <1>2, <2>1, StartsWith
  <1>4. Under(r, t)
    BY <1>1, <1>2, <1>3 DEF Under, s
  <1>5. Under(r, AccountsUrl(raw))
    <2> DEFINE base == IF Last(t) = Slash THEN t ELSE Append(t, Slash)
               tail == <<<<"accounts", 0>>>>
    <2>1. tail \in Seq(Char) /\ Len(tail) = 1
      BY Literals, Single
    <2>2. base \in Seq(Char)
      BY <1>1, <1>2, Zenon
    <2>3. Len(base) >= Len(s) /\ \A i \in 1..Len(s) : base[i] = s[i]
      <3>1. CASE Last(t) # Slash
        BY <3>1, <1>1, <1>2, <1>3
      <3>2. CASE Last(t) = Slash /\ Len(t) >= Len(s)
        BY <3>2, <1>1, <1>2, <1>3
      <3>3. CASE Last(t) = Slash /\ Len(t) < Len(s)
        \* The candidate's own slash would have matched the second of two.
        BY <3>3, <1>1, <1>2, <1>3 DEF DoubleSlash, Last, s
      <3> QED
        BY <3>1, <3>2, <3>3, <1>1
    <2>4. AccountsUrl(raw) = base \o tail
      BY DEF AccountsUrl, t
    <2> HIDE DEF base, tail
    <2>5. /\ AccountsUrl(raw) \in Seq(Char)
          /\ Len(AccountsUrl(raw)) = Len(base) + 1
          /\ \A i \in 1..Len(base) : AccountsUrl(raw)[i] = base[i]
      <3>1. /\ base \o tail \in Seq(Char) /\ Len(base \o tail) = Len(base) + Len(tail)
            /\ \A i \in 1..Len(base) : (base \o tail)[i] = base[i]
        BY <2>1, <2>2, Joined
      <3> QED
        BY <2>1, <2>4, <3>1
    <2> DEFINE u == AccountsUrl(raw)
    <2> HIDE DEF u
    <2>6. u \in Seq(Char) /\ Len(u) = Len(base) + 1 /\ \A i \in 1..Len(base) : u[i] = base[i]
      BY <2>5 DEF u
    <2>7. Len(s) \in Nat /\ Len(base) \in Nat
      BY <1>1, <2>2
    <2>8. Len(u) >= Len(s) /\ \A i \in 1..Len(s) : u[i] = s[i]
      BY <2>3, <2>6, <2>7
    <2>9. Under(r, u)
      BY <1>1, <2>6, <2>7, <2>8 DEF Under, s
    <2> QED
      BY <2>9 DEF u
  <1> QED
    BY <1>4, <1>5 DEF t

(* What is put on the wire begins like the root: its scheme, and its host  *)
(* when that is an address of this machine.                                *)
Begins(r, t) ==
    /\ t \in Seq(Char) /\ Len(t) >= 2
    /\ t[1] = r.scheme
    /\ Loopback(r.host) => t[2] = <<"127.0.0.1", 0>>

LEMMA MatchesBegins ==
  ASSUME NEW r \in RawUrl, NEW raw \in RawUrl, Matches(r, raw), raw.host # << >>
  PROVE  Begins(r, Text(raw)) /\ Begins(r, AccountsUrl(raw))
  <1> DEFINE t == Text(raw)
             s == RootText(r)
             base == IF Last(t) = Slash THEN t ELSE Append(t, Slash)
             tail == <<<<"accounts", 0>>>>
  <1>1. /\ t \in Seq(Char) /\ Len(t) >= 2
        /\ s \in Seq(Char) /\ Len(s) >= 2 /\ s[1] = r.scheme
        /\ Loopback(r.host) => s[2] = <<"127.0.0.1", 0>>
    BY Texts, RootTexts
  <1>2. IsPrefix(s, Append(t, Slash)) /\ AccountsUrl(raw) = base \o tail
    BY DEF Matches, AccountsUrl
  <1>3. tail \in Seq(Char) /\ Slash \in Char
    BY Literals, Single
  <1> HIDE DEF t, s, tail
  <1>4. /\ Append(t, Slash) \in Seq(Char) /\ Len(Append(t, Slash)) = Len(t) + 1
        /\ \A i \in 1..Len(t) : Append(t, Slash)[i] = t[i]
    BY <1>1, <1>3, Lists
  <1>5. base \in Seq(Char) /\ Len(base) >= Len(t) /\ \A i \in 1..Len(t) : base[i] = t[i]
    BY <1>1, <1>4
  <1>6. \A i \in 1..2 : t[i] = s[i]
    <2>1. \A i \in 1..Len(s) : Append(t, Slash)[i] = s[i]
      BY <1>1, <1>2, <1>4, StartsWith
    <2> QED
      BY <1>1, <1>4, <2>1
  <1>7. Begins(r, t)
    BY <1>1, <1>6 DEF Begins
  <1> HIDE DEF base
  <1>8. /\ base \o tail \in Seq(Char) /\ Len(base \o tail) >= Len(base)
        /\ \A i \in 1..Len(base) : (base \o tail)[i] = base[i]
    BY <1>3, <1>5, Joined
  <1> DEFINE u == base \o tail
  <1>9. u \in Seq(Char) /\ Len(u) >= Len(base) /\ \A i \in 1..Len(base) : u[i] = base[i]
    BY <1>8
  <1> HIDE DEF u
  <1>10. Begins(r, u)
    BY <1>1, <1>5, <1>6, <1>9 DEF Begins
  <1> QED
    BY <1>2, <1>7, <1>10 DEF u, t

-----------------------------------------------------------------------------
(* Segments, laid out: the i-th of the first n characters' pieces is what  *)
(* is between at[i - 1] and at[i], where its slash is.                     *)
Sliced(text, n, cut, at) ==
    /\ cut \in Seq(Seq(Char)) /\ Len(cut) >= 1
    /\ at[0] = 0 /\ at[Len(cut)] = n + 1
    /\ \A i \in 0..Len(cut) : at[i] \in 0..(n + 1)
    /\ \A i, j \in 0..Len(cut) : i < j => at[i] < at[j]
    /\ \A i \in 1..Len(cut) : at[i] = at[i - 1] + Len(cut[i]) + 1
    /\ \A i \in 1..Len(cut) : \A j \in 1..Len(cut[i]) :
           cut[i][j] = text[at[i - 1] + j] /\ cut[i][j] # Slash
    /\ \A i \in 1..(Len(cut) - 1) : text[at[i]] = Slash
    /\ \A k \in 1..n : \E i \in 1..Len(cut) : at[i - 1] < k /\ k <= at[i]

(* A recursion that stays in a set has a function.                         *)
Recurses(g, A, first, n, step) ==
    /\ g \in [0..n -> A] /\ g[0] = first
    /\ \A i \in 1..n : g[i] = step[<<i, g[i - 1]>>]

LEMMA Recursion ==
  ASSUME NEW A, NEW first \in A, NEW n \in Nat, NEW step \in [(1..n) \X A -> A]
  PROVE  \E g : Recurses(g, A, first, n, step)
  <1> DEFINE Good(g, k) == g[0] = first /\ \A i \in 1..k : g[i] = step[<<i, g[i - 1]>>]
             T == {k \in 0..n : \E g \in [0..n -> A] : Good(g, k)}
  <1>1. 0 \in T
    <2> DEFINE g == [i \in 0..n |-> first]
    <2>1. g \in [0..n -> A] /\ Good(g, 0)
      OBVIOUS
    <2> HIDE DEF g, Good
    <2> QED
      BY <2>1
  <1>2. ASSUME NEW k \in 0..(n - 1), k \in T PROVE k + 1 \in T
    <2>1. PICK g \in [0..n -> A] : Good(g, k)
      BY <1>2
    <2> DEFINE h == [i \in 0..n |-> IF i = k + 1 THEN step[<<k + 1, g[k]>>] ELSE g[i]]
    <2>2. step[<<k + 1, g[k]>>] \in A
      <3>1. <<k + 1, g[k]>> \in (1..n) \X A
        OBVIOUS
      <3> QED
        BY <3>1
    <2>3. h \in [0..n -> A]
      BY <2>2
    <2>4. h[0] = first
      BY <2>1
    <2>5. ASSUME NEW i \in 1..(k + 1) PROVE h[i] = step[<<i, h[i - 1]>>]
      <3>1. CASE i = k + 1
        <4>1. h[i] = step[<<k + 1, g[k]>>] /\ h[i - 1] = g[k]
          BY <3>1
        <4> QED
          BY <3>1, <4>1
      <3>2. CASE i # k + 1
        <4>1. i \in 1..k /\ h[i] = g[i] /\ h[i - 1] = g[i - 1]
          BY <3>2
        <4> QED
          BY <2>1, <4>1
      <3> QED
        BY <3>1, <3>2
    <2> HIDE DEF h
    <2> QED
      BY <2>3, <2>4, <2>5
  <1> HIDE DEF T
  <1>3. n \in T
    <2>1. \A k \in 0..n : k \in T
      BY <1>1, <1>2, Climb
    <2> QED
      BY <2>1
  <1> QED
    BY <1>3 DEF T, Recurses

LEMMA CutType ==
  ASSUME NEW cut \in Seq(Seq(Char)), NEW c \in Char
  PROVE  Cut(cut, c) \in Seq(Seq(Char))
  <1>1. CASE c = Slash
    BY <1>1 DEF Cut
  <1>2. CASE c # Slash
    <2>1. \A i \in DOMAIN cut : Append(cut[i], c) \in Seq(Char) /\ cut[i] \in Seq(Char)
      OBVIOUS
    <2>2. Cut(cut, c) = [cut EXCEPT ![Len(cut)] = Append(cut[Len(cut)], c)]
      BY <1>2 DEF Cut
    <2>3. DOMAIN cut = 1..Len(cut) /\ Len(cut) \in Nat
      OBVIOUS
    <2>4. Cut(cut, c) \in [1..Len(cut) -> Seq(Char)]
      BY <2>1, <2>2, <2>3
    <2>5. \A S, m : m \in Nat => \A f \in [1..m -> S] : f \in Seq(S)
      BY Functions
    <2> QED
      BY <2>3, <2>4, <2>5, Zenon
  <1> QED
    BY <1>1, <1>2

LEMMA Segmented ==
  ASSUME NEW text \in Seq(Char)
  PROVE  \E g : /\ g[0] = <<<< >>>>
                /\ \A n \in 1..Len(text) : g[n] = Cut(g[n - 1], text[n])
                /\ Segments(text) = g[Len(text)]
  <1> DEFINE L == Len(text)
             A == Seq(Seq(Char))
             step == [x \in (1..L) \X A |-> Cut(x[2], text[x[1]])]
             F(g) == [n \in 0..L |-> IF n = 0 THEN <<<< >>>> ELSE Cut(g[n - 1], text[n])]
             h == CHOOSE g : g = F(g)
  <1>1. L \in Nat /\ <<<< >>>> \in A
    OBVIOUS
  <1>2. Segments(text) = h[L]
    BY DEF Segments
  <1>3. step \in [(1..L) \X A -> A]
    <2>1. ASSUME NEW x \in (1..L) \X A PROVE Cut(x[2], text[x[1]]) \in A
      <3>1. x[2] \in A /\ x[1] \in 1..L /\ text[x[1]] \in Char
        OBVIOUS
      <3> QED
        BY <3>1, CutType
    <2> QED
      BY <2>1
  <1>4. \A i \in 1..L, a \in A : step[<<i, a>>] = Cut(a, text[i])
    OBVIOUS
  <1> HIDE DEF step, A, L
  <1>5. PICK g : Recurses(g, A, <<<< >>>>, L, step)
    BY <1>1, <1>3, Recursion
  <1>6. g = F(g)
    <2>1. ASSUME NEW i \in 1..L PROVE g[i] = Cut(g[i - 1], text[i])
      <3>1. g[i - 1] \in A /\ g[i] = step[<<i, g[i - 1]>>]
        BY <1>1, <1>5 DEF Recurses
      <3> QED
        BY <1>4, <3>1
    <2> QED
      BY SMTT(30), <1>1, <1>5, <2>1 DEF Recurses
  <1>7. h = F(h)
    <2> HIDE DEF F
    <2> QED
      BY <1>6
  <1> HIDE DEF h
  <1>8. h[0] = <<<< >>>> /\ \A n \in 1..L : h[n] = Cut(h[n - 1], text[n])
    BY <1>1, <1>7
  <1> QED
    BY <1>2, <1>8 DEF L

(* One character more: a slash opens a piece,                              *)
LEMMA SlashOpens ==
  ASSUME NEW text, NEW n \in Nat, NEW m \in Nat, m = n + 1, NEW cut, NEW at,
         Sliced(text, n, cut, at), text[m] = Slash
  PROVE  \E b : Sliced(text, m, Append(cut, << >>), b)
  <1> DEFINE L == Len(cut)
             more == Append(cut, << >>)
             b == [i \in 0..(L + 1) |-> IF i = L + 1 THEN m + 1 ELSE at[i]]
  <1>1. /\ cut \in Seq(Seq(Char)) /\ L \in Nat /\ L >= 1
        /\ at[0] = 0 /\ at[L] = m
        /\ \A i \in 0..L : at[i] \in 0..m
    BY DEF Sliced
  <1>2. /\ more \in Seq(Seq(Char)) /\ Len(more) = L + 1
        /\ \A i \in 1..L : more[i] = cut[i]
        /\ more[L + 1] = << >> /\ Len(more[L + 1]) = 0
    BY <1>1
  <1>3. b[L + 1] = m + 1 /\ \A i \in 0..L : b[i] = at[i]
    BY <1>1
  <1> HIDE DEF L, more, b
  <1>4. b[0] = 0 /\ b[Len(more)] = m + 1
    BY <1>1, <1>2, <1>3
  <1>5. ASSUME NEW i \in 0..(L + 1) PROVE b[i] \in 0..(m + 1)
    <2>1. CASE i = L + 1
      BY <1>3, <2>1
    <2>2. CASE i # L + 1
      <3>1. i \in 0..L
        BY <1>1, <2>2
      <3>2. b[i] = at[i] /\ at[i] \in 0..m
        BY <1>1, <1>3, <3>1
      <3> QED
        BY <3>2
    <2> QED
      BY <2>1, <2>2
  <1>6. ASSUME NEW i \in 0..(L + 1), NEW j \in 0..(L + 1), i < j PROVE b[i] < b[j]
    <2>1. CASE j = L + 1
      BY <1>1, <1>3, <1>6, <2>1
    <2>2. CASE j # L + 1
      <3>1. i \in 0..L /\ j \in 0..L
        BY <1>1, <1>6, <2>2
      <3> QED
        BY <1>3, <1>6, <3>1 DEF Sliced, L
    <2> QED
      BY <2>1, <2>2
  <1>7. ASSUME NEW i \in 1..(L + 1)
        PROVE  /\ b[i] = b[i - 1] + Len(more[i]) + 1
               /\ \A j \in 1..Len(more[i]) : more[i][j] = text[b[i - 1] + j] /\ more[i][j] # Slash
    <2>1. CASE i = L + 1
      <3>1. i - 1 = L
        BY <1>1, <2>1
      <3> QED
        BY <1>1, <1>2, <1>3, <2>1, <3>1
    <2>2. CASE i # L + 1
      <3>1. i \in 1..L /\ i \in 0..L /\ i - 1 \in 0..L
        BY <1>1, <2>2
      <3>2. more[i] = cut[i] /\ b[i] = at[i] /\ b[i - 1] = at[i - 1]
        BY <1>2, <1>3, <3>1
      <3> QED
        BY <3>1, <3>2 DEF Sliced, L
    <2> QED
      BY <2>1, <2>2
  <1>8. ASSUME NEW i \in 1..L PROVE text[b[i]] = Slash
    <2>1. CASE i = L
      <3>1. b[i] = m
        BY <1>1, <1>3, <2>1
      <3> QED
        BY <3>1
    <2>2. CASE i # L
      <3>1. i \in 1..(L - 1) /\ b[i] = at[i]
        BY <1>1, <1>3, <2>2
      <3> QED
        BY <3>1 DEF Sliced, L
    <2> QED
      BY <2>1, <2>2
  <1>9. ASSUME NEW k \in 1..m PROVE \E i \in 1..(L + 1) : b[i - 1] < k /\ k <= b[i]
    <2>1. PICK i \in 1..L : at[i - 1] < k /\ k <= at[i]
      <3>1. CASE k = m
        <4>1. L - 1 \in 0..L /\ L \in 0..L /\ L - 1 < L
          BY <1>1
        <4>2. at[L - 1] < at[L]
          BY <4>1 DEF Sliced, L
        <4> QED
          BY <1>1, <3>1, <4>2
      <3>2. CASE k # m
        <4>1. k \in 1..n
          BY <3>2
        <4> QED
          BY <4>1 DEF Sliced, L
      <3> QED
        BY <3>1, <3>2
    <2>2. i \in 1..(L + 1) /\ b[i] = at[i] /\ b[i - 1] = at[i - 1]
      BY <1>1, <1>3
    <2> QED
      BY <2>1, <2>2
  <1>10. Sliced(text, m, more, b)
    <2>1. more \in Seq(Seq(Char)) /\ Len(more) >= 1 /\ Len(more) = L + 1 /\ Len(more) - 1 = L
      BY <1>1, <1>2
    <2>2. /\ \A i \in 0..Len(more) : b[i] \in 0..(m + 1)
          /\ \A i, j \in 0..Len(more) : i < j => b[i] < b[j]
      BY <1>5, <1>6, <2>1
    <2>3. \A i \in 1..Len(more) :
              /\ b[i] = b[i - 1] + Len(more[i]) + 1
              /\ \A j \in 1..Len(more[i]) : more[i][j] = text[b[i - 1] + j] /\ more[i][j] # Slash
      BY <1>7, <2>1
    <2>4. /\ \A i \in 1..(Len(more) - 1) : text[b[i]] = Slash
          /\ \A k \in 1..m : \E i \in 1..Len(more) : b[i - 1] < k /\ k <= b[i]
      BY <1>8, <1>9, <2>1
    <2> QED
      BY <1>4, <2>1, <2>2, <2>3, <2>4 DEF Sliced
  <1> QED
    BY <1>10 DEF more

(* and any other joins the last.                                           *)
LEMMA OtherJoins ==
  ASSUME NEW text, NEW n \in Nat, NEW m \in Nat, m = n + 1, NEW cut, NEW at,
         Sliced(text, n, cut, at), NEW c \in Char, c = text[m], c # Slash
  PROVE  \E b : Sliced(text, m, [cut EXCEPT ![Len(cut)] = Append(@, c)], b)
  <1> DEFINE L == Len(cut)
             last == cut[L]
             more == [cut EXCEPT ![L] = Append(last, c)]
             b == [i \in 0..L |-> IF i = L THEN m + 1 ELSE at[i]]
  <1>1. /\ cut \in Seq(Seq(Char)) /\ L \in Nat /\ L >= 1 /\ DOMAIN cut = 1..L
        /\ at[0] = 0 /\ at[L] = m
        /\ \A i \in 0..L : at[i] \in 0..m
    BY DEF Sliced
  <1> HIDE DEF L
  <1>2. /\ last = cut[L] /\ Len(last) \in Nat /\ Len(Append(last, c)) = Len(last) + 1
        /\ \A j \in 1..Len(last) : Append(last, c)[j] = last[j]
        /\ Append(last, c)[Len(last) + 1] = c
        /\ Append(last, c) \in Seq(Char)
    BY <1>1
  <1>3. /\ more \in Seq(Seq(Char)) /\ Len(more) = L
        /\ more[L] = Append(last, c)
        /\ \A i \in 1..L : i # L => more[i] = cut[i]
    <2>1. more \in [1..L -> Seq(Char)]
      BY <1>1, <1>2
    <2>2. more \in Seq(Seq(Char)) /\ Len(more) = L
      <3> HIDE DEF more
      <3> QED
        BY <1>1, <2>1, Functions
    <2> QED
      BY <1>1, <2>2
  <1>4. b[L] = m + 1 /\ \A i \in 0..L : i # L => b[i] = at[i]
    BY <1>1
  <1> HIDE DEF last, more, b
  <1>5. b[0] = 0 /\ \A i \in 0..L : b[i] \in 0..(m + 1)
    <2>1. b[0] = 0
      BY <1>1, <1>4
    <2>2. ASSUME NEW i \in 0..L PROVE b[i] \in 0..(m + 1)
      <3>1. CASE i = L
        BY <1>4, <3>1
      <3>2. CASE i # L
        <4>1. b[i] = at[i] /\ at[i] \in 0..m
          BY <1>1, <1>4, <3>2
        <4> QED
          BY <4>1
      <3> QED
        BY <3>1, <3>2
    <2> QED
      BY <2>1, <2>2
  <1>6. ASSUME NEW i \in 0..L, NEW j \in 0..L, i < j PROVE b[i] < b[j]
    <2>1. CASE j = L
      BY <1>1, <1>4, <1>6, <2>1
    <2>2. CASE j # L
      <3>1. at[i] < at[j]
        BY <1>6 DEF Sliced, L
      <3> QED
        BY <1>1, <1>4, <1>6, <2>2, <3>1
    <2> QED
      BY <2>1, <2>2
  <1>7. ASSUME NEW i \in 1..L
        PROVE  /\ b[i] = b[i - 1] + Len(more[i]) + 1
               /\ \A j \in 1..Len(more[i]) : more[i][j] = text[b[i - 1] + j] /\ more[i][j] # Slash
    <2>1. /\ at[i] = at[i - 1] + Len(cut[i]) + 1
          /\ \A j \in 1..Len(cut[i]) : cut[i][j] = text[at[i - 1] + j] /\ cut[i][j] # Slash
      BY DEF Sliced, L
    <2>2. i - 1 \in 0..L /\ i - 1 # L /\ b[i - 1] = at[i - 1]
      BY <1>1, <1>4
    <2>3. CASE i = L
      <3>1. at[i - 1] + Len(last) = n /\ at[i - 1] \in Nat
        BY <1>1, <1>2, <2>1, <2>2, <2>3
      <3>2. ASSUME NEW j \in 1..(Len(last) + 1)
            PROVE  Append(last, c)[j] = text[at[i - 1] + j] /\ Append(last, c)[j] # Slash
        <4>1. CASE j = Len(last) + 1
          <5>1. at[i - 1] + j = m
            BY <1>2, <3>1, <4>1
          <5> QED
            BY <1>2, <4>1, <5>1
        <4>2. CASE j # Len(last) + 1
          <5>1. j \in 1..Len(last)
            BY <1>2, <4>2
          <5> QED
            BY <1>2, <2>1, <2>3, <4>2, <5>1
        <4> QED
          BY <4>1, <4>2
      <3>3. more[i] = Append(last, c) /\ b[i] = m + 1 /\ b[i - 1] = at[i - 1]
        BY <1>3, <1>4, <2>2, <2>3
      <3>4. b[i] = b[i - 1] + Len(more[i]) + 1
        BY <1>2, <3>1, <3>3
      <3> QED
        BY <1>2, <3>2, <3>3, <3>4
    <2>4. CASE i # L
      <3>1. more[i] = cut[i] /\ b[i] = at[i]
        BY <1>1, <1>3, <1>4, <2>4
      <3> QED
        BY <2>1, <2>2, <3>1
    <2> QED
      BY <2>3, <2>4
  <1>8. ASSUME NEW i \in 1..(L - 1) PROVE text[b[i]] = Slash
    <2>1. i \in 0..L /\ i # L
      BY <1>1
    <2>2. text[at[i]] = Slash
      BY DEF Sliced, L
    <2> QED
      BY <1>4, <2>1, <2>2
  <1>9. ASSUME NEW k \in 1..m PROVE \E i \in 1..L : b[i - 1] < k /\ k <= b[i]
    <2>1. CASE k = m
      <3>1. L \in 1..L /\ L - 1 \in 0..L /\ L - 1 # L /\ L - 1 < L /\ L \in 0..L
        BY <1>1
      <3>2. at[L - 1] < at[L]
        BY <3>1 DEF Sliced, L
      <3> QED
        BY <1>1, <1>4, <2>1, <3>1, <3>2
    <2>2. CASE k # m
      <3>1. k \in 1..n
        BY <2>2
      <3>2. PICK i \in 1..L : at[i - 1] < k /\ k <= at[i]
        BY <3>1 DEF Sliced, L
      <3>3. i - 1 \in 0..L /\ i - 1 # L /\ i \in 0..L
        BY <1>1
      <3>4. b[i - 1] = at[i - 1]
        BY <1>4, <3>3
      <3>5. k <= b[i]
        <4>1. CASE i = L
          BY <1>4, <3>1, <4>1
        <4>2. CASE i # L
          BY <1>4, <3>2, <3>3, <4>2
        <4> QED
          BY <4>1, <4>2
      <3> QED
        BY <3>2, <3>4, <3>5
    <2> QED
      BY <2>1, <2>2
  <1>10. Sliced(text, m, more, b)
    BY <1>1, <1>3, <1>4, <1>5, <1>6, <1>7, <1>8, <1>9 DEF Sliced
  <1> QED
    BY <1>10 DEF more, last, L

LEMMA SegmentsSliced ==
  ASSUME NEW text \in Seq(Char)
  PROVE  \E at : Sliced(text, Len(text), Segments(text), at)
  <1>1. PICK g : /\ g[0] = <<<< >>>>
                 /\ \A n \in 1..Len(text) : g[n] = Cut(g[n - 1], text[n])
                 /\ Segments(text) = g[Len(text)]
    BY Segmented
  <1> DEFINE T == {n \in Nat : n <= Len(text) => \E at : Sliced(text, n, g[n], at)}
  <1>2. 0 \in T
    <2>1. Sliced(text, 0, <<<< >>>>, [i \in 0..1 |-> i])
      BY DEF Sliced
    <2> QED
      BY <1>1, <2>1
  <1>3. ASSUME NEW n \in 0..(Len(text) - 1), n \in T PROVE n + 1 \in T
    <2>1. n \in Nat /\ n <= Len(text) /\ n + 1 \in 1..Len(text) /\ (n + 1) - 1 = n
      OBVIOUS
    <2>2. PICK at : Sliced(text, n, g[n], at)
      BY <1>3, <2>1
    <2> DEFINE m == n + 1
    <2>3. m \in Nat /\ g[m] = Cut(g[n], text[m]) /\ text[m] \in Char
      BY <1>1, <2>1
    <2>4. \E b : Sliced(text, m, g[m], b)
      <3>1. m = n + 1
        OBVIOUS
      <3> HIDE DEF m
      <3>2. CASE text[m] = Slash
        <4>1. g[m] = Append(g[n], << >>)
          BY <2>3, <3>2 DEF Cut
        <4>2. \E b : Sliced(text, m, Append(g[n], << >>), b)
          BY <2>1, <2>2, <2>3, <3>1, <3>2, SlashOpens
        <4> QED
          BY <4>1, <4>2
      <3>3. CASE text[m] # Slash
        <4> DEFINE c == text[m]
        <4>1. g[m] = [g[n] EXCEPT ![Len(g[n])] = Append(@, c)]
          BY <2>3, <3>3 DEF Cut
        <4>2. c \in Char /\ c = text[m] /\ c # Slash
          BY <2>3, <3>3
        <4> HIDE DEF c
        <4>3. \E b : Sliced(text, m, [g[n] EXCEPT ![Len(g[n])] = Append(@, c)], b)
          BY <2>1, <2>2, <2>3, <3>1, <4>2, OtherJoins
        <4> QED
          BY <4>1, <4>3
      <3> QED
        BY <3>2, <3>3
    <2> QED
      BY <2>4
  <1>4. Len(text) \in Nat
    OBVIOUS
  <1>5. Len(text) \in T
    <2> HIDE DEF T
    <2>1. \A k \in 0..Len(text) : k \in T
      BY <1>2, <1>3, <1>4, Climb
    <2> QED
      BY <1>4, <2>1
  <1> QED
    BY <1>1, <1>4, <1>5

(* What follows of the pieces and their places.                            *)
Pieces(text, n, cut, at) ==
    /\ Len(cut) \in Nat /\ Len(cut) >= 1 /\ cut \in Seq(Seq(Char))
    /\ at[0] = 0 /\ at[Len(cut)] = n + 1
    /\ \A i \in 0..Len(cut) : at[i] \in Nat /\ at[i] <= n + 1
    /\ \A i, j \in 0..Len(cut) : i < j => at[i] < at[j]
    /\ \A i \in 1..Len(cut) : cut[i] \in Seq(Char) /\ Len(cut[i]) \in Nat
    /\ \A i \in 1..Len(cut) : at[i] = at[i - 1] + Len(cut[i]) + 1
    /\ \A i \in 1..Len(cut) : at[i - 1] \in Nat /\ at[i] \in Nat /\ at[i - 1] < at[i]
    /\ \A i \in 1..Len(cut) : \A j \in 1..Len(cut[i]) :
           cut[i][j] = text[at[i - 1] + j] /\ cut[i][j] # Slash
    /\ \A i \in 1..(Len(cut) - 1) : text[at[i]] = Slash
    /\ \A k \in 1..n : \E i \in 1..Len(cut) : at[i - 1] < k /\ k <= at[i]

LEMMA Slices ==
  ASSUME NEW text, NEW n \in Nat, NEW cut, NEW at, Sliced(text, n, cut, at)
  PROVE  Pieces(text, n, cut, at)
  <1>1. cut \in Seq(Seq(Char)) /\ Len(cut) >= 1
    BY DEF Sliced
  <1>2. Len(cut) \in Nat /\ \A i \in 1..Len(cut) : cut[i] \in Seq(Char)
    BY <1>1
  <1>3. \A i \in 1..Len(cut) : Len(cut[i]) \in Nat
    BY <1>2
  <1>4. \A i \in 0..Len(cut) : at[i] \in Nat /\ at[i] <= n + 1
    BY DEF Sliced
  <1>5. \A i, j \in 0..Len(cut) : i < j => at[i] < at[j]
    BY DEF Sliced
  <1>6. \A i \in 1..Len(cut) : at[i - 1] \in Nat /\ at[i] \in Nat /\ at[i - 1] < at[i]
    BY <1>2, <1>4, <1>5
  <1> QED
    BY <1>1, <1>2, <1>3, <1>4, <1>5, <1>6 DEF Sliced, Pieces

LEMMA SegmentPieces ==
  ASSUME NEW text \in Seq(Char)
  PROVE  \E at : Pieces(text, Len(text), Segments(text), at)
  <1>1. Len(text) \in Nat
    OBVIOUS
  <1> QED
    BY <1>1, SegmentsSliced, Slices

(* What is at a place in a sliced text: the slash that ends a piece, or a  *)
(* character inside one.                                                   *)
LEMMA Places ==
  ASSUME NEW text, NEW n \in Nat, NEW cut, NEW at, Pieces(text, n, cut, at), NEW k \in 1..n
  PROVE  \/ \E i \in 1..(Len(cut) - 1) : k = at[i] /\ text[k] = Slash
         \/ \E i \in 1..Len(cut) : at[i - 1] < k /\ k < at[i] /\ text[k] # Slash
  <1>1. Len(cut) \in Nat /\ at[Len(cut)] = n + 1
    BY DEF Pieces
  <1>2. PICK i \in 1..Len(cut) : at[i - 1] < k /\ k <= at[i]
    BY DEF Pieces
  <1>3. /\ at[i - 1] \in Nat /\ at[i] \in Nat /\ Len(cut[i]) \in Nat
        /\ at[i] = at[i - 1] + Len(cut[i]) + 1
    BY DEF Pieces
  <1>4. CASE k = at[i]
    <2>1. i \in 1..(Len(cut) - 1)
      BY <1>1, <1>4
    <2> QED
      BY <1>4, <2>1 DEF Pieces
  <1>5. CASE k # at[i]
    <2>1. k - at[i - 1] \in 1..Len(cut[i]) /\ at[i - 1] + (k - at[i - 1]) = k
      BY <1>2, <1>3, <1>5
    <2>2. cut[i][k - at[i - 1]] = text[k] /\ cut[i][k - at[i - 1]] # Slash
      BY <2>1 DEF Pieces
    <2> QED
      BY <1>2, <1>3, <1>5, <2>2
  <1> QED
    BY <1>4, <1>5

LEMMA Inside ==
  ASSUME NEW text, NEW n \in Nat, NEW cut, NEW at, Pieces(text, n, cut, at),
         NEW i \in 1..Len(cut), NEW k \in 1..n, at[i - 1] < k, k < at[i]
  PROVE  text[k] # Slash /\ k - at[i - 1] \in 1..Len(cut[i]) /\ cut[i][k - at[i - 1]] = text[k]
  <1>1. /\ at[i - 1] \in Nat /\ at[i] \in Nat /\ Len(cut[i]) \in Nat
        /\ at[i] = at[i - 1] + Len(cut[i]) + 1
    BY DEF Pieces
  <1>2. k - at[i - 1] \in 1..Len(cut[i]) /\ at[i - 1] + (k - at[i - 1]) = k
    BY <1>1
  <1> DEFINE q == k - at[i - 1]
  <1>3. q \in 1..Len(cut[i]) /\ at[i - 1] + q = k
    BY <1>2
  <1> HIDE DEF q
  <1>4. cut[i][q] = text[at[i - 1] + q] /\ cut[i][q] # Slash
    BY <1>3 DEF Pieces
  <1>5. text[k] # Slash /\ q \in 1..Len(cut[i]) /\ cut[i][q] = text[k]
    BY <1>3, <1>4
  <1> QED
    BY <1>5 DEF q

(* Text u, m long, ends in a slash and starts text t, or is all of it and  *)
(* a slash.                                                                *)
Starts(u, m, t, n) ==
    /\ m <= n + 1 /\ \A k \in 1..(m - 1) : u[k] = t[k]
    /\ m <= n => t[m] = Slash

SamePieces(cu, ct) ==
    /\ Len(cu) - 1 <= Len(ct)
    /\ \A i \in 1..(Len(cu) - 1) : cu[i] = ct[i]

(* Such a u has no piece after its last slash,                             *)
LEMMA LastIsEmpty ==
  ASSUME NEW u, NEW m \in Nat, m >= 1, u[m] = Slash, NEW cu, NEW b, Pieces(u, m, cu, b)
  PROVE  /\ Len(cu) \in Nat /\ Len(cu) >= 2
         /\ b[Len(cu) - 1] = m /\ b[Len(cu)] = m + 1 /\ cu[Len(cu)] = << >>
  <1>1. Len(cu) \in Nat /\ Len(cu) >= 1 /\ b[Len(cu)] = m + 1 /\ cu \in Seq(Seq(Char))
    BY DEF Pieces
  <1>2. PICK i \in 1..(Len(cu) - 1) : b[i] = m
    <2>1. m \in 1..m
      OBVIOUS
    <2> QED
      BY <2>1, Places
  <1>3. b[Len(cu) - 1] = m
    <2>1. CASE i = Len(cu) - 1
      BY <1>2, <2>1
    <2>2. CASE i # Len(cu) - 1
      <3>1. /\ i \in 0..Len(cu) /\ Len(cu) - 1 \in 0..Len(cu) /\ Len(cu) \in 0..Len(cu)
            /\ i < Len(cu) - 1 /\ Len(cu) - 1 < Len(cu)
        BY <1>1, <2>2
      <3>2. b[i] < b[Len(cu) - 1] /\ b[Len(cu) - 1] < b[Len(cu)] /\ b[Len(cu) - 1] \in Nat
        BY <3>1 DEF Pieces
      <3> QED
        BY <1>1, <1>2, <3>2
    <2> QED
      BY <2>1, <2>2
  <1>4. Len(cu[Len(cu)]) = 0
    <2>1. Len(cu) \in 1..Len(cu) /\ Len(cu[Len(cu)]) \in Nat
      BY <1>1
    <2>2. b[Len(cu)] = b[Len(cu) - 1] + Len(cu[Len(cu)]) + 1
      BY <2>1 DEF Pieces
    <2> QED
      BY <1>1, <1>3, <2>1, <2>2
  <1>5. cu[Len(cu)] = << >>
    <2>1. Len(cu) \in 1..Len(cu)
      BY <1>1
    <2>2. cu[Len(cu)] \in Seq(Char)
      BY <1>1, <2>1
    <2> QED
      BY <1>4, <2>2
  <1> QED
    BY <1>1, <1>2, <1>3, <1>5

(* and starts a text exactly if its other pieces are the text's first.     *)
LEMMA PiecesOfStart ==
  ASSUME NEW u, NEW m \in Nat, m >= 1, u[m] = Slash, NEW cu, NEW b, Pieces(u, m, cu, b),
         NEW t, NEW n \in Nat, NEW ct, NEW a, Pieces(t, n, ct, a), Starts(u, m, t, n)
  PROVE  SamePieces(cu, ct) /\ \A i \in 0..(Len(cu) - 1) : a[i] = b[i]
  <1> DEFINE M == Len(cu) - 1
             N == Len(ct)
             T == {i \in 0..M : i <= N /\ a[i] = b[i] /\ (i >= 1 => cu[i] = ct[i])}
  <1>1. /\ M \in Nat /\ M >= 1 /\ b[M] = m /\ b[0] = 0
        /\ \A i \in 0..(M + 1) : b[i] \in Nat
        /\ \A i, j \in 0..(M + 1) : i < j => b[i] < b[j]
    <2>1. Len(cu) = M + 1 /\ M \in Nat /\ M >= 1 /\ b[M] = m
      BY LastIsEmpty
    <2> HIDE DEF M
    <2> QED
      BY <2>1 DEF Pieces
  <1>2. /\ N \in Nat /\ N >= 1 /\ a[0] = 0 /\ a[N] = n + 1
        /\ \A i \in 0..N : a[i] \in Nat
        /\ \A i, j \in 0..N : i < j => a[i] < a[j]
    BY DEF Pieces
  <1>3. 0 \in T
    BY <1>1, <1>2
  <1>4. ASSUME NEW i \in 0..(M - 1), i \in T PROVE i + 1 \in T
    <2> DEFINE j == i + 1
    <2>1. j \in 1..M /\ j - 1 = i /\ i \in 0..(M + 1) /\ j \in 0..(M + 1) /\ M \in 0..(M + 1)
          /\ j \in 1..Len(cu)
      BY <1>1
    <2>2. b[j] \in Nat /\ b[i] \in Nat /\ b[i] < b[j] /\ b[j] <= m
      <3>1. CASE j = M
        BY <1>1, <2>1, <3>1
      <3>2. CASE j # M
        <4>1. j < M /\ i < j
          BY <2>1, <3>2
        <4>2. b[j] < b[M] /\ b[i] < b[j]
          BY <1>1, <2>1, <4>1
        <4> QED
          BY <1>1, <2>1, <4>2
      <3> QED
        BY <3>1, <3>2
    <2>3. m <= n + 1 /\ (m <= n => t[m] = Slash) /\ \A k \in 1..(m - 1) : u[k] = t[k]
      BY DEF Starts
    <2>4. i <= N /\ a[i] = b[i]
      BY <1>4
    <2>5. i # N
      BY <1>2, <2>2, <2>3, <2>4
    <2>6. j \in 1..N /\ j \in 0..N /\ i \in 0..N /\ a[j] \in Nat /\ a[i] < a[j]
      BY <1>2, <2>1, <2>4, <2>5
    <2>7. \A i0 \in 1..M : u[b[i0]] = Slash
      BY <1>1 DEF Pieces
    <2>8. j # N => t[a[j]] = Slash
      <3>1. j # N => j \in 1..(N - 1)
        BY <1>2, <2>6
      <3> QED
        BY <3>1 DEF Pieces
    <2> HIDE DEF j, M, N, T
    <2>9. ~(a[j] < b[j])
      <3>1. SUFFICES ASSUME a[j] < b[j] PROVE FALSE
        OBVIOUS
      <3>2. a[j] \in 1..m /\ a[j] \in 1..(m - 1) /\ a[j] <= n
        BY <2>2, <2>3, <2>4, <2>6, <3>1
      <3>3. u[a[j]] # Slash
        BY SMTT(30), <2>1, <2>2, <2>4, <2>6, <3>1, <3>2, Inside
      <3>4. j # N
        BY <1>2, <3>2
      <3> QED
        BY <2>3, <2>8, <3>2, <3>3, <3>4
    <2>10. ~(b[j] < a[j])
      <3>1. SUFFICES ASSUME b[j] < a[j] PROVE FALSE
        OBVIOUS
      <3>2. a[j] <= n + 1
        <4>1. CASE j = N
          BY <1>2, <4>1
        <4>2. CASE j # N
          <5>1. j < N /\ N \in 0..N
            BY <1>2, <2>6, <4>2
          <5>2. a[j] < a[N]
            BY <1>2, <2>6, <5>1
          <5> QED
            BY <1>2, <2>6, <5>2
        <4> QED
          BY <4>1, <4>2
      <3>3. b[j] \in 1..n
        BY <2>2, <2>6, <3>1, <3>2
      <3>4. t[b[j]] # Slash
        <4>1. j \in 1..Len(ct) /\ a[j - 1] < b[j]
          BY <2>1, <2>2, <2>4, <2>6 DEF N
        <4> DEFINE k == b[j]
        <4>2. k \in 1..n /\ a[j - 1] < k /\ k < a[j]
          BY <3>1, <3>3, <4>1
        <4> HIDE DEF k
        <4>3. t[k] # Slash
          BY <4>1, <4>2, Inside
        <4> QED
          BY <4>3 DEF k
      <3>5. u[b[j]] = Slash
        BY <2>1, <2>7
      <3>6. CASE b[j] = m
        BY <2>3, <3>3, <3>4, <3>6
      <3>7. CASE b[j] # m
        <4>1. b[j] \in 1..(m - 1)
          BY <2>2, <3>3, <3>7
        <4> QED
          BY <2>3, <3>4, <3>5, <4>1
      <3> QED
        BY <3>6, <3>7
    <2>11. a[j] = b[j]
      BY <2>2, <2>6, <2>9, <2>10
    <2>12. cu[j] = ct[j]
      <3>1. /\ cu[j] \in Seq(Char) /\ Len(cu[j]) \in Nat /\ b[j] = b[i] + Len(cu[j]) + 1
            /\ \A k \in 1..Len(cu[j]) : cu[j][k] = u[b[i] + k]
        BY <2>1 DEF Pieces
      <3>2. /\ ct[j] \in Seq(Char) /\ Len(ct[j]) \in Nat /\ a[j] = a[i] + Len(ct[j]) + 1
            /\ \A k \in 1..Len(ct[j]) : ct[j][k] = t[a[i] + k]
        <4>1. j \in 1..Len(ct)
          BY <2>6 DEF N
        <4> QED
          BY <2>1, <4>1 DEF Pieces
      <3>3. Len(cu[j]) = Len(ct[j])
        BY SMTT(30), <2>2, <2>4, <2>6, <2>11, <3>1, <3>2
      <3>4. ASSUME NEW k \in 1..Len(cu[j]) PROVE cu[j][k] = ct[j][k]
        <4>1. b[i] + k \in 1..(m - 1)
          BY <2>2, <3>1
        <4>2. u[b[i] + k] = t[b[i] + k]
          BY <2>3, <4>1
        <4> QED
          BY <2>4, <3>1, <3>2, <3>3, <4>2
      <3> QED
        BY <3>1, <3>2, <3>3, <3>4
    <2>13. j \in 0..M /\ j <= N
      BY <2>1, <2>6
    <2>14. j \in T
      BY <2>11, <2>12, <2>13 DEF T
    <2> QED
      BY <2>14 DEF j
  <1>5. \A i \in 0..M : i \in T
    <2> HIDE DEF T
    <2> QED
      BY <1>1, <1>3, <1>4, Climb
  <1>6. M \in 0..M /\ \A i \in 1..M : i \in 0..M /\ i >= 1
    BY <1>1
  <1> QED
    BY <1>5, <1>6 DEF SamePieces

LEMMA StartOfPieces ==
  ASSUME NEW u, NEW m \in Nat, m >= 1, u[m] = Slash, NEW cu, NEW b, Pieces(u, m, cu, b),
         NEW t, NEW n \in Nat, NEW ct, NEW a, Pieces(t, n, ct, a), SamePieces(cu, ct)
  PROVE  Starts(u, m, t, n)
  <1> DEFINE M == Len(cu) - 1
             N == Len(ct)
             T == {i \in 0..M : a[i] = b[i]}
  <1>1. /\ M \in Nat /\ M >= 1 /\ b[M] = m /\ b[0] = 0
        /\ \A i \in 0..(M + 1) : b[i] \in Nat
        /\ \A i, j \in 0..(M + 1) : i < j => b[i] < b[j]
        /\ \A i \in 1..(M + 1) : b[i] = b[i - 1] + Len(cu[i]) + 1
    <2>1. Len(cu) = M + 1 /\ M \in Nat /\ M >= 1 /\ b[M] = m
      BY LastIsEmpty
    <2> HIDE DEF M
    <2> QED
      BY <2>1 DEF Pieces
  <1>2. /\ N \in Nat /\ N >= 1 /\ a[0] = 0 /\ a[N] = n + 1
        /\ \A i \in 0..N : a[i] \in 0..(n + 1)
        /\ \A i, j \in 0..N : i < j => a[i] < a[j]
        /\ \A i \in 1..N : a[i] = a[i - 1] + Len(ct[i]) + 1
    BY DEF Pieces
  <1>3. M <= N /\ \A i \in 1..M : cu[i] = ct[i]
    BY DEF SamePieces
  <1>4. \A i \in 0..M : a[i] = b[i]
    <2>1. 0 \in T
      BY <1>1, <1>2
    <2>2. ASSUME NEW i \in 0..(M - 1), i \in T PROVE i + 1 \in T
      <3>1. i + 1 \in 1..M /\ i + 1 \in 1..(M + 1) /\ i + 1 \in 1..N /\ (i + 1) - 1 = i
        BY <1>1, <1>2, <1>3
      <3>2. cu[i + 1] = ct[i + 1] /\ a[i] = b[i]
        BY <1>3, <2>2, <3>1
      <3>3. b[i + 1] = b[i] + Len(cu[i + 1]) + 1 /\ a[i + 1] = a[i] + Len(ct[i + 1]) + 1
        BY <1>1, <1>2, <3>1
      <3>4. a[i + 1] = b[i + 1]
        BY <3>2, <3>3
      <3> QED
        BY <3>1, <3>4
    <2> HIDE DEF T, M
    <2>3. \A i \in 0..M : i \in T
      BY <1>1, <2>1, <2>2, Climb
    <2> QED
      BY <2>3 DEF T
  <1>5. m <= n + 1
    <2>1. M \in 0..M /\ M \in 0..N
      BY <1>1, <1>2, <1>3
    <2>2. a[M] = m /\ a[M] \in 0..(n + 1)
      BY <1>1, <1>2, <1>4, <2>1
    <2> QED
      BY <2>2
  <1>6. m <= n => t[m] = Slash
    <2>1. m <= n => M # N
      <3>1. M \in 0..M /\ a[M] = m
        BY <1>1, <1>4
      <3> QED
        BY <1>2, <3>1
    <2>2. m <= n => M \in 1..(N - 1)
      BY <1>1, <1>2, <1>3, <2>1
    <2>3. a[M] = m
      BY <1>1, <1>4
    <2> QED
      BY <2>2, <2>3 DEF Pieces
  <1>7. ASSUME NEW k \in 1..(m - 1) PROVE u[k] = t[k]
    <2>1. k \in 1..m /\ k \in 1..n /\ k < m
      BY <1>5
    <2>2. CASE \E i \in 1..(Len(cu) - 1) : k = b[i] /\ u[k] = Slash
      <3>1. PICK i \in 1..M : k = b[i] /\ u[k] = Slash
        BY <2>2
      <3>2. i # M
        BY <1>1, <2>1, <3>1
      <3>3. i \in 1..(N - 1) /\ a[i] = k
        BY <1>1, <1>2, <1>3, <1>4, <3>1, <3>2
      <3> QED
        BY <3>1, <3>3 DEF Pieces
    <2>3. CASE \E i \in 1..Len(cu) : b[i - 1] < k /\ k < b[i] /\ u[k] # Slash
      <3>1. PICK i \in 1..(M + 1) : b[i - 1] < k /\ k < b[i]
        BY <2>3
      <3>2. i # M + 1
        BY <1>1, <2>1, <3>1
      <3>3. i \in 1..M /\ i - 1 \in 0..M /\ i \in 0..M /\ i \in 1..N
        BY <1>1, <1>2, <1>3, <3>1, <3>2
      <3>4. a[i - 1] = b[i - 1] /\ a[i] = b[i] /\ cu[i] = ct[i]
        BY <1>3, <1>4, <3>3
      <3>5. cu[i][k - b[i - 1]] = u[k]
        BY <2>1, <3>1, Inside
      <3>6. ct[i][k - a[i - 1]] = t[k]
        BY <2>1, <3>1, <3>3, <3>4, Inside
      <3> QED
        BY <3>4, <3>5, <3>6
    <2> QED
      BY <2>1, <2>2, <2>3, Places
  <1> QED
    BY <1>5, <1>6, <1>7 DEF Starts

-----------------------------------------------------------------------------
LEMMA SamePrefix ==
  ASSUME NEW cu \in Seq(Seq(Char)), Len(cu) >= 1, NEW ct \in Seq(Seq(Char))
  PROVE  SamePieces(cu, ct) <=> IsPrefix(Front(cu), ct)
  <1> DEFINE f == Front(cu)
  <1>1. f \in Seq(Seq(Char)) /\ Len(f) = Len(cu) - 1 /\ \A i \in 1..(Len(cu) - 1) : f[i] = cu[i]
    <2>1. f = SubSeq(cu, 1, Len(cu) - 1)
      BY DEF Front
    <2>2. Len(cu) \in Nat /\ Len(cu) - 1 \in Nat
      OBVIOUS
    <2> DEFINE l == Len(cu) - 1
    <2>3. /\ SubSeq(cu, 1, l) \in Seq(Seq(Char)) /\ Len(SubSeq(cu, 1, l)) = l
          /\ \A i \in 1..l : SubSeq(cu, 1, l)[i] = cu[i]
      <3>1. l \in Nat /\ \A i \in 1..l : cu[i] \in Seq(Char)
        BY <2>2
      <3> HIDE DEF l
      <3>2. 1 \in Int /\ l \in Int /\ (1 <= l => (l - 1) + 1 = l) /\ (~(1 <= l) => l = 0)
        BY <3>1
      <3>3. /\ SubSeq(cu, 1, l) \in Seq(Seq(Char))
            /\ Len(SubSeq(cu, 1, l)) = IF 1 <= l THEN (l - 1) + 1 ELSE 0
            /\ \A i \in 1..((l - 1) + 1) : SubSeq(cu, 1, l)[i] = cu[(1 + i) - 1]
        BY <3>1, <3>2, SubSeqProperties
      <3> QED
        BY <3>2, <3>3
    <2> HIDE DEF f
    <2> QED
      BY <2>1, <2>3
  <1> HIDE DEF f
  <1>2. IsPrefix(f, ct) <=> Len(f) <= Len(ct) /\ \A i \in 1..Len(f) : f[i] = ct[i]
    BY <1>1, PrefixChars
  <1> QED
    BY <1>1, <1>2 DEF SamePieces, f

(* What belongs by its characters belongs by its segments.                 *)
LEMMA MatchesStarts ==
  ASSUME NEW r \in RawUrl, NEW raw \in RawUrl
  PROVE  Matches(r, raw) <=> Starts(RootText(r), Len(RootText(r)), Text(raw), Len(Text(raw)))
  <1> DEFINE u == RootText(r)
             t == Text(raw)
             v == Append(t, Slash)
  <1>1. u \in Seq(Char) /\ Len(u) >= 2 /\ u[Len(u)] = Slash /\ t \in Seq(Char)
    BY RootTexts, Texts
  <1> HIDE DEF u, t
  <1>2. /\ v \in Seq(Char) /\ Len(v) = Len(t) + 1 /\ v[Len(t) + 1] = Slash
        /\ \A i \in 1..Len(t) : v[i] = t[i]
    <2>1. Slash \in Char
      BY Literals
    <2> QED
      BY <1>1, <2>1, Lists
  <1> HIDE DEF v
  <1>3. IsPrefix(u, v) <=> Len(u) <= Len(v) /\ \A i \in 1..Len(u) : u[i] = v[i]
    BY <1>1, <1>2, PrefixChars
  <1>4. Len(u) \in Nat /\ Len(t) \in Nat
    BY <1>1
  <1>5. IsPrefix(u, v) <=> Starts(u, Len(u), t, Len(t))
    <2>1. ASSUME IsPrefix(u, v) PROVE Starts(u, Len(u), t, Len(t))
      <3>1. Len(u) <= Len(t) + 1
        BY <1>2, <1>3, <2>1
      <3>2. ASSUME NEW k \in 1..(Len(u) - 1) PROVE u[k] = t[k]
        <4>1. k \in 1..Len(u) /\ k \in 1..Len(t)
          BY <1>4, <3>1
        <4> QED
          BY <1>2, <1>3, <2>1, <4>1
      <3>3. Len(u) <= Len(t) => t[Len(u)] = Slash
        <4>1. Len(u) <= Len(t) => Len(u) \in 1..Len(u) /\ Len(u) \in 1..Len(t)
          BY <1>1, <1>4
        <4> QED
          BY <1>1, <1>2, <1>3, <2>1, <4>1
      <3> QED
        BY <3>1, <3>2, <3>3 DEF Starts
    <2>2. ASSUME Starts(u, Len(u), t, Len(t)) PROVE IsPrefix(u, v)
      <3>1. Len(u) <= Len(t) + 1
        BY <2>2 DEF Starts
      <3>2. ASSUME NEW k \in 1..Len(u) PROVE u[k] = v[k]
        <4>1. CASE k = Len(u)
          <5>1. k = Len(t) + 1 \/ (k \in 1..Len(t) /\ Len(u) <= Len(t))
            BY <1>4, <3>1, <4>1
          <5> QED
            BY <1>1, <1>2, <2>2, <4>1, <5>1 DEF Starts
        <4>2. CASE k # Len(u)
          <5>1. k \in 1..(Len(u) - 1) /\ k \in 1..Len(t)
            BY <1>4, <3>1, <4>2
          <5> QED
            BY <1>2, <2>2, <5>1 DEF Starts
        <4> QED
          BY <4>1, <4>2
      <3> QED
        BY <1>2, <1>3, <3>1, <3>2
    <2> QED
      BY <2>1, <2>2
  <1> QED
    BY <1>5 DEF Matches, u, t, v

LEMMA MatchesInPieces ==
  ASSUME NEW r \in RawUrl, NEW raw \in RawUrl
  PROVE  Matches(r, raw) <=> IsPrefix(Front(Segments(RootText(r))), Segments(Text(raw)))
  <1> DEFINE u == RootText(r)
             t == Text(raw)
             cu == Segments(u)
             ct == Segments(t)
  <1>1. u \in Seq(Char) /\ Len(u) >= 2 /\ u[Len(u)] = Slash /\ t \in Seq(Char)
    BY RootTexts, Texts
  <1> HIDE DEF u, t
  <1>2. Len(u) \in Nat /\ Len(t) \in Nat
    BY <1>1
  <1>3. PICK b : Pieces(u, Len(u), cu, b)
    BY <1>1, SegmentPieces
  <1>4. PICK a : Pieces(t, Len(t), ct, a)
    BY <1>1, SegmentPieces
  <1> HIDE DEF cu, ct
  <1>5. Starts(u, Len(u), t, Len(t)) <=> SamePieces(cu, ct)
    <2> DEFINE m == Len(u)
               n == Len(t)
    <2>1. m \in Nat /\ n \in Nat /\ m >= 1 /\ u[m] = Slash
      BY <1>1, <1>2
    <2>2. Pieces(u, m, cu, b) /\ Pieces(t, n, ct, a)
      BY <1>3, <1>4
    <2> HIDE DEF m, n
    <2>3. Starts(u, m, t, n) => SamePieces(cu, ct)
      BY <2>1, <2>2, PiecesOfStart
    <2>4. SamePieces(cu, ct) => Starts(u, m, t, n)
      BY <2>1, <2>2, StartOfPieces
    <2> QED
      BY <2>3, <2>4 DEF m, n
  <1>6. SamePieces(cu, ct) <=> IsPrefix(Front(cu), ct)
    <2>1. cu \in Seq(Seq(Char)) /\ Len(cu) >= 1
      BY <1>3 DEF Pieces
    <2>2. ct \in Seq(Seq(Char))
      BY <1>4 DEF Pieces
    <2> QED
      BY <2>1, <2>2, SamePrefix
  <1>7. Matches(r, raw) <=> Starts(u, Len(u), t, Len(t))
    BY MatchesStarts DEF u, t
  <1> QED
    BY <1>5, <1>6, <1>7 DEF u, t, cu, ct

LEMMA Length ==
  ASSUME NEW i \in Nat, NEW j \in Nat, NEW lo \in Nat, NEW hi \in Nat, NEW len \in Nat,
         hi = lo + len + 1, lo = i - 1, hi = j + 1, j = i \/ j = i + 1
  PROVE  len \in 1..2
  <1>1. len = j - i + 1
    OBVIOUS
  <1> QED
    BY <1>1

LEMMA Spans ==
  ASSUME NEW lo \in Nat, NEW len \in Nat, NEW hi \in Nat, hi = lo + len + 1
  PROVE  \A q \in 1..len : lo + q \in (lo + 1)..(hi - 1)
  OBVIOUS

(* A dot segment is a piece of one or two dots.                            *)
LEMMA Dots ==
  ASSUME NEW s \in Seq(Char)
  PROVE  View(1, s) \in {<<Dot>>, <<Dot, Dot>>} <=>
             Len(s) \in 1..2 /\ \A q \in 1..Len(s) : Less(s[q], 1) = Dot
  <1> DEFINE v == View(1, s)
  <1>1. DOMAIN v = 1..Len(s) /\ \A i \in 1..Len(s) : v[i] = Less(s[i], 1)
    BY Views
  <1>2. v = [i \in 1..Len(s) |-> Less(s[i], 1)]
    <2>1. DOMAIN s = 1..Len(s)
      OBVIOUS
    <2> QED
      BY <2>1 DEF View
  <1> DEFINE d == Dot
  <1> HIDE DEF v, d
  <1>3. ASSUME v = <<d>> PROVE Len(s) = 1 /\ Less(s[1], 1) = d
    <2>1. DOMAIN v = 1..1 /\ v[1] = d
      BY <1>3
    <2>2. Len(s) \in Nat
      OBVIOUS
    <2>3. Len(s) = 1
      BY <1>1, <2>1, <2>2
    <2> QED
      BY <1>1, <2>1, <2>3
  <1>4. ASSUME v = <<d, d>> PROVE Len(s) = 2 /\ Less(s[1], 1) = d /\ Less(s[2], 1) = d
    <2>1. DOMAIN v = 1..2 /\ v[1] = d /\ v[2] = d
      BY <1>4
    <2>2. Len(s) \in Nat
      OBVIOUS
    <2>3. Len(s) = 2
      BY <1>1, <2>1, <2>2
    <2> QED
      BY <1>1, <2>1, <2>3
  <1>5. ASSUME Len(s) = 1, Less(s[1], 1) = d PROVE v = <<d>>
    BY <1>2, <1>5
  <1>6. ASSUME Len(s) = 2, Less(s[1], 1) = d, Less(s[2], 1) = d PROVE v = <<d, d>>
    BY <1>2, <1>6
  <1>7. v \in {<<d>>, <<d, d>>} <=> Len(s) \in 1..2 /\ \A q \in 1..Len(s) : Less(s[q], 1) = d
    BY <1>3, <1>4, <1>5, <1>6
  <1> QED
    BY <1>7 DEF v, d

LEMMA NotADot == ASSUME NEW n \in {0, 1}
                 PROVE Less(Slash, n) # Dot /\ Less(<<"accounts", 0>>, n) # Dot /\ Slash # Dot
  BY DEF Less, Slash, Dot

LEMMA DotsInPieces ==
  ASSUME NEW text \in Seq(Char)
  PROVE  HasDotSegment(text) <=>
             \E m \in DOMAIN Segments(text) :
                 View(1, Segments(text)[m]) \in {<<Dot>>, <<Dot, Dot>>}
  <1> DEFINE cut == Segments(text)
             n == Len(text)
  <1>1. PICK at : Pieces(text, n, cut, at)
    BY SegmentPieces
  <1>2. n \in Nat /\ DOMAIN text = 1..n
    OBVIOUS
  <1> HIDE DEF cut, n
  <1>3. DOMAIN cut = 1..Len(cut) /\ \A m \in 1..Len(cut) : cut[m] \in Seq(Char)
    BY <1>1 DEF Pieces
  <1>4. ASSUME NEW i \in DOMAIN text, NEW j \in {i, i + 1} \cap DOMAIN text,
               \A k \in i..j : Less(text[k], 1) = Dot,
               i = 1 \/ text[i - 1] = Slash,
               j = n \/ text[j + 1] = Slash
        PROVE  \E m \in 1..Len(cut) :
                   Len(cut[m]) \in 1..2 /\ \A q \in 1..Len(cut[m]) : Less(cut[m][q], 1) = Dot
    <2>1. i \in 1..n /\ j \in 1..n /\ i <= j /\ j <= i + 1
      BY <1>2
    <2>2. \A k \in i..j : text[k] # Slash
      BY <1>4, NotADot
    <2>3. PICK m \in 1..Len(cut) : at[m - 1] < i /\ i < at[m]
      <3>1. i \in i..j
        BY <2>1
      <3>2. text[i] # Slash
        BY <2>2, <3>1
      <3> QED
        BY <1>1, <1>2, <2>1, <3>2, Places
    <2>4. /\ at[m - 1] \in Nat /\ at[m] \in Nat /\ Len(cut[m]) \in Nat
          /\ at[m] = at[m - 1] + Len(cut[m]) + 1 /\ at[m] <= n + 1
          /\ Len(cut) \in Nat
      BY <1>1 DEF Pieces
    <2>5. at[m - 1] = i - 1
      <3>1. SUFFICES ASSUME at[m - 1] < i - 1 PROVE FALSE
        BY <2>1, <2>3, <2>4
      <3> DEFINE k == i - 1
      <3>2. k \in 1..n /\ at[m - 1] < k /\ k < at[m] /\ i # 1
        BY SMTT(30), <1>2, <2>1, <2>3, <2>4, <3>1
      <3>3. text[k] = Slash
        BY <1>4, <3>2
      <3> HIDE DEF k
      <3> QED
        BY <1>1, <1>2, <3>2, <3>3, Inside
    <2>6. at[m] = j + 1
      <3>1. ASSUME at[m] <= j PROVE FALSE
        <4>1. at[m] \in i..j /\ at[m] <= n
          BY <2>1, <2>3, <2>4, <3>1
        <4>2. m # Len(cut)
          BY <1>1, <1>2, <4>1 DEF Pieces
        <4>3. m \in 1..(Len(cut) - 1)
          BY <2>4, <4>2
        <4>4. text[at[m]] = Slash
          BY <1>1, <4>3 DEF Pieces
        <4> QED
          BY <2>2, <4>1, <4>4
      <3>2. ASSUME at[m] > j + 1 PROVE FALSE
        <4> DEFINE k == j + 1
        <4>1. k \in 1..n /\ at[m - 1] < k /\ k < at[m] /\ text[k] = Slash
          BY <1>2, <1>4, <2>1, <2>3, <2>4, <3>2
        <4> HIDE DEF k
        <4> QED
          BY <1>1, <1>2, <4>1, Inside
      <3> QED
        BY <2>1, <2>4, <3>1, <3>2
    <2>7. Len(cut[m]) \in 1..2
      <3>1. i \in Nat /\ j \in Nat /\ (j = i \/ j = i + 1)
        BY <1>2, <2>1
      <3> DEFINE lo == at[m - 1]
                 hi == at[m]
                 len == Len(cut[m])
      <3>2. lo \in Nat /\ hi \in Nat /\ len \in Nat /\ hi = lo + len + 1
            /\ lo = i - 1 /\ hi = j + 1
        BY <2>4, <2>5, <2>6
      <3> HIDE DEF lo, hi, len
      <3>3. len \in 1..2
        BY <3>1, <3>2, Length
      <3> QED
        BY <3>3 DEF len
    <2>8. ASSUME NEW q \in 1..Len(cut[m]) PROVE Less(cut[m][q], 1) = Dot
      <3>1. cut[m][q] = text[at[m - 1] + q]
        BY <1>1 DEF Pieces
      <3>2. at[m - 1] + q \in i..j
        <4>1. i \in Nat /\ j \in Nat
          BY <1>2, <2>1
        <4>2. at[m - 1] + q \in (at[m - 1] + 1)..(at[m] - 1)
          BY <2>4, Spans
        <4>3. at[m - 1] + 1 = i /\ at[m] - 1 = j
          BY <2>5, <2>6, <4>1
        <4> QED
          BY <4>2, <4>3
      <3> QED
        BY <1>4, <3>1, <3>2
    <2> QED
      BY <2>7, <2>8
  <1>5. ASSUME NEW m \in 1..Len(cut), Len(cut[m]) \in 1..2,
               \A q \in 1..Len(cut[m]) : Less(cut[m][q], 1) = Dot
        PROVE  HasDotSegment(text)
    <2> DEFINE i == at[m - 1] + 1
               j == at[m] - 1
    <2>1. /\ at[m - 1] \in Nat /\ at[m] \in Nat /\ Len(cut) \in Nat
          /\ at[m] = at[m - 1] + Len(cut[m]) + 1 /\ at[m] <= n + 1
      BY <1>1 DEF Pieces
    <2>2. i \in DOMAIN text /\ j \in {i, i + 1} \cap DOMAIN text
      <3>1. i \in 1..n /\ j \in 1..n /\ (j = i \/ j = i + 1)
        <4>1. Len(cut[m]) = 1 \/ Len(cut[m]) = 2
          BY <1>5
        <4>2. j = i \/ j = i + 1
          <5> DEFINE lo == at[m - 1]
                     hi == at[m]
                     len == Len(cut[m])
          <5>1. lo \in Nat /\ hi \in Nat /\ hi = lo + len + 1 /\ (len = 1 \/ len = 2)
            BY <2>1, <4>1
          <5>2. i = lo + 1 /\ j = hi - 1
            OBVIOUS
          <5> HIDE DEF lo, hi, len, i, j
          <5> QED
            BY <5>1, <5>2
        <4>3. i \in Nat /\ j \in Nat /\ 1 <= i /\ j <= n
          BY <1>2, <2>1
        <4> HIDE DEF i, j
        <4> QED
          BY <1>2, <4>2, <4>3
      <3> HIDE DEF i, j
      <3> QED
        BY <1>2, <3>1
    <2>3. ASSUME NEW k \in i..j PROVE Less(text[k], 1) = Dot
      <3> DEFINE q == k - at[m - 1]
      <3>1. q \in 1..Len(cut[m]) /\ at[m - 1] + q = k
        BY SMTT(30), <2>1
      <3> HIDE DEF q
      <3>2. cut[m][q] = text[k]
        BY <1>1, <3>1 DEF Pieces
      <3> QED
        BY <1>5, <3>1, <3>2
    <2>4. i = 1 \/ text[i - 1] = Slash
      <3>1. CASE m = 1
        BY <1>1, <3>1 DEF Pieces
      <3>2. CASE m # 1
        <4>1. m - 1 \in 1..(Len(cut) - 1)
          BY <2>1, <3>2
        <4>2. text[at[m - 1]] = Slash
          BY <1>1, <4>1 DEF Pieces
        <4>3. i - 1 = at[m - 1]
          BY <2>1
        <4> QED
          BY <4>2, <4>3
      <3> QED
        BY <3>1, <3>2
    <2>5. j = Len(text) \/ text[j + 1] = Slash
      <3>1. CASE m = Len(cut)
        BY <1>1, <1>2, <3>1 DEF Pieces, n
      <3>2. CASE m # Len(cut)
        <4>1. m \in 1..(Len(cut) - 1)
          BY <2>1, <3>2
        <4>2. text[at[m]] = Slash
          BY <1>1, <4>1 DEF Pieces
        <4>3. j + 1 = at[m]
          BY <2>1
        <4> QED
          BY <4>2, <4>3
      <3> QED
        BY <3>1, <3>2
    <2> HIDE DEF i, j
    <2> QED
      BY <2>2, <2>3, <2>4, <2>5 DEF HasDotSegment
  <1>6. HasDotSegment(text) <=>
            \E m \in 1..Len(cut) :
                Len(cut[m]) \in 1..2 /\ \A q \in 1..Len(cut[m]) : Less(cut[m][q], 1) = Dot
    BY <1>4, <1>5 DEF HasDotSegment, n
  <1> QED
    BY <1>3, <1>6, Dots DEF cut

LEMMA Seen ==
  ASSUME NEW s \in Seq(Char), NEW n \in {0, 1}
  PROVE  View(n, s) \in Seq(Char)
  <1>1. ASSUME NEW c \in Char PROVE Less(c, n) \in Char
    <2> DEFINE q == IF c[2] < n THEN 0 ELSE c[2] - n
    <2>1. c[1] \in Symbols /\ c[2] \in Nat
      BY DEF Char
    <2>2. q \in Nat
      BY <2>1
    <2> HIDE DEF q
    <2>3. <<c[1], q>> \in Char
      BY <2>1, <2>2, Characters
    <2> QED
      BY <2>3 DEF Less, q
  <1>2. Len(s) \in Nat /\ DOMAIN s = 1..Len(s) /\ \A i \in 1..Len(s) : s[i] \in Char
    OBVIOUS
  <1>3. \A i \in 1..Len(s) : Less(s[i], n) \in Char
    BY <1>1, <1>2
  <1> DEFINE v == [i \in 1..Len(s) |-> Less(s[i], n)]
  <1>4. v \in [1..Len(s) -> Char]
    BY <1>3
  <1>5. View(n, s) = v
    BY <1>2 DEF View
  <1> HIDE DEF v
  <1>6. v \in Seq(Char)
    BY <1>2, <1>4, Functions
  <1> QED
    BY <1>5, <1>6

LEMMA AsWritten == ASSUME NEW s \in Seq(Char) PROVE View(0, s) = s
  <1>1. ASSUME NEW c \in Char PROVE Less(c, 0) = c
    BY DEF Char, Less
  <1>2. DOMAIN s = 1..Len(s) /\ \A i \in 1..Len(s) : s[i] \in Char
    OBVIOUS
  <1>3. s = [i \in 1..Len(s) |-> s[i]]
    OBVIOUS
  <1>4. \A i \in 1..Len(s) : Less(s[i], 0) = s[i]
    BY <1>1, <1>2
  <1> QED
    BY <1>2, <1>3, <1>4 DEF View

(* To encode a space moves no dot and no slash.                            *)
LEMMA NormalDots ==
  ASSUME NEW path \in Seq(Char)
  PROVE  HasDotSegment(View(1, Normal(path))) <=> HasDotSegment(View(1, path))
  <1> DEFINE p == Normal(path)
  <1>1. DOMAIN path = 1..Len(path)
    OBVIOUS
  <1>2. /\ DOMAIN p = 1..Len(path)
        /\ \A i \in 1..Len(path) : p[i] = IF path[i] = Space THEN <<" ", 1>> ELSE path[i]
    BY <1>1 DEF Normal
  <1> HIDE DEF p
  <1>3. Less(<<" ", 1>>, 1) = Less(Space, 1)
    BY DEF Less, Space
  <1>4. \A i \in 1..Len(path) : Less(p[i], 1) = Less(path[i], 1)
    BY <1>2, <1>3
  <1>5. View(1, p) = View(1, path)
    BY <1>1, <1>2, <1>4 DEF View
  <1> QED
    BY <1>5 DEF p

(* What is accepted is what belongs to the provider.                       *)
LEMMA ValidIsBelongs ==
  ASSUME NEW r \in RawUrl, NEW raw \in RawUrl, NEW k
  PROVE  Valid(r, raw, k) <=> Belongs(r, raw, k)
  <1> DEFINE path == raw.path
             NoDots(n) == LET cut == Segments(View(n, path)) IN
                 \A i \in DOMAIN cut : View(1, cut[i]) \notin {<<Dot>>, <<Dot, Dot>>}
  <1>1. path \in Seq(Char) /\ raw.creds \in BOOLEAN
    BY DEF RawUrl
  <1>2. ASSUME NEW n \in {0, 1} PROVE NoDots(n) <=> ~HasDotSegment(View(n, path))
    <2>1. View(n, path) \in Seq(Char)
      BY <1>1, Seen
    <2> QED
      BY <2>1, DotsInPieces
  <1>3. View(0, path) = path
    BY <1>1, AsWritten
  <1>4. HasDotSegment(View(1, Normal(path))) <=> HasDotSegment(View(1, path))
    BY <1>1, NormalDots
  <1>5. Matches(r, raw) <=> IsPrefix(Front(Segments(RootText(r))), Segments(Text(raw)))
    BY MatchesInPieces
  <1>6. (\A n \in {0, 1} : NoDots(n)) <=>
            ~HasDotSegment(path) /\ ~HasDotSegment(View(1, Normal(path)))
    <2> HIDE DEF NoDots, path
    <2> QED
      BY <1>2, <1>3, <1>4
  <1>7. Belongs(r, raw, k) <=>
            /\ raw.host # << >> /\ raw.port # "out of range" /\ ~raw.query
            /\ raw.creds <=> k = "access"
            /\ \A n \in {0, 1} : NoDots(n)
            /\ IsPrefix(Front(Segments(RootText(r))), Segments(Text(raw)))
    BY DEF Belongs
  <1> HIDE DEF NoDots
  <1> QED
    BY <1>1, <1>5, <1>6, <1>7, Zenon DEF Valid, Parsable, path

-----------------------------------------------------------------------------
LEMMA Shorter ==
  ASSUME NEW A, NEW s \in Seq(A), Len(s) > 1
  PROVE  Front(s) \in Seq(A)
  <1> DEFINE l == Len(s) - 1
  <1>1. Front(s) = SubSeq(s, 1, l)
    BY DEF Front
  <1>2. l \in Nat /\ \A i \in 1..l : s[i] \in A
    OBVIOUS
  <1> HIDE DEF l
  <1>3. 1 \in Int /\ l \in Int
    BY <1>2
  <1>4. SubSeq(s, 1, l) \in Seq(A)
    BY <1>2, <1>3, SubSeqProperties
  <1> QED
    BY <1>1, <1>4

LEMMA FrontOfAppend ==
  ASSUME NEW A, NEW s \in Seq(A), NEW c \in A
  PROVE  Front(Append(s, c)) = s
  <1> DEFINE v == Append(s, c)
             l == Len(v) - 1
  <1>1. /\ v \in Seq(A) /\ Len(v) = Len(s) + 1 /\ l = Len(s) /\ Len(s) \in Nat
        /\ \A i \in 1..Len(s) : v[i] = s[i]
    OBVIOUS
  <1>2. Front(v) = SubSeq(v, 1, l)
    BY DEF Front
  <1> HIDE DEF v, l
  <1>3. 1 \in Int /\ l \in Int /\ (1 <= l => (l - 1) + 1 = l) /\ (~(1 <= l) => l = 0)
        /\ \A i \in 1..l : v[i] \in A
    BY <1>1
  <1>4. /\ SubSeq(v, 1, l) \in Seq(A)
        /\ Len(SubSeq(v, 1, l)) = IF 1 <= l THEN (l - 1) + 1 ELSE 0
        /\ \A i \in 1..((l - 1) + 1) : SubSeq(v, 1, l)[i] = v[(1 + i) - 1]
    BY <1>3, SubSeqProperties
  <1>5. Len(SubSeq(v, 1, l)) = l /\ \A i \in 1..l : SubSeq(v, 1, l)[i] = v[i]
    BY <1>1, <1>3, <1>4
  <1>6. SubSeq(v, 1, l) = s
    BY <1>1, <1>4, <1>5
  <1> QED
    BY <1>2, <1>6 DEF v

LEMMA EnterType ==
  ASSUME NEW at \in Seq(Seq(Char)), NEW s \in Seq(Char)
  PROVE  Enter(at, s) \in Seq(Seq(Char))
  <1>1. Append(at, s) \in Seq(Seq(Char))
    OBVIOUS
  <1>2. Len(at) > 1 => Front(at) \in Seq(Seq(Char))
    BY Shorter
  <1> QED
    BY <1>1, <1>2, Zenon DEF Enter

(* How a server gets to where a text leads.                                *)
Walk(g, cut) ==
    /\ g[0] = << >>
    /\ \A i \in 0..Len(cut) : g[i] \in Seq(Seq(Char))
    /\ \A i \in 1..Len(cut) : g[i] = Enter(g[i - 1], cut[i])

LEMMA Walked ==
  ASSUME NEW text, Segments(text) \in Seq(Seq(Char))
  PROVE  \E g : Walk(g, Segments(text)) /\ Resolved(text) = g[Len(Segments(text))]
  <1> DEFINE cut == Segments(text)
             L == Len(cut)
             A == Seq(Seq(Char))
             step == [x \in (1..L) \X A |-> Enter(x[2], cut[x[1]])]
             F(g) == [n \in 0..L |-> IF n = 0 THEN << >> ELSE Enter(g[n - 1], cut[n])]
             h == CHOOSE g : g = F(g)
  <1>1. L \in Nat /\ << >> \in A /\ \A i \in 1..L : cut[i] \in Seq(Char)
    OBVIOUS
  <1>2. Resolved(text) = h[L]
    BY DEF Resolved
  <1> HIDE DEF cut
  <1>3. step \in [(1..L) \X A -> A]
    <2>1. ASSUME NEW x \in (1..L) \X A PROVE Enter(x[2], cut[x[1]]) \in A
      <3>1. x[2] \in A /\ x[1] \in 1..L /\ cut[x[1]] \in Seq(Char)
        BY <1>1
      <3> QED
        BY <3>1, EnterType
    <2> QED
      BY <2>1
  <1>4. \A i \in 1..L, a \in A : step[<<i, a>>] = Enter(a, cut[i])
    OBVIOUS
  <1> HIDE DEF step, A, L
  <1>5. PICK g : Recurses(g, A, << >>, L, step)
    BY <1>1, <1>3, Recursion
  <1>6. g = F(g)
    <2>1. ASSUME NEW i \in 1..L PROVE g[i] = Enter(g[i - 1], cut[i])
      <3>1. g[i - 1] \in A /\ g[i] = step[<<i, g[i - 1]>>]
        BY <1>1, <1>5 DEF Recurses
      <3> QED
        BY <1>4, <3>1
    <2> QED
      BY <1>1, <1>5, <2>1 DEF Recurses
  <1>7. h = F(h)
    <2> HIDE DEF F
    <2> QED
      BY <1>6
  <1> HIDE DEF h
  <1>8. h[0] = << >> /\ \A n \in 1..L : h[n] = Enter(h[n - 1], cut[n])
    BY <1>1, <1>7
  <1>9. \A i \in 0..L : h[i] \in A
    <2> DEFINE T == {i \in 0..L : h[i] \in A}
    <2>1. 0 \in T
      BY <1>1, <1>8
    <2>2. ASSUME NEW i \in 0..(L - 1), i \in T PROVE i + 1 \in T
      <3>1. i + 1 \in 1..L /\ i + 1 \in 0..L /\ (i + 1) - 1 = i
        BY <1>1
      <3>2. h[i] \in A /\ cut[i + 1] \in Seq(Char)
        BY <1>1, <2>2, <3>1
      <3>3. Enter(h[i], cut[i + 1]) \in A
        BY <3>2, EnterType DEF A
      <3> QED
        BY <1>8, <3>1, <3>3
    <2> HIDE DEF T
    <2>3. \A i \in 0..L : i \in T
      BY <1>1, <2>1, <2>2, Climb
    <2> QED
      BY <2>3 DEF T
  <1> QED
    BY <1>2, <1>8, <1>9 DEF Walk, L, A, cut

LEMMA Itself == ASSUME NEW A, NEW s \in Seq(A) PROVE IsPrefix(s, s)
  BY PrefixChars

LEMMA Longer ==
  ASSUME NEW A, NEW p \in Seq(A), NEW s \in Seq(A), NEW c \in A, IsPrefix(p, s)
  PROVE  IsPrefix(p, Append(s, c))
  <1> DEFINE v == Append(s, c)
  <1>1. v \in Seq(A) /\ Len(v) = Len(s) + 1 /\ \A i \in 1..Len(s) : v[i] = s[i]
    OBVIOUS
  <1> HIDE DEF v
  <1>2. Len(p) <= Len(s) /\ \A i \in 1..Len(p) : p[i] = s[i]
    BY PrefixChars
  <1>3. Len(p) <= Len(v) /\ \A i \in 1..Len(p) : p[i] = v[i]
    BY <1>1, <1>2
  <1>4. IsPrefix(p, v)
    BY <1>1, <1>3, PrefixChars
  <1> QED
    BY <1>4 DEF v

(* Who goes on from a directory by segments that move nothing about stays  *)
(* under it.                                                               *)
LEMMA StaysUnder ==
  ASSUME NEW cu, Len(cu) \in Nat, Len(cu) >= 2, cu[Len(cu)] = << >>, NEW ru, Walk(ru, cu),
         NEW ct \in Seq(Seq(Char)), NEW rt, Walk(rt, ct), SamePieces(cu, ct),
         \A i \in Len(cu)..Len(ct) : ct[i] \notin {<<Dot>>, <<Dot, Dot>>}
  PROVE  IsPrefix(Front(ru[Len(cu)]), rt[Len(ct)])
  <1> DEFINE M == Len(cu) - 1
             N == Len(ct)
             S == {i \in 0..M : ru[i] = rt[i]}
             T == {i \in 0..N : i >= M => IsPrefix(ru[M], rt[i])}
  <1>1. Len(cu) = M + 1 /\ M \in Nat /\ N \in Nat /\ M <= N /\ \A i \in 1..M : cu[i] = ct[i]
    BY DEF SamePieces
  <1>2. \A i \in 1..N : ct[i] \in Seq(Char)
    OBVIOUS
  <1> HIDE DEF M, N
  <1>3. ru[M] = rt[M] /\ ru[M] \in Seq(Seq(Char))
    <2>1. 0 \in S
      BY <1>1 DEF Walk
    <2>2. ASSUME NEW i \in 0..(M - 1), i \in S PROVE i + 1 \in S
      <3>1. i + 1 \in 0..M /\ i + 1 \in 1..M /\ i + 1 \in 1..(M + 1) /\ i + 1 \in 1..N
            /\ (i + 1) - 1 = i
        BY <1>1
      <3>2. ru[i] = rt[i] /\ cu[i + 1] = ct[i + 1]
        BY <1>1, <2>2, <3>1
      <3>3. ru[i + 1] = Enter(ru[i], cu[i + 1]) /\ rt[i + 1] = Enter(rt[i], ct[i + 1])
        BY <1>1, <3>1 DEF Walk, N
      <3> QED
        BY <3>1, <3>2, <3>3
    <2> HIDE DEF S
    <2>3. \A i \in 0..M : i \in S
      BY <1>1, <2>1, <2>2, Climb
    <2>4. M \in 0..M /\ M \in 0..(M + 1)
      BY <1>1
    <2> QED
      BY <1>1, <2>3, <2>4 DEF S, Walk
  <1>4. Front(ru[Len(cu)]) = ru[M]
    <2> DEFINE r == ru[M]
    <2>1. M + 1 \in 1..(M + 1) /\ (M + 1) - 1 = M
      BY <1>1
    <2>2. ru[Len(cu)] = Enter(r, << >>)
      BY <1>1, <2>1 DEF Walk
    <2>3. << >> # <<Dot>> /\ << >> # <<Dot, Dot>>
      <3> DEFINE d == Dot
      <3> HIDE DEF d
      <3>1. << >> # <<d>> /\ << >> # <<d, d>>
        OBVIOUS
      <3> QED
        BY <3>1 DEF d
    <2>4. ru[Len(cu)] = Append(r, << >>)
      BY <2>2, <2>3, Zenon DEF Enter
    <2>5. r \in Seq(Seq(Char)) /\ << >> \in Seq(Char)
      BY <1>3
    <2> HIDE DEF r
    <2>6. Front(Append(r, << >>)) = r
      BY <2>5, FrontOfAppend
    <2> QED
      BY <2>4, <2>6 DEF r
  <1>5. \A i \in 0..N : i \in T
    <2>1. 0 \in T
      BY <1>1, <1>3, Itself
    <2>2. ASSUME NEW i \in 0..(N - 1), i \in T PROVE i + 1 \in T
      <3>1. i + 1 \in 0..N /\ i + 1 \in 1..N /\ (i + 1) - 1 = i /\ i \in 0..N
        BY <1>1
      <3>2. CASE i + 1 < M
        BY <1>1, <3>1, <3>2
      <3>3. CASE i + 1 = M
        BY <1>3, <3>1, <3>3, Itself
      <3>4. CASE i >= M
        <4>1. rt[i + 1] = Enter(rt[i], ct[i + 1])
          BY <3>1 DEF Walk, N
        <4>2. i + 1 \in Len(cu)..Len(ct)
          BY <1>1, <3>1, <3>4 DEF N
        <4>3. ct[i + 1] # <<Dot>> /\ ct[i + 1] # <<Dot, Dot>>
          BY <4>2
        <4>4. rt[i + 1] = Append(rt[i], ct[i + 1])
          BY <4>1, <4>3, Zenon DEF Enter
        <4>5. rt[i] \in Seq(Seq(Char)) /\ ct[i + 1] \in Seq(Char)
          BY <1>2, <3>1 DEF Walk, N
        <4>6. IsPrefix(ru[M], rt[i])
          BY <2>2, <3>4
        <4>7. IsPrefix(ru[M], Append(rt[i], ct[i + 1]))
          BY <1>3, <4>5, <4>6, Longer
        <4> QED
          BY <3>1, <4>4, <4>7
      <3> QED
        BY <1>1, <3>2, <3>3, <3>4
    <2> HIDE DEF T
    <2> QED
      BY <1>1, <2>1, <2>2, Climb
  <1>6. IsPrefix(ru[M], rt[N])
    <2>1. N \in 0..N
      BY <1>1
    <2> QED
      BY <1>1, <1>5, <2>1
  <1> QED
    BY <1>4, <1>6 DEF N

-----------------------------------------------------------------------------
(* Where a URL's path is in its text: after an origin without a slash.     *)
Placed(raw, o) ==
    LET p == Normal(raw.path) IN
    /\ o \in Nat /\ p \in Seq(Char) /\ Len(p) \in Nat
    /\ Text(raw) \in Seq(Char) /\ Len(Text(raw)) = o + Len(p)
    /\ \A k \in 1..o : Text(raw)[k] # Slash
    /\ \A k \in 1..Len(p) : Text(raw)[o + k] = p[k]

LEMMA PathPlaced ==
  ASSUME NEW raw \in GivenUrls
  PROVE  \E o \in Nat : Placed(raw, o)
  <1> DEFINE host == [i \in DOMAIN raw.host |-> Lower(raw.host[i])]
             port == IF raw.port = "other" THEN <<<<":8443", 0>>>> ELSE << >>
             scheme == <<raw.scheme>>
             p == Normal(raw.path)
  <1>1. raw.host \in Seq(Char) /\ raw.path \in Seq(Char) /\ raw.scheme \in Char
    BY UrlAssumption DEF RawUrl
  <1>2. scheme \in Seq(Char) /\ Len(scheme) = 1 /\ scheme[1] # Slash
    BY <1>1, Single, UrlAssumption DEF RawUrl, Slash
  <1>3. host \in Seq(Char) /\ \A i \in 1..Len(host) : host[i] # Slash
    <2>1. DOMAIN raw.host = 1..Len(raw.host)
      BY <1>1
    <2>2. \A i \in 1..Len(raw.host) : Lower(raw.host[i]) \in Char
      BY <1>1, Lowered
    <2>3. \A i \in 1..Len(raw.host) : Lower(raw.host[i]) # Slash
      BY <2>1, AuthorityAssumption DEF Lower, Slash
    <2>4. host \in Seq(Char) /\ Len(host) = Len(raw.host)
          /\ \A i \in 1..Len(raw.host) : host[i] = Lower(raw.host[i])
      BY <1>1, <2>1, <2>2
    <2> HIDE DEF host
    <2> QED
      BY <2>3, <2>4
  <1>4. port \in Seq(Char) /\ \A i \in 1..Len(port) : port[i] # Slash
    <2>1. <<<<":8443", 0>>>> \in Seq(Char) /\ Len(<<<<":8443", 0>>>>) = 1
          /\ <<<<":8443", 0>>>>[1] = <<":8443", 0>>
      BY Literals, Single
    <2>2. <<":8443", 0>> # Slash
      BY DEF Slash
    <2>3. << >> \in Seq(Char) /\ Len(<< >>) = 0
      OBVIOUS
    <2>4. CASE raw.port = "other"
      BY <2>1, <2>2, <2>4
    <2>5. CASE raw.port # "other"
      BY <2>3, <2>5
    <2> QED
      BY <2>4, <2>5
  <1>5. p \in Seq(Char) /\ Len(p) \in Nat
    BY <1>1, Rendered
  <1>6. Text(raw) = ((scheme \o host) \o port) \o p
    BY DEF Text, Origin
  <1> HIDE DEF scheme, host, port, p
  <1> DEFINE sh == scheme \o host
             origin == sh \o port
             o == Len(origin)
  <1>7. /\ sh \in Seq(Char) /\ Len(sh) = 1 + Len(host)
        /\ \A i \in 1..1 : sh[i] = scheme[i]
        /\ \A i \in 1..Len(host) : sh[1 + i] = host[i]
    BY <1>2, <1>3, Joined
  <1>8. \A i \in 1..Len(sh) : sh[i] # Slash
    <2>1. Len(host) \in Nat
      BY <1>3
    <2> SUFFICES ASSUME NEW i \in 1..Len(sh) PROVE sh[i] # Slash
      OBVIOUS
    <2>2. CASE i = 1
      BY <1>2, <1>7, <2>2
    <2>3. CASE i # 1
      <3> DEFINE k == i - 1
      <3>1. k \in 1..Len(host) /\ 1 + k = i
        BY <1>7, <2>1, <2>3
      <3> HIDE DEF k, sh
      <3>2. sh[1 + k] = host[k]
        BY <1>7, <3>1
      <3> QED
        BY <1>3, <3>1, <3>2
    <2> QED
      BY <2>2, <2>3
  <1> HIDE DEF sh
  <1>9. /\ origin \in Seq(Char) /\ Len(origin) = Len(sh) + Len(port)
        /\ \A i \in 1..Len(sh) : origin[i] = sh[i]
        /\ \A i \in 1..Len(port) : origin[Len(sh) + i] = port[i]
    <2>1. sh \in Seq(Char) /\ port \in Seq(Char)
      BY <1>4, <1>7
    <2> QED
      BY <2>1, Joined
  <1>10. \A i \in 1..Len(origin) : origin[i] # Slash
    <2>1. Len(sh) \in Nat /\ Len(port) \in Nat
      BY <1>4, <1>7
    <2> SUFFICES ASSUME NEW i \in 1..Len(origin) PROVE origin[i] # Slash
      OBVIOUS
    <2>2. CASE i <= Len(sh)
      <3>1. i \in 1..Len(sh)
        BY <2>1, <2>2
      <3> HIDE DEF origin
      <3> QED
        BY <1>8, <1>9, <3>1
    <2>3. CASE i > Len(sh)
      <3> DEFINE k == i - Len(sh)
      <3>1. k \in 1..Len(port) /\ Len(sh) + k = i
        BY <1>9, <2>1, <2>3
      <3> HIDE DEF k, origin
      <3>2. origin[Len(sh) + k] = port[k]
        BY <1>9, <3>1
      <3> QED
        BY <1>4, <3>1, <3>2
    <2> QED
      BY <2>1, <2>2, <2>3
  <1>11. /\ o \in Nat /\ origin \in Seq(Char) /\ Text(raw) = origin \o p
    BY <1>6, <1>9 DEF sh
  <1> HIDE DEF origin
  <1>12. /\ origin \o p \in Seq(Char) /\ Len(origin \o p) = Len(origin) + Len(p)
         /\ \A i \in 1..Len(origin) : (origin \o p)[i] = origin[i]
         /\ \A i \in 1..Len(p) : (origin \o p)[Len(origin) + i] = p[i]
    BY <1>5, <1>11, Joined
  <1> DEFINE t == Text(raw)
  <1>13. /\ t \in Seq(Char) /\ Len(t) = Len(origin) + Len(p)
         /\ \A i \in 1..Len(origin) : t[i] = origin[i]
         /\ \A i \in 1..Len(p) : t[Len(origin) + i] = p[i]
    BY <1>11, <1>12
  <1>14. Len(p) \in Nat
    BY <1>5
  <1> HIDE DEF t
  <1>15. /\ t \in Seq(Char) /\ Len(t) = o + Len(p)
         /\ \A k \in 1..o : t[k] # Slash
         /\ \A k \in 1..Len(p) : t[o + k] = p[k]
    BY <1>10, <1>13
  <1>16. Placed(raw, o)
    BY <1>5, <1>11, <1>14, <1>15 DEF Placed, t, p
  <1> QED
    BY <1>11, <1>16

(* What is sent: the text, and "/accounts" after it or nothing.            *)
Sends(t, text) ==
    /\ t \in Seq(Char) /\ Len(t) \in Nat /\ Len(t) >= Len(text)
    /\ \A k \in 1..Len(text) : t[k] = text[k]
    /\ \A k \in (Len(text) + 1)..Len(t) : t[k] \in {Slash, <<"accounts", 0>>}

LEMMA Sent ==
  ASSUME NEW raw \in RawUrl
  PROVE  Sends(Text(raw), Text(raw)) /\ Sends(AccountsUrl(raw), Text(raw))
  <1> DEFINE t == Text(raw)
             v == Append(t, Slash)
             base == IF Last(t) = Slash THEN t ELSE v
             tail == <<<<"accounts", 0>>>>
             u == base \o tail
  <1>1. t \in Seq(Char) /\ Len(t) \in Nat
    BY Texts
  <1>2. AccountsUrl(raw) = u
    BY DEF AccountsUrl
  <1>3. tail \in Seq(Char) /\ Len(tail) = 1 /\ tail[1] = <<"accounts", 0>> /\ Slash \in Char
    BY Literals, Single
  <1> HIDE DEF t, tail
  <1>4. Sends(t, t)
    BY <1>1 DEF Sends
  <1>5. /\ v \in Seq(Char) /\ Len(v) = Len(t) + 1 /\ \A i \in 1..Len(t) : v[i] = t[i]
        /\ v[Len(t) + 1] = Slash
    BY <1>1, <1>3, Lists
  <1> HIDE DEF v
  <1>6. /\ base \in Seq(Char) /\ Len(base) \in {Len(t), Len(t) + 1}
        /\ \A i \in 1..Len(t) : base[i] = t[i]
        /\ Len(base) = Len(t) + 1 => base[Len(t) + 1] = Slash
    BY <1>1, <1>5
  <1> HIDE DEF base
  <1>7. /\ u \in Seq(Char) /\ Len(u) = Len(base) + 1
        /\ \A i \in 1..Len(base) : u[i] = base[i]
        /\ u[Len(base) + 1] = <<"accounts", 0>>
    <2>1. /\ u \in Seq(Char) /\ Len(u) = Len(base) + Len(tail)
          /\ \A i \in 1..Len(base) : u[i] = base[i]
          /\ \A i \in 1..Len(tail) : u[Len(base) + i] = tail[i]
      BY <1>3, <1>6, Joined
    <2> HIDE DEF u
    <2> QED
      BY <1>3, <2>1
  <1> HIDE DEF u
  <1>8. \A k \in 1..Len(t) : u[k] = t[k]
    BY <1>1, <1>6, <1>7
  <1>9. \A k \in (Len(t) + 1)..Len(u) : u[k] \in {Slash, <<"accounts", 0>>}
    <2> DEFINE end == <<"accounts", 0>>
               lt == Len(t)
               lb == Len(base)
               lu == Len(u)
    <2>1. /\ lt \in Nat /\ lb \in Nat /\ (lb = lt \/ lb = lt + 1) /\ lu = lb + 1
          /\ (lb = lt + 1 => base[lt + 1] = Slash)
          /\ \A k \in 1..lb : u[k] = base[k]
          /\ u[lb + 1] = end
      BY <1>1, <1>6, <1>7
    <2> HIDE DEF end, lt, lb, lu
    <2>2. ASSUME NEW k \in (lt + 1)..lu PROVE u[k] \in {Slash, end}
      <3>1. CASE lb = lt
        BY <2>1, <3>1
      <3>2. CASE lb = lt + 1
        <4>1. k = lt + 1 \/ k = lb + 1
          BY <2>1, <3>2
        <4>2. lt + 1 \in 1..lb
          BY <2>1, <3>2
        <4> QED
          BY <2>1, <3>2, <4>1, <4>2
      <3> QED
        BY <2>1, <3>1, <3>2
    <2> QED
      BY <2>2 DEF end, lt, lu
  <1>10. Sends(u, t)
    BY <1>1, <1>6, <1>7, <1>8, <1>9 DEF Sends
  <1> QED
    BY <1>2, <1>4, <1>10 DEF t

(* The root reaches into the path.                                         *)
LEMMA OriginIsRoots ==
  ASSUME NEW r \in RawUrl, NEW raw \in RawUrl, NEW o \in Nat, Placed(raw, o), Under(r, Text(raw))
  PROVE  Len(RootText(r)) \in Nat /\ o < Len(RootText(r))
  <1> DEFINE m == Len(RootText(r))
             t == Text(raw)
             l == Len(Normal(raw.path))
  <1>1. m \in Nat /\ m >= 2
    BY RootTexts
  <1>2. Len(t) = o + l /\ l \in Nat /\ \A k \in 1..o : t[k] # Slash
    BY DEF Placed
  <1>3. Len(t) >= m - 1 /\ (Len(t) >= m => t[m] = Slash)
    BY DEF Under
  <1> HIDE DEF m, t, l
  <1>4. o < m
    BY <1>1, <1>2, <1>3
  <1> QED
    BY <1>1, <1>4 DEF m

LEMMA StillADot ==
  ASSUME NEW c \in Char, NEW n \in {0, 1}
  PROVE  /\ Less(c, n) = Dot => Less(Less(c, 1), 1) = Dot
         /\ Less(c, n) = Slash => Less(c, 1) = Slash
  <1>1. c[2] \in Nat
    BY DEF Char
  <1>2. n \in Nat /\ (n = 0 \/ n = 1)
    OBVIOUS
  <1>3. ASSUME NEW x, Less(c, n) = <<x, 0>> PROVE c[1] = x /\ c[2] \in {0, 1}
    BY <1>1, <1>2, <1>3 DEF Less
  <1>4. ASSUME NEW x, c[1] = x, c[2] \in {0, 1}
        PROVE  Less(c, 1) = <<x, 0>> /\ Less(<<x, 0>>, 1) = <<x, 0>>
    BY <1>4 DEF Less
  <1> QED
    BY <1>3, <1>4 DEF Dot, Slash

(* So no segment sent past the root moves about: it would in the path.     *)
LEMMA NoDotsSent ==
  ASSUME NEW raw \in RawUrl, NEW o \in Nat, Placed(raw, o), Parsable(raw),
         NEW t, Sends(t, Text(raw)), NEW n \in {0, 1},
         NEW ct, NEW a, Pieces(View(n, t), Len(t), ct, a),
         NEW i \in 2..Len(ct), o < a[i - 1]
  PROVE  ct[i] \notin {<<Dot>>, <<Dot, Dot>>}
  <1> SUFFICES ASSUME ct[i] \in {<<Dot>>, <<Dot, Dot>>} PROVE FALSE
    OBVIOUS
  <1> DEFINE lo == a[i - 1]
             hi == a[i]
             l == Len(ct[i])
             p == Normal(raw.path)
             w == View(1, p)
             v == View(n, t)
             N == Len(ct)
             T == Len(t)
             L == Len(Text(raw))
             P == Len(p)
  <1>1. l \in 1..2 /\ \A q \in 1..l : ct[i][q] = Dot
    <2> DEFINE d == Dot
    <2> HIDE DEF d
    <2>1. ct[i] = <<d>> \/ ct[i] = <<d, d>>
      BY DEF d
    <2>2. Len(ct[i]) \in 1..2 /\ \A q \in 1..Len(ct[i]) : ct[i][q] = d
      BY <2>1
    <2> QED
      BY <2>2 DEF d
  <1>2. T \in Nat /\ L <= T /\ t \in Seq(Char)
    BY DEF Sends
  <1>3. P \in Nat /\ p \in Seq(Char) /\ L = o + P
    BY DEF Placed
  <1>4. /\ N \in Nat /\ lo \in Nat /\ hi \in Nat /\ hi = lo + l + 1 /\ hi <= T + 1
        /\ (i = N => hi = T + 1)
    <2>1. N \in Nat /\ i \in 1..N /\ i \in 0..N /\ i - 1 \in 0..N
      BY DEF Pieces
    <2>2. \A k \in 0..N : a[k] \in Nat /\ a[k] <= T + 1
      BY DEF Pieces
    <2>3. hi = lo + l + 1 /\ a[N] = T + 1
      BY <2>1 DEF Pieces
    <2> QED
      BY <2>1, <2>2, <2>3
  <1>5. DOMAIN v = 1..T /\ \A k \in 1..T : v[k] = Less(t[k], n)
    BY <1>2, Views
  <1>6. DOMAIN w = 1..P /\ Len(w) = P /\ \A k \in 1..P : w[k] = Less(p[k], 1)
    BY <1>3, Views
  <1>7. v[lo] = Slash /\ (i # N => v[hi] = Slash)
    <2>1. i - 1 \in 1..(N - 1) /\ (i # N => i \in 1..(N - 1))
      BY <1>4
    <2> QED
      BY <2>1 DEF Pieces
  <1>8. \A q \in 1..l : v[lo + q] = Dot
    <2>1. i \in 1..N
      BY <1>4
    <2> QED
      BY ZenonT(30), <1>1, <2>1 DEF Pieces
  <1>9. \A k \in 1..P : o + k \in 1..T /\ t[o + k] = p[k] /\ p[k] \in Char
    <2>1. \A k \in 1..P : o + k \in 1..L /\ o + k \in 1..T
      BY <1>2, <1>3
    <2>2. \A k \in 1..P : Text(raw)[o + k] = p[k]
      BY DEF Placed
    <2>3. \A k \in 1..L : t[k] = Text(raw)[k]
      BY DEF Sends
    <2>4. \A k \in 1..P : p[k] \in Char
      BY <1>3
    <2> QED
      BY <2>1, <2>2, <2>3, <2>4
  <1>10. \A k \in 1..T : k > L => Less(t[k], n) # Dot
    <2> SUFFICES ASSUME NEW k \in 1..T, k > L PROVE Less(t[k], n) # Dot
      OBVIOUS
    <2>1. k \in (L + 1)..T
      BY <1>2, <1>3
    <2>2. t[k] \in {Slash, <<"accounts", 0>>}
      BY <2>1 DEF Sends
    <2> QED
      BY <2>2, NotADot
  <1>11. o < lo /\ ~HasDotSegment(w)
    BY DEF Parsable
  <1> HIDE DEF lo, hi, l, p, w, v, N, T, L, P
  <1>12. \A k \in (lo + 1)..(hi - 1) : k \in 1..T /\ v[k] = Dot /\ k <= L
    <2> SUFFICES ASSUME NEW k \in (lo + 1)..(hi - 1)
                 PROVE  k \in 1..T /\ v[k] = Dot /\ k <= L
      OBVIOUS
    <2> DEFINE q == k - lo
    <2>1. k \in 1..T /\ q \in 1..l /\ lo + q = k
      BY <1>1, <1>2, <1>4
    <2> HIDE DEF q
    <2>2. v[k] = Dot
      BY <1>8, <2>1
    <2>3. ~(k > L)
      BY <1>5, <1>10, <2>1, <2>2
    <2>4. k \in Nat /\ L \in Nat
      BY <1>3, <2>1
    <2> QED
      BY <2>1, <2>2, <2>3, <2>4
  <1>13. hi - 1 <= L
    <2>1. hi - 1 \in (lo + 1)..(hi - 1)
      BY <1>1, <1>4
    <2> QED
      BY <1>12, <2>1
  <1> DEFINE b == lo + 1 - o
             e == hi - 1 - o
  <1>14. /\ b \in 1..P /\ e \in 1..P /\ (e = b \/ e = b + 1)
         /\ b - 1 \in 1..P /\ o + (b - 1) = lo
         /\ o + e = hi - 1 /\ o + b = lo + 1
    <2>1. P \in Nat /\ o \in Nat /\ lo \in Nat /\ hi \in Nat /\ L \in Nat /\ L = o + P
          /\ (hi = lo + 2 \/ hi = lo + 3) /\ o < lo /\ hi - 1 <= L
      <3>1. l = 1 \/ l = 2
        BY <1>1
      <3> QED
        BY <1>3, <1>4, <1>11, <1>13, <3>1
    <2>2. b = lo + 1 - o /\ e = hi - 1 - o
      OBVIOUS
    <2> HIDE DEF b, e
    <2>3. CASE hi = lo + 2
      BY <2>1, <2>2, <2>3
    <2>4. CASE hi = lo + 3
      BY <2>1, <2>2, <2>4
    <2> QED
      BY <2>1, <2>3, <2>4
  <1>15. \A k \in b..e : Less(w[k], 1) = Dot
    <2> SUFFICES ASSUME NEW k \in b..e PROVE Less(w[k], 1) = Dot
      OBVIOUS
    <2> HIDE DEF b, e
    <2>1. k \in 1..P /\ o + k \in (lo + 1)..(hi - 1)
      <3>1. /\ P \in Nat /\ lo \in Nat /\ hi \in Nat /\ b \in 1..P /\ e \in 1..P
            /\ o + e = hi - 1 /\ o + b = lo + 1
        BY <1>3, <1>4, <1>14
      <3> QED
        BY SMTT(30), <3>1
    <2> DEFINE s == o + k
    <2>2. s \in 1..T /\ v[s] = Dot /\ t[s] = p[k] /\ p[k] \in Char
      BY <1>9, <1>12, <2>1
    <2> HIDE DEF s
    <2>3. Less(p[k], n) = Dot
      BY <1>5, <2>2
    <2> QED
      BY <1>6, <2>1, <2>2, <2>3, StillADot
  <1>16. w[b - 1] = Slash
    <2> DEFINE k == b - 1
    <2>1. k \in 1..P /\ o + k = lo
      BY <1>14
    <2> HIDE DEF k
    <2>2. t[lo] = p[k] /\ p[k] \in Char /\ lo \in 1..T
      BY <1>9, <2>1
    <2>3. Less(p[k], n) = Slash
      BY <1>5, <1>7, <2>2
    <2>4. w[k] = Slash
      BY <1>6, <2>1, <2>2, <2>3, StillADot
    <2> QED
      BY <2>4 DEF k
  <1>17. e = Len(w) \/ w[e + 1] = Slash
    <2>1. CASE hi - 1 = L
      BY <1>3, <1>4, <1>6, <2>1
    <2>2. CASE hi - 1 # L
      <3> DEFINE k == e + 1
      <3>1. k = e + 1
        OBVIOUS
      <3> HIDE DEF k, b, e
      <3>2. k \in 1..P /\ o + k = hi /\ i # N
        <4>1. hi <= L /\ hi \in Nat /\ L \in Nat /\ T \in Nat
          BY SMTT(30), <1>2, <1>3, <1>4, <1>13, <2>2
        <4>2. i # N
          BY <1>2, <1>4, <4>1
        <4>3. e \in Nat /\ e >= 1 /\ o + e = hi - 1
          BY <1>3, <1>14
        <4>4. L = o + P /\ P \in Nat /\ o \in Nat
          BY <1>3
        <4>5. k \in 1..P /\ o + k = hi
          BY SMTT(30), <3>1, <4>1, <4>3, <4>4
        <4> QED
          BY <4>2, <4>5
      <3>3. t[hi] = p[k] /\ p[k] \in Char /\ hi \in 1..T
        BY <1>9, <3>2
      <3>4. Less(p[k], n) = Slash
        BY <1>5, <1>7, <3>2, <3>3
      <3>5. w[k] = Slash
        BY <1>6, <3>2, <3>3, <3>4, StillADot
      <3> QED
        BY <3>1, <3>5
    <2> QED
      BY <2>1, <2>2
  <1> HIDE DEF b, e
  <1>18. HasDotSegment(w)
    <2>1. b \in DOMAIN w /\ e \in {b, b + 1} \cap DOMAIN w
      BY <1>6, <1>14
    <2> QED
      BY <1>15, <1>16, <1>17, <2>1 DEF HasDotSegment
  <1> QED
    BY <1>11, <1>18

-----------------------------------------------------------------------------
(***************************************************************************)
(* The inductive invariant: a root the config accepts, and a URL that was  *)
(* judged by it if anything was sent or done with it.                      *)
(***************************************************************************)
IInv ==
    /\ root \in RawUrl /\ RootOK(root) /\ url \in GivenUrls
    /\ kind \in {"claim", "access"}
    /\ stage \in {"given", "posted", "stored", "configured", "serving", "refused"}
    /\ sent # << >> => Valid(root, url, kind) /\ sent \in {Text(url), AccountsUrl(url)}
    /\ stage \in {"posted", "serving"} => Valid(root, url, kind)
    /\ stage = "refused" => ~Valid(root, url, kind)

LEMMA InitIInv == Init => IInv
  BY UrlAssumption DEF Init, IInv

LEMMA NextIInv == IInv /\ [Next]_vars => IInv'
  <1> SUFFICES ASSUME IInv, [Next]_vars PROVE IInv'
    OBVIOUS
  <1>1. CASE PostClaim
    BY <1>1 DEF PostClaim, IInv
  <1>2. CASE StoreAndProbe
    BY <1>2 DEF StoreAndProbe, IInv
  <1>3. CASE Refuse
    BY <1>3 DEF Refuse, IInv
  <1>4. CASE Configure
    BY <1>4, UrlAssumption DEF Configure, IInv
  <1>5. CASE Serve
    BY <1>5 DEF Serve, IInv
  <1>6. CASE UNCHANGED vars
    BY <1>6 DEF vars, IInv
  <1> QED
    BY <1>1, <1>2, <1>3, <1>4, <1>5, <1>6 DEF Next

LEMMA SentStarts ==
  ASSUME IInv, sent # << >>
  PROVE  Begins(root, sent) /\ (~DoubleSlash(root) => Under(root, sent))
  <1>1. url \in RawUrl
    BY UrlAssumption DEF IInv
  <1> QED
    BY <1>1, MatchesBegins, MatchesUnder DEF Valid, Parsable, IInv

THEOREM Invariance == Spec => []IInv
  BY InitIInv, NextIInv, PTL DEF Spec

(* The variables have their types (url_validation.py, NormalizedUrl).      *)
THEOREM TypeCorrect == Spec => []TypeOK
  <1>1. IInv => TypeOK
    BY SentStarts DEF IInv, TypeOK, Begins
  <1> QED
    BY <1>1, Invariance, PTL

(* Whatever roots and URLs there are, nothing goes out in the clear to     *)
(* another machine (parse_root, _check_matches_root).                      *)
THEOREM PrivacyHolds == Spec => []SentInPrivate
  <1>1. IInv => SentInPrivate
    BY SentStarts DEF IInv, SentInPrivate, Begins, RootOK
  <1> QED
    BY <1>1, Invariance, PTL

(* Whatever roots and URLs there are, the root ends where a segment of     *)
(* what is sent ends (_check_matches_root).                                *)
THEOREM BoundaryHolds == Spec => []SentOnBoundary
  <1>1. ASSUME IInv, sent # << >>, ~DoubleSlash(root), NEW n \in {0, 1}
        PROVE  LET r == View(n, RootText(root))
                   t == View(n, sent)
               IN  /\ Len(t) >= Len(r) - 1
                   /\ \A i \in 1..(Len(r) - 1) : t[i] = r[i]
                   /\ Len(t) >= Len(r) => t[Len(r)] = Slash
    <2> DEFINE s == RootText(root)
    <2>1. s \in Seq(Char) /\ Len(s) >= 2
      BY <1>1, RootTexts DEF IInv
    <2>2. /\ sent \in Seq(Char)
          /\ Len(sent) >= Len(s) - 1
          /\ \A i \in 1..(Len(s) - 1) : sent[i] = s[i]
          /\ Len(sent) >= Len(s) => sent[Len(s)] = Slash
      BY <1>1, SentStarts DEF Under
    <2> HIDE DEF s
    <2>3. /\ Len(View(n, s)) = Len(s)
          /\ \A i \in 1..Len(s) : View(n, s)[i] = Less(s[i], n)
          /\ Len(View(n, sent)) = Len(sent)
          /\ \A i \in 1..Len(sent) : View(n, sent)[i] = Less(sent[i], n)
          /\ Less(Slash, n) = Slash
      BY <2>1, <2>2, Views
    <2>4. /\ Len(View(n, sent)) >= Len(View(n, s)) - 1
          /\ \A i \in 1..(Len(View(n, s)) - 1) : View(n, sent)[i] = View(n, s)[i]
          /\ Len(View(n, sent)) >= Len(View(n, s)) => View(n, sent)[Len(View(n, s))] = Slash
      BY <2>1, <2>2, <2>3
    <2> QED
      BY <2>4 DEF s
  <1>2. IInv => SentOnBoundary
    BY <1>1 DEF SentOnBoundary
  <1> QED
    BY <1>2, Invariance, PTL

(* Whatever roots and URLs there are, a URL is refused exactly if it does  *)
(* not belong to the provider, told segment by segment (parse_url,         *)
(* _check_matches_root).                                                   *)
THEOREM CauseHolds == Spec => []RefusedForCause
  <1>1. ASSUME IInv PROVE Valid(root, url, kind) <=> Belongs(root, url, kind)
    <2>1. root \in RawUrl /\ url \in RawUrl
      BY <1>1, UrlAssumption DEF IInv
    <2> QED
      BY <2>1, ValidIsBelongs
  <1>2. IInv => RefusedForCause
    BY <1>1 DEF RefusedForCause, IInv
  <1> QED
    BY <1>2, Invariance, PTL

(* What is sent, seen as it is or decoded, leads under the root.           *)
LEMMA LeadsUnder ==
  ASSUME IInv, sent # << >>, ~DoubleSlash(root), NEW n \in {0, 1}
  PROVE  IsPrefix(Front(Resolved(View(n, RootText(root)))), Resolved(View(n, sent)))
  <1> DEFINE r == RootText(root)
             m == Len(r)
             T == Len(sent)
             u == View(n, r)
             t == View(n, sent)
             cu == Segments(u)
             ct == Segments(t)
  <1>1. root \in RawUrl /\ url \in RawUrl /\ url \in GivenUrls
    BY UrlAssumption DEF IInv
  <1>2. Valid(root, url, kind) /\ sent \in {Text(url), AccountsUrl(url)}
    BY DEF IInv
  <1>3. Parsable(url) /\ Matches(root, url)
    BY <1>2 DEF Valid
  <1>4. Under(root, Text(url)) /\ Under(root, sent)
    BY <1>1, <1>2, <1>3, MatchesUnder
  <1>5. r \in Seq(Char) /\ m \in Nat /\ m >= 2 /\ r[m] = Slash
    BY <1>1, RootTexts
  <1>6. /\ sent \in Seq(Char) /\ T \in Nat /\ T >= m - 1
        /\ \A k \in 1..(m - 1) : sent[k] = r[k]
        /\ T >= m => sent[m] = Slash
    BY <1>4 DEF Under
  <1>7. PICK o \in Nat : Placed(url, o)
    BY <1>1, PathPlaced
  <1>8. o < m
    BY <1>1, <1>4, <1>7, OriginIsRoots
  <1>9. Sends(sent, Text(url))
    BY <1>1, <1>2, Sent
  <1>10. /\ u \in Seq(Char) /\ Len(u) = m /\ \A k \in 1..m : u[k] = Less(r[k], n)
         /\ t \in Seq(Char) /\ Len(t) = T /\ \A k \in 1..T : t[k] = Less(sent[k], n)
         /\ Less(Slash, n) = Slash
    BY <1>5, <1>6, Views, Seen
  <1> HIDE DEF r, m, T
  <1>11. u[m] = Slash /\ Starts(u, m, t, T)
    <2> HIDE DEF u, t
    <2>1. u[m] = Slash
      BY <1>5, <1>10
    <2>2. m <= T + 1
      BY <1>5, <1>6
    <2>3. ASSUME NEW k \in 1..(m - 1) PROVE u[k] = t[k]
      <3>1. k \in 1..m /\ k \in 1..T
        BY <1>5, <1>6
      <3> QED
        BY <1>6, <1>10, <3>1
    <2>4. ASSUME m <= T PROVE t[m] = Slash
      <3>1. m \in 1..T
        BY <1>5, <1>6, <2>4
      <3> QED
        BY <1>6, <1>10, <2>4, <3>1
    <2> QED
      BY <2>1, <2>2, <2>3, <2>4 DEF Starts
  <1>12. PICK b : Pieces(u, m, cu, b)
    BY <1>10, SegmentPieces
  <1>13. PICK a : Pieces(t, T, ct, a)
    BY <1>10, SegmentPieces
  <1>14. ct \in Seq(Seq(Char)) /\ cu \in Seq(Seq(Char))
    BY <1>12, <1>13 DEF Pieces
  <1>15. PICK ru : Walk(ru, cu) /\ Resolved(u) = ru[Len(cu)]
    BY <1>14, Walked
  <1>16. PICK rt : Walk(rt, ct) /\ Resolved(t) = rt[Len(ct)]
    BY <1>14, Walked
  <1>17. Pieces(View(n, sent), Len(sent), ct, a)
    BY <1>13 DEF T
  <1> HIDE DEF u, t, cu, ct
  <1>18. /\ Len(cu) \in Nat /\ Len(cu) >= 2 /\ b[Len(cu) - 1] = m /\ cu[Len(cu)] = << >>
    BY <1>5, <1>11, <1>12, LastIsEmpty
  <1>19. SamePieces(cu, ct) /\ \A i \in 0..(Len(cu) - 1) : a[i] = b[i]
    BY <1>5, <1>6, <1>11, <1>12, <1>13, PiecesOfStart
  <1>20. ASSUME NEW i \in Len(cu)..Len(ct) PROVE ct[i] \notin {<<Dot>>, <<Dot, Dot>>}
    <2> DEFINE M == Len(cu) - 1
    <2>1. M \in Nat /\ M >= 1 /\ a[M] = m /\ Len(ct) \in Nat
      <3>1. M \in Nat /\ M >= 1 /\ b[M] = m
        BY <1>18
      <3>2. M \in 0..M /\ \A j \in 0..M : a[j] = b[j]
        BY <1>19, <3>1
      <3>3. Len(ct) \in Nat
        BY <1>14
      <3> HIDE DEF M
      <3> QED
        BY <3>1, <3>2, <3>3
    <2>2. i \in 2..Len(ct) /\ i - 1 \in 0..Len(ct) /\ M \in 0..Len(ct) /\ M <= i - 1
      BY <1>18, <2>1
    <2> HIDE DEF M
    <2>3. a[i - 1] \in Nat /\ (i - 1 # M => a[M] < a[i - 1])
      <3>1. i - 1 # M => M < i - 1
        BY <2>1, <2>2
      <3> QED
        BY <1>13, <2>2, <3>1 DEF Pieces
    <2>4. o < a[i - 1]
      <3>1. CASE i - 1 = M
        BY <1>8, <2>1, <3>1
      <3>2. CASE i - 1 # M
        BY <1>5, <1>8, <2>1, <2>3, <3>2
      <3> QED
        BY <3>1, <3>2
    <2> QED
      BY <1>1, <1>3, <1>7, <1>9, <1>17, <2>2, <2>4, NoDotsSent
  <1>21. IsPrefix(Front(ru[Len(cu)]), rt[Len(ct)])
    BY <1>14, <1>15, <1>16, <1>18, <1>19, <1>20, StaysUnder
  <1> QED
    BY <1>15, <1>16, <1>21 DEF u, t, r

(* Whatever roots and URLs there are, no request leaves the provider's     *)
(* root, even if the server decodes the path and resolves it (parse_url,   *)
(* _check_matches_root).                                                   *)
THEOREM UnderRootHolds == Spec => []SentUnderRoot
  <1>1. IInv => SentUnderRoot
    BY LeadsUnder DEF SentUnderRoot
  <1> QED
    BY <1>1, Invariance, PTL
=============================================================================
