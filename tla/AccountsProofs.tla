--------------------------- MODULE AccountsProofs ---------------------------
(***************************************************************************)
(* What Accounts guarantees for any providers, prefixes, account ids and   *)
(* answers.  The merged answer is a flattened sequence, of which the       *)
(* lemmas say where each provider's part is (MergedLayout, by Laid); the   *)
(* invariant says that an answer is what merge makes of what came.         *)
(***************************************************************************)
EXTENDS Accounts, NamespacingProofs, FiniteSetTheorems

Text == Seq(STRING)
Body == [usable : BOOLEAN, accounts : Seq(Text), clean : BOOLEAN,
         errors : {"none", "strings", "garbage"}]
Reply == [from : Keys, body : Body]
Shown == [id : Text, from : Keys, own : Text]

(* What a provider sends are accounts it holds, and has been asked for; an *)
(* answer that cannot be used holds none.                                  *)
LEMMA BodyFacts ==
  ASSUME NEW p \in Keys, NEW ids, NEW b \in Bodies(p, ids)
  PROVE  /\ b \in Body
         /\ ~b.usable => b.accounts = << >>
         /\ \A i \in DOMAIN b.accounts :
               /\ b.accounts[i] \in Held[p]
               /\ ids = {} \/ b.accounts[i] \in ids
  <1> DEFINE W == Wanted(p, ids)
             sent == SetToSeqs(W) \union {<<id, id>> : id \in {x \in W : MayRepeat}}
  <1>1. W \subseteq Held[p] /\ (ids = {} \/ W \subseteq ids)
    BY DEF Wanted
  <1>2. Held[p] \subseteq Text /\ IsFiniteSet(Held[p])
    BY TextAssumption DEF Text
  <1>3. Cardinality(W) \in Nat
    BY <1>1, <1>2, FS_Subset, FS_CardinalityType
  <1>4. b \in [usable : {TRUE}, accounts : sent, clean : {TRUE, CleanText}, errors : ErrorFields]
            \union [usable : {FALSE}, accounts : {<< >>}, clean : {TRUE}, errors : ErrorFields]
    BY DEF Bodies
  <1> HIDE DEF W
  <1>5. ASSUME NEW f \in sent PROVE f \in Seq(W)
    <2>1. CASE f \in SetToSeqs(W)
      <3>1. f \in [1..Cardinality(W) -> W]
        BY <2>1 DEF SetToSeqs
      <3> QED
        BY <1>3, <3>1
    <2>2. CASE f \in {<<id, id>> : id \in {x \in W : MayRepeat}}
      <3>1. PICK id \in W : f = <<id, id>>
        BY <2>2
      <3>2. <<id, id>> \in Seq(W)
        OBVIOUS
      <3> QED
        BY <3>1, <3>2
    <2> QED
      BY <2>1, <2>2
  <1> HIDE DEF sent
  <1>6. b.accounts \in Seq(W) /\ b.usable \in BOOLEAN /\ (~b.usable => b.accounts = << >>)
    <2>1. << >> \in Seq(W)
      OBVIOUS
    <2> QED
      BY <1>4, <1>5, <2>1
  <1>7. b.accounts \in Seq(Text) /\ \A i \in DOMAIN b.accounts : b.accounts[i] \in W
    BY <1>1, <1>2, <1>6
  <1>8. b.clean \in BOOLEAN /\ b.errors \in {"none", "strings", "garbage"}
    <2>1. b.clean \in {TRUE, CleanText} /\ b.errors \in ErrorFields
      BY <1>4
    <2>2. ErrorFields \subseteq {"none", "strings", "garbage"}
      BY ErrorFieldsAssumption
    <2> QED
      BY <2>1, <2>2, CleanTextAssumption
  <1>9. b = [usable |-> b.usable, accounts |-> b.accounts, clean |-> b.clean,
             errors |-> b.errors]
    BY <1>4
  <1> QED
    BY <1>1, <1>6, <1>7, <1>8, <1>9 DEF Body

(* A plan's providers, in the order of the config, each once.              *)
LEMMA PlannedFacts ==
  ASSUME NEW asks, DOMAIN asks \subseteq Keys
  PROVE  /\ Planned(asks) \in Seq(Keys)
         /\ \A n \in DOMAIN Planned(asks) : Planned(asks)[n] \in DOMAIN asks
         /\ \A p \in DOMAIN asks : \E n \in DOMAIN Planned(asks) : Planned(asks)[n] = p
         /\ \A m, n \in DOMAIN Planned(asks) : m < n =>
               \E i, j \in DOMAIN Order :
                  i < j /\ Order[i] = Planned(asks)[m] /\ Order[j] = Planned(asks)[n]
         /\ \A m, n \in DOMAIN Planned(asks) : Planned(asks)[m] = Planned(asks)[n] => m = n
  <1> DEFINE s == [n \in DOMAIN Order |->
                     IF Order[n] \in DOMAIN asks THEN <<Order[n]>> ELSE << >>]
             pl == FlattenSeq(s)
  <1>1. Order \in Seq(Keys) /\ Len(Order) \in Nat /\ DOMAIN Order = 1..Len(Order)
    BY OrderAssumption
  <1>2. \A m, n \in DOMAIN Order : Order[m] = Order[n] => m = n
    BY OrderAssumption DEF IsInjective
  <1>3. \A p \in Keys : \E n \in DOMAIN Order : Order[n] = p
    BY OrderAssumption DEF Range
  <1>4. Planned(asks) = pl
    BY DEF Planned
  <1>5. /\ s \in Seq(Seq(Keys)) /\ Len(s) = Len(Order)
    <2>1. \A n \in 1..Len(Order) : <<Order[n]>> \in Seq(Keys) /\ << >> \in Seq(Keys)
      BY <1>1
    <2>2. s \in [1..Len(Order) -> Seq(Keys)]
      BY <1>1, <2>1
    <2> QED
      BY <1>1, <2>2
  <1>6. \A n \in 1..Len(s) :
           /\ Len(s[n]) <= 1
           /\ Len(s[n]) = 1 <=> Order[n] \in DOMAIN asks
           /\ Len(s[n]) = 1 => s[n][1] = Order[n]
    BY <1>1, <1>5
  <1> HIDE DEF s
  <1>0. Len(s) \in Nat /\ \A n \in 1..Len(s) : Len(s[n]) <= 1
    BY <1>1, <1>5, <1>6
  <1>7. PICK pos : Sifting(s, pl, pos)
    BY <1>5, <1>0, Sifted
  <1>8. pl \in Seq(Keys)
    BY <1>5, <1>0, Sifted
  <1>9. DOMAIN pl = 1..Len(pl) /\ Len(pl) \in Nat
    BY <1>8
  <1> HIDE DEF pl
  <1>10. ASSUME NEW k \in 1..Len(pl)
         PROVE  pl[k] \in DOMAIN asks /\ pos[k] \in DOMAIN Order /\ pl[k] = Order[pos[k]]
    <2>1. pos[k] \in 1..Len(s)
      BY <1>7 DEF Sifting
    <2> QED
      BY <1>1, <1>5, <1>6, <1>7, <2>1 DEF Sifting
  <1>11. ASSUME NEW p \in DOMAIN asks PROVE \E k \in 1..Len(pl) : pl[k] = p
    <2>1. PICK n \in 1..Len(s) : Order[n] = p
      BY <1>1, <1>3, <1>5
    <2>2. Len(s[n]) = 1
      BY <1>6, <2>1
    <2> QED
      BY <1>7, <1>10, <2>1, <2>2 DEF Sifting
  <1>12. ASSUME NEW m \in 1..Len(pl), NEW n \in 1..Len(pl), m < n
         PROVE  \E i, j \in DOMAIN Order : i < j /\ Order[i] = pl[m] /\ Order[j] = pl[n]
    BY <1>7, <1>10, <1>12 DEF Sifting
  <1>13. ASSUME NEW m \in 1..Len(pl), NEW n \in 1..Len(pl), pl[m] = pl[n] PROVE m = n
    <2>1. ASSUME NEW a \in 1..Len(pl), NEW b \in 1..Len(pl), a < b PROVE pl[a] # pl[b]
      <3>1. pos[a] < pos[b] /\ pos[a] \in Nat /\ pos[b] \in Nat
        BY SMTT(30), <1>0, <1>7, <2>1 DEF Sifting
      <3> QED
        BY <1>2, <1>10, <3>1
    <2>2. m \in Nat /\ n \in Nat /\ ~(m < n) /\ ~(n < m)
      BY <1>13, <2>1
    <2> QED
      BY <2>2
  <1> QED
    BY <1>4, <1>8, <1>9, <1>10, <1>11, <1>12, <1>13

(* The answers a plan may have got so far, one of each provider at most.   *)
Came(asks, came) ==
    /\ DOMAIN asks \subseteq Keys
    /\ came \in Seq(Reply)
    /\ \A i \in DOMAIN came :
          /\ came[i].from \in DOMAIN asks
          /\ came[i].body \in Bodies(came[i].from, asks[came[i].from])
    /\ \A i, j \in DOMAIN came : came[i].from = came[j].from => i = j

(* Once all are in, each provider's result is its own answer.              *)
LEMMA ResultFacts ==
  ASSUME NEW asks, NEW came, Came(asks, came), AllIn(asks, came)
  PROVE  /\ DOMAIN Results(asks, came) = DOMAIN Planned(asks)
         /\ \A n \in DOMAIN Planned(asks) :
               /\ Results(asks, came)[n] \in Range(came)
               /\ Results(asks, came)[n].from = Planned(asks)[n]
         /\ \A n \in DOMAIN Planned(asks) : \A i \in DOMAIN came :
               came[i].from = Planned(asks)[n] => Results(asks, came)[n] = came[i]
  <1> DEFINE pl == Planned(asks)
  <1>1. Results(asks, came) =
           [n \in DOMAIN pl |-> CHOOSE b \in Range(came) : b.from = pl[n]]
    BY DEF Results
  <1>2. \A n \in DOMAIN pl : pl[n] \in DOMAIN asks
    BY PlannedFacts DEF Came
  <1> HIDE DEF pl
  <1>3. Range(came) = {came[i] : i \in DOMAIN came}
    BY DEF Range
  <1>4. ASSUME NEW n \in DOMAIN pl PROVE \E b \in Range(came) : b.from = pl[n]
    <2>1. PICK i \in DOMAIN came : came[i].from = pl[n]
      BY <1>2 DEF AllIn, Answered
    <2> QED
      BY <1>3, <2>1
  <1>5. \A n \in DOMAIN pl :
           /\ Results(asks, came)[n] \in Range(came)
           /\ Results(asks, came)[n].from = pl[n]
    BY <1>1, <1>4
  <1>6. ASSUME NEW n \in DOMAIN pl, NEW i \in DOMAIN came, came[i].from = pl[n]
        PROVE  Results(asks, came)[n] = came[i]
    <2>1. PICK j \in DOMAIN came : Results(asks, came)[n] = came[j]
      BY <1>3, <1>5
    <2> QED
      BY <1>5, <1>6, <2>1 DEF Came
  <1> QED
    BY <1>1, <1>5, <1>6 DEF pl

(* What merge puts together, as parts of the answer.                       *)
Parts(prefixes, asks, came) ==
    [n \in DOMAIN Planned(asks) |->
        Contribution(prefixes, Planned(asks)[n], Results(asks, came)[n])]

(* What the n-th provider of the plan sent, and how it is shown: under that  *)
(* provider's prefix, each account one of its own that it was asked for.   *)
Sent(asks, came, n) == Results(asks, came)[n].body.accounts

LEMMA PartFacts ==
  ASSUME NEW prefixes \in [Keys -> Text],
         NEW asks, NEW came, Came(asks, came), AllIn(asks, came),
         NEW n \in DOMAIN Planned(asks)
  PROVE  /\ Planned(asks)[n] \in DOMAIN asks
         /\ Parts(prefixes, asks, came)[n] \in Seq(Shown)
         /\ DOMAIN Parts(prefixes, asks, came)[n] = DOMAIN Sent(asks, came, n)
         /\ Len(Parts(prefixes, asks, came)[n]) = Len(Sent(asks, came, n))
         /\ \A j \in DOMAIN Parts(prefixes, asks, came)[n] :
               /\ Parts(prefixes, asks, came)[n][j].from = Planned(asks)[n]
               /\ Parts(prefixes, asks, came)[n][j].own = Sent(asks, came, n)[j]
               /\ Parts(prefixes, asks, came)[n][j].id
                     = Exposed(prefixes, Planned(asks)[n], Sent(asks, came, n)[j])
               /\ Sent(asks, came, n)[j] \in Held[Planned(asks)[n]]
               /\ \/ asks[Planned(asks)[n]] = {}
                  \/ Sent(asks, came, n)[j] \in asks[Planned(asks)[n]]
  <1> DEFINE p == Planned(asks)[n]
             res == Results(asks, came)[n]
             sent == res.body.accounts
             part == Parts(prefixes, asks, came)[n]
  <1>1. p \in DOMAIN asks /\ p \in Keys
    BY PlannedFacts DEF Came
  <1>2. res \in Range(came) /\ res.from = p
    BY ResultFacts
  <1>3. part = Contribution(prefixes, p, res)
    BY DEF Parts
  <1> HIDE DEF part, p, res
  <1>4. res.body \in Bodies(p, asks[p])
    BY <1>2 DEF Range, Came
  <1>5. /\ res.body \in Body
        /\ ~res.body.usable => sent = << >>
        /\ \A i \in DOMAIN sent : sent[i] \in Held[p] /\ (asks[p] = {} \/ sent[i] \in asks[p])
    BY <1>1, <1>4, BodyFacts
  <1>6. sent \in Seq(Text) /\ DOMAIN sent = 1..Len(sent) /\ Len(sent) \in Nat
    BY <1>5 DEF Body
  <1> HIDE DEF sent
  <1> DEFINE shown == [j \in DOMAIN sent |->
                          [id |-> Exposed(prefixes, p, sent[j]), from |-> p, own |-> sent[j]]]
  <1>7. part = shown
    <2>1. CASE res.body.usable
      BY <1>2, <1>3, <2>1 DEF Contribution, sent
    <2>2. CASE ~res.body.usable
      <3>1. part = << >> /\ sent = << >>
        BY <1>3, <1>5, <2>2 DEF Contribution, sent
      <3> QED
        BY <3>1
    <2> QED
      BY <2>1, <2>2
  <1>8. \A j \in DOMAIN sent : shown[j] \in Shown
    <2> TAKE j \in DOMAIN sent
    <2>1. sent[j] \in Text /\ prefixes[p] \in Text
      BY <1>1, <1>6
    <2>2. Exposed(prefixes, p, sent[j]) \in Text
      BY <2>1 DEF Exposed, Text
    <2> QED
      BY <1>1, <2>1, <2>2 DEF Shown
  <1>9. shown \in Seq(Shown) /\ Len(shown) = Len(sent)
    <2>1. shown \in [1..Len(sent) -> Shown]
      BY <1>6, <1>8
    <2> HIDE DEF shown
    <2> QED
      BY <1>6, <2>1
  <1> QED
    BY <1>1, <1>5, <1>6, <1>7, <1>9 DEF part, p, res, sent, Sent

(* Where the answer of each provider is among the merged accounts.         *)
LEMMA MergedLayout ==
  ASSUME NEW prefixes \in [Keys -> Text],
         NEW asks, NEW came, Came(asks, came), AllIn(asks, came)
  PROVE  LET s == Parts(prefixes, asks, came)
             whole == MergedAccounts(prefixes, asks, came)
         IN /\ DOMAIN s = 1..Len(s) /\ Len(s) \in Nat /\ DOMAIN s = DOMAIN Planned(asks)
            /\ whole \in Seq(Shown)
            /\ \E at : Layout(s, whole, at)
  <1> DEFINE s == Parts(prefixes, asks, came)
             pl == Planned(asks)
  <1>1. pl \in Seq(Keys)
    BY PlannedFacts DEF Came
  <1>2. \A n \in DOMAIN pl : s[n] \in Seq(Shown)
    BY PartFacts
  <1>3. s = [n \in DOMAIN pl |-> s[n]]
    BY DEF Parts
  <1>4. MergedAccounts(prefixes, asks, came) = FlattenSeq(s)
    BY DEF MergedAccounts, Parts
  <1> HIDE DEF s, pl
  <1>5. DOMAIN pl = 1..Len(pl) /\ Len(pl) \in Nat
    BY <1>1
  <1>6. s \in [1..Len(pl) -> Seq(Shown)]
    BY <1>2, <1>3, <1>5
  <1>7. s \in Seq(Seq(Shown)) /\ Len(s) = Len(pl) /\ DOMAIN s = 1..Len(pl)
    BY <1>5, <1>6
  <1>8. FlattenSeq(s) \in Seq(Shown) /\ \E at : Layout(s, FlattenSeq(s), at)
    BY <1>7, Laid
  <1> QED
    BY <1>4, <1>5, <1>7, <1>8 DEF s, pl

(* Each account shown is one of a provider's that was asked for it, under   *)
(* that provider's prefix, and the providers come in the order of the plan. *)
LEMMA MergedFacts ==
  ASSUME NEW prefixes \in [Keys -> Text],
         NEW asks, NEW came, Came(asks, came), AllIn(asks, came)
  PROVE  LET whole == MergedAccounts(prefixes, asks, came)
             pl == Planned(asks)
         IN /\ whole \in Seq(Shown)
            /\ \A k \in DOMAIN whole :
                  /\ whole[k].from \in DOMAIN asks
                  /\ whole[k].own \in Held[whole[k].from]
                  /\ whole[k].id = Exposed(prefixes, whole[k].from, whole[k].own)
                  /\ asks[whole[k].from] = {} \/ whole[k].own \in asks[whole[k].from]
            /\ \A k, l \in DOMAIN whole : k < l =>
                  \E m, n \in DOMAIN pl : m <= n /\ pl[m] = whole[k].from /\ pl[n] = whole[l].from
  <1> DEFINE s == Parts(prefixes, asks, came)
             whole == MergedAccounts(prefixes, asks, came)
             pl == Planned(asks)
             Is(k, at, n, j) == k = at[n - 1] + j /\ whole[k] = s[n][j]
  <1>1. /\ DOMAIN s = 1..Len(s) /\ Len(s) \in Nat /\ DOMAIN s = DOMAIN pl
        /\ whole \in Seq(Shown)
    BY MergedLayout
  <1>2. PICK at : Layout(s, whole, at)
    BY MergedLayout
  <1>3. \A n \in DOMAIN s :
           /\ Len(s[n]) \in Nat
           /\ \A j \in 1..Len(s[n]) :
                 /\ s[n][j].from = pl[n] /\ pl[n] \in DOMAIN asks
                 /\ s[n][j].own \in Held[pl[n]]
                 /\ s[n][j].id = Exposed(prefixes, pl[n], s[n][j].own)
                 /\ asks[pl[n]] = {} \/ s[n][j].own \in asks[pl[n]]
    <2> SUFFICES ASSUME NEW n \in DOMAIN pl, NEW j \in 1..Len(s[n])
                 PROVE  /\ s[n][j].from = pl[n] /\ pl[n] \in DOMAIN asks
                        /\ s[n][j].own \in Held[pl[n]]
                        /\ s[n][j].id = Exposed(prefixes, pl[n], s[n][j].own)
                        /\ asks[pl[n]] = {} \/ s[n][j].own \in asks[pl[n]]
      <3>1. \A n \in DOMAIN pl : s[n] \in Seq(Shown)
        BY PartFacts
      <3>2. \A n \in DOMAIN pl : Len(s[n]) \in Nat
        BY <3>1
      <3> QED
        BY <1>1, <3>2
    <2>1. s[n] \in Seq(Shown)
      BY PartFacts
    <2>2. j \in DOMAIN s[n]
      BY <2>1
    <2> QED
      BY <2>2, PartFacts
  <1>4. DOMAIN whole = 1..Len(whole)
    BY <1>1
  <1> HIDE DEF s, whole, pl
  <1>5. ASSUME NEW k \in DOMAIN whole
        PROVE  \E n \in DOMAIN s : \E j \in 1..Len(s[n]) : Is(k, at, n, j)
    <2>1. PICK n \in 1..Len(s) : \E j \in 1..Len(s[n]) : k = at[n - 1] + j
      BY ZenonT(30), <1>2, <1>4 DEF Layout, Upto
    <2>2. PICK j \in 1..Len(s[n]) : k = at[n - 1] + j
      BY <2>1
    <2>3. whole[k] = s[n][j]
      BY <1>2, <2>2 DEF Layout, Upto
    <2> QED
      BY <1>1, <2>2, <2>3
  <1>6. ASSUME NEW k \in DOMAIN whole
        PROVE  /\ whole[k].from \in DOMAIN asks
               /\ whole[k].own \in Held[whole[k].from]
               /\ whole[k].id = Exposed(prefixes, whole[k].from, whole[k].own)
               /\ asks[whole[k].from] = {} \/ whole[k].own \in asks[whole[k].from]
    BY <1>3, <1>5
  <1>7. ASSUME NEW k \in DOMAIN whole, NEW l \in DOMAIN whole, k < l
        PROVE  \E m, n \in DOMAIN pl :
                  m <= n /\ pl[m] = whole[k].from /\ pl[n] = whole[l].from
    <2>0. PICK m \in DOMAIN s, n \in DOMAIN s :
             /\ \E i \in 1..Len(s[m]) : Is(k, at, m, i)
             /\ \E j \in 1..Len(s[n]) : Is(l, at, n, j)
      BY <1>5
    <2>1. PICK i \in 1..Len(s[m]) : Is(k, at, m, i)
      BY <2>0
    <2>2. PICK j \in 1..Len(s[n]) : Is(l, at, n, j)
      BY <2>0
    <2>3. /\ at[m - 1] + i <= at[n - 1] + j
          /\ Len(s[m]) \in Nat /\ Len(s[n]) \in Nat
          /\ m \in 1..Len(s) /\ n \in 1..Len(s)
      BY <1>1, <1>3, <1>4, <1>7, <2>1, <2>2
    <2>4. m <= n
      BY <1>1, <1>2, <2>3, PartsInOrder
    <2> QED
      <3>1. m \in DOMAIN pl /\ n \in DOMAIN pl
        BY <1>1
      <3>2. whole[k].from = pl[m] /\ whole[l].from = pl[n]
        BY <1>3, <2>1, <2>2
      <3> QED
        BY <2>4, <3>1, <3>2
  <1> QED
    BY <1>1, <1>6, <1>7 DEF whole, pl

(* The accounts of each answer are together, all of them and as they came. *)
Whole(prefixes, accounts, reply) ==
    \E k \in 0..Len(accounts) :
       /\ {j \in DOMAIN accounts : accounts[j].from = reply.from}
             = (k + 1)..(k + Len(reply.body.accounts))
       /\ \A j \in DOMAIN reply.body.accounts :
             accounts[k + j].id = Exposed(prefixes, reply.from, reply.body.accounts[j])

LEMMA MergedWhole ==
  ASSUME NEW prefixes \in [Keys -> Text],
         NEW asks, NEW came, Came(asks, came), AllIn(asks, came), NEW i \in DOMAIN came
  PROVE  Whole(prefixes, MergedAccounts(prefixes, asks, came), came[i])
  <1> DEFINE s == Parts(prefixes, asks, came)
             whole == MergedAccounts(prefixes, asks, came)
             pl == Planned(asks)
             p == came[i].from
             sent == came[i].body.accounts
  <1>1. /\ DOMAIN s = 1..Len(s) /\ Len(s) \in Nat /\ DOMAIN s = DOMAIN pl
        /\ whole \in Seq(Shown)
    BY MergedLayout
  <1>2. PICK at : Layout(s, whole, at)
    BY MergedLayout
  <1>3. /\ \A m \in DOMAIN pl : s[m] \in Seq(Shown)
        /\ \A m \in DOMAIN pl : \A j \in DOMAIN s[m] : s[m][j].from = pl[m]
    BY PartFacts
  <1>4. \A m, n \in DOMAIN pl : pl[m] = pl[n] => m = n
    BY PlannedFacts DEF Came
  <1>5. PICK n \in DOMAIN pl : pl[n] = p
    BY PlannedFacts DEF Came
  <1>6. Results(asks, came)[n] = came[i]
    BY <1>5, ResultFacts
  <1>7. /\ Len(s[n]) = Len(sent) /\ DOMAIN s[n] = DOMAIN sent
        /\ \A j \in DOMAIN sent : s[n][j].id = Exposed(prefixes, p, sent[j])
    BY <1>5, <1>6, PartFacts DEF Sent
  <1>8. DOMAIN whole = 1..Len(whole) /\ Len(whole) \in Nat
    BY <1>1
  <1>9. \A m \in DOMAIN pl : Len(s[m]) \in Nat /\ DOMAIN s[m] = 1..Len(s[m])
    BY <1>3
  <1> HIDE DEF s, whole, pl, p, sent
  <1> DEFINE k == at[n - 1]
             L == Len(s[n])
  <1>10. /\ n \in 1..Len(s) /\ n - 1 \in 0..Len(s) /\ n \in 0..Len(s)
         /\ L \in Nat
    BY <1>1, <1>9
  <1>11. k \in Nat /\ at[n] = k + L /\ at[n] \in Nat /\ at[n] <= Len(whole)
    BY <1>2, <1>10 DEF Layout, Upto
  <1>12. \A j \in 1..L : whole[k + j] = s[n][j]
    BY <1>2, <1>10 DEF Layout, Upto
  <1>13. ASSUME NEW j \in (k + 1)..(k + L) PROVE j \in DOMAIN whole /\ whole[j].from = p
    <2>1. j - k \in 1..L /\ j = k + (j - k) /\ j \in 1..Len(whole)
      BY SMTT(30), <1>10, <1>11
    <2> DEFINE d == j - k
    <2>2. d \in 1..L /\ j = k + d
      BY <2>1
    <2> HIDE DEF d
    <2>3. whole[j] = s[n][d] /\ s[n][d].from = pl[n]
      BY <1>3, <1>9, <1>12, <2>2
    <2> QED
      BY <1>5, <1>8, <2>1, <2>3
  <1>14. ASSUME NEW j \in DOMAIN whole, whole[j].from = p PROVE j \in (k + 1)..(k + L)
    <2>1. PICK m \in 1..Len(s) : \E d \in 1..Len(s[m]) : j = at[m - 1] + d
      BY <1>2, <1>8 DEF Layout, Upto
    <2>2. PICK d \in 1..Len(s[m]) : j = at[m - 1] + d
      BY <2>1
    <2>3. whole[j] = s[m][d]
      BY <1>2, <2>2 DEF Layout, Upto
    <2>4. pl[m] = p
      BY <1>1, <1>3, <1>9, <1>14, <2>3
    <2>5. m = n
      BY <1>1, <1>4, <1>5, <2>4
    <2> QED
      BY SMTT(30), <1>10, <1>11, <2>2, <2>5
  <1>15. {j \in DOMAIN whole : whole[j].from = p} = (k + 1)..(k + Len(sent))
    BY <1>7, <1>13, <1>14
  <1>16. \A j \in DOMAIN sent : whole[k + j].id = Exposed(prefixes, p, sent[j])
    BY <1>1, <1>7, <1>9, <1>12
  <1>17. k \in 0..Len(whole)
    BY <1>8, <1>10, <1>11
  <1> QED
    BY <1>15, <1>16, <1>17 DEF Whole, whole, p, sent

(* The errors of each usable answer are relayed once, in the plan's order. *)
LEMMA ErrorFacts ==
  ASSUME NEW asks, NEW came, Came(asks, came), AllIn(asks, came)
  PROVE  LET whole == MergedErrors(asks, came)
             pl == Planned(asks)
         IN /\ whole \in Seq(Keys)
            /\ \A k, l \in DOMAIN whole : whole[k] = whole[l] => k = l
            /\ Range(whole) = {b.from : b \in {a \in Range(came) :
                                   a.body.usable /\ a.body.errors = "strings"}}
            /\ \A k, l \in DOMAIN whole : k < l =>
                  \E m, n \in DOMAIN pl : m <= n /\ pl[m] = whole[k] /\ pl[n] = whole[l]
  <1> DEFINE res == Results(asks, came)
             pl == Planned(asks)
             s == [n \in DOMAIN res |-> Reported(res[n])]
             whole == MergedErrors(asks, came)
             Tells(b) == b.body.usable /\ b.body.errors = "strings"
  <1>1. pl \in Seq(Keys) /\ \A m, n \in DOMAIN pl : pl[m] = pl[n] => m = n
    BY PlannedFacts DEF Came
  <1>2. DOMAIN pl = 1..Len(pl) /\ Len(pl) \in Nat
    BY <1>1
  <1>3. /\ DOMAIN res = DOMAIN pl
        /\ \A n \in DOMAIN pl : res[n] \in Range(came) /\ res[n].from = pl[n]
    BY ResultFacts
  <1>4. \A b \in Range(came) : b.from \in DOMAIN asks /\ b.from \in Keys
    BY DEF Came, Range
  <1>5. \A b \in Range(came) : \E n \in DOMAIN pl : res[n] = b
    <2> TAKE b \in Range(came)
    <2>1. PICK i \in DOMAIN came : b = came[i]
      BY DEF Range
    <2>2. PICK n \in DOMAIN pl : pl[n] = came[i].from
      BY <1>4, <2>1, PlannedFacts DEF Came
    <2> QED
      BY <2>1, <2>2, ResultFacts
  <1>6. whole = FlattenSeq(s)
    BY DEF MergedErrors
  <1> HIDE DEF res, pl, whole
  <1>7. \A n \in DOMAIN pl : s[n] = IF Tells(res[n]) THEN <<pl[n]>> ELSE << >>
    BY <1>3 DEF Reported
  <1>8. \A n \in DOMAIN pl : <<pl[n]>> \in Seq(Keys) /\ << >> \in Seq(Keys)
    BY <1>3, <1>4
  <1>9. s \in [1..Len(pl) -> Seq(Keys)]
    <2>1. \A n \in DOMAIN pl : s[n] \in Seq(Keys)
      BY <1>7, <1>8
    <2> QED
      BY <1>2, <1>3, <2>1
  <1> HIDE DEF s
  <1>10. s \in Seq(Seq(Keys)) /\ Len(s) = Len(pl)
    BY <1>2, <1>9
  <1> HIDE DEF Tells
  <1>11. \A n \in 1..Len(s) : /\ Len(s[n]) <= 1
                              /\ Len(s[n]) = 1 <=> Tells(res[n])
                              /\ Len(s[n]) = 1 => s[n][1] = pl[n]
    <2> TAKE n \in 1..Len(s)
    <2>1. n \in DOMAIN pl /\ s[n] = IF Tells(res[n]) THEN <<pl[n]>> ELSE << >>
      BY <1>2, <1>7, <1>10
    <2> DEFINE e == pl[n]
    <2> HIDE DEF e
    <2>2. s[n] = IF Tells(res[n]) THEN <<e>> ELSE << >>
      BY <2>1 DEF e
    <2>3. CASE Tells(res[n])
      <3>1. s[n] = <<e>>
        BY <2>2, <2>3
      <3>2. Len(s[n]) = 1 /\ s[n][1] = e
        BY <3>1
      <3> QED
        BY <2>3, <3>2 DEF e
    <2>4. CASE ~Tells(res[n])
      <3>1. Len(s[n]) = 0
        BY <2>2, <2>4
      <3> QED
        BY <2>4, <3>1
    <2> QED
      BY <2>3, <2>4
  <1>12. PICK pos : Sifting(s, FlattenSeq(s), pos)
    BY <1>10, <1>11, Sifted
  <1>13. Sifting(s, whole, pos) /\ whole \in Seq(Keys)
    BY <1>6, <1>10, <1>11, <1>12, Sifted
  <1>14. DOMAIN whole = 1..Len(whole) /\ Len(whole) \in Nat
    BY <1>13
  <1>15. ASSUME NEW k \in DOMAIN whole
         PROVE  pos[k] \in DOMAIN pl /\ whole[k] = pl[pos[k]] /\ Tells(res[pos[k]])
    <2>1. pos[k] \in 1..Len(s) /\ Len(s[pos[k]]) = 1 /\ whole[k] = s[pos[k]][1]
      BY <1>13, <1>14 DEF Sifting
    <2> QED
      BY <1>2, <1>10, <1>11, <2>1
  <1>16. ASSUME NEW k \in DOMAIN whole, NEW l \in DOMAIN whole, k < l
         PROVE  pos[k] < pos[l] /\ pos[k] \in Nat /\ pos[l] \in Nat
    BY <1>2, <1>13, <1>14, <1>15, <1>16 DEF Sifting
  <1>17. ASSUME NEW k \in DOMAIN whole, NEW l \in DOMAIN whole, k < l
         PROVE  /\ whole[k] # whole[l]
                /\ \E m, n \in DOMAIN pl : m <= n /\ pl[m] = whole[k] /\ pl[n] = whole[l]
    <2> DEFINE a == pos[k]
               b == pos[l]
    <2>1. a \in DOMAIN pl /\ b \in DOMAIN pl /\ whole[k] = pl[a] /\ whole[l] = pl[b]
      BY <1>15
    <2>2. a <= b /\ a # b
      BY <1>16, <1>17
    <2> HIDE DEF a, b
    <2> QED
      BY <1>1, <2>1, <2>2
  <1>18. ASSUME NEW k \in DOMAIN whole, NEW l \in DOMAIN whole, whole[k] = whole[l]
         PROVE  k = l
    <2>1. ~(k < l) /\ ~(l < k)
      BY <1>17, <1>18
    <2>2. k \in Nat /\ l \in Nat
      BY <1>14
    <2> QED
      BY <2>1, <2>2
  <1>19. ASSUME NEW b \in Range(came), Tells(b) PROVE b.from \in Range(whole)
    <2>1. PICK n \in DOMAIN pl : res[n] = b
      BY <1>5
    <2>2. n \in 1..Len(s) /\ Len(s[n]) = 1
      BY <1>2, <1>10, <1>11, <1>19, <2>1
    <2>3. PICK k \in 1..Len(whole) : pos[k] = n
      BY <1>13, <2>2 DEF Sifting
    <2>4. whole[k] = pl[n] /\ pl[n] = b.from
      BY <1>3, <1>14, <1>15, <2>1, <2>3
    <2> QED
      BY <1>14, <2>3, <2>4 DEF Range
  <1>20. ASSUME NEW x \in Range(whole)
         PROVE  \E b \in Range(came) : Tells(b) /\ x = b.from
    <2>1. PICK k \in DOMAIN whole : x = whole[k]
      BY DEF Range
    <2> QED
      BY <1>3, <1>15, <2>1
  <1>21. Range(whole) = {b.from : b \in {a \in Range(came) : Tells(a)}}
    BY <1>19, <1>20
  <1> QED
    BY <1>13, <1>17, <1>18, <1>21 DEF pl, whole, Tells

(* Whatever comes in the plan's order comes in the config's.               *)
LEMMA PlanOrder ==
  ASSUME NEW asks, DOMAIN asks \subseteq Keys,
         NEW m \in DOMAIN Planned(asks), NEW n \in DOMAIN Planned(asks), m <= n
  PROVE  \E i, j \in DOMAIN Order :
            i <= j /\ Order[i] = Planned(asks)[m] /\ Order[j] = Planned(asks)[n]
  <1>1. Planned(asks) \in Seq(Keys) /\ Order \in Seq(Keys) /\ Range(Order) = Keys
    BY PlannedFacts, OrderAssumption
  <1>2. DOMAIN Order \subseteq Nat /\ DOMAIN Planned(asks) \subseteq Nat
        /\ Planned(asks)[m] \in Keys
    BY <1>1
  <1>3. CASE m = n
    <2>1. PICK i \in DOMAIN Order : Order[i] = Planned(asks)[m]
      BY <1>1, <1>2 DEF Range
    <2>2. i <= i
      BY <1>2
    <2> QED
      BY <1>3, <2>1, <2>2
  <1>4. CASE m # n
    <2>1. m < n
      BY <1>2, <1>4
    <2>2. PICK i \in DOMAIN Order, j \in DOMAIN Order :
             i < j /\ Order[i] = Planned(asks)[m] /\ Order[j] = Planned(asks)[n]
      BY <2>1, PlannedFacts
    <2>3. i <= j
      BY <1>2, <2>2
    <2> QED
      BY <2>2, <2>3
  <1> QED
    BY <1>3, <1>4

(* An id is logged only if two providers showed it, or one did twice.      *)
LEMMA CollisionFacts ==
  ASSUME NEW accounts, NEW c \in Collisions(accounts), NEW p \in c.from
  PROVE  \E k \in DOMAIN accounts : accounts[k].id = c.id /\ accounts[k].from = p
  <1>1. PICK i \in DOMAIN accounts :
           c = [id |-> accounts[i].id,
                from |-> {a.from : a \in {b \in Range(accounts) : b.id = accounts[i].id}}]
    BY DEF Collisions
  <1>2. PICK b \in Range(accounts) : b.id = accounts[i].id /\ p = b.from
    BY <1>1
  <1> QED
    BY <1>1, <1>2 DEF Range

-----------------------------------------------------------------------------
(* What a request is planned, answered and shown, at each phase.            *)
Inv ==
    /\ prefix \in [Keys -> PrefixPool] /\ blanks \in BOOLEAN
    /\ PrefixesOK(prefix, blanks)
    /\ phase \in [Requests -> {"idle", "fetching", "ok", "error"}]
    /\ asked \in [Requests -> SUBSET (ExposedIds \union Strange)]
    /\ DOMAIN plan = Requests /\ DOMAIN replies = Requests
    /\ DOMAIN answer = Requests /\ DOMAIN errors = Requests /\ DOMAIN logged = Requests
    /\ \A r \in Requests :
          /\ plan[r] = IF phase[r] = "idle" THEN << >> ELSE Routed(prefix, asked[r])
          /\ phase[r] = "idle" => replies[r] = << >>
          /\ Came(plan[r], replies[r])
          /\ phase[r] \in {"ok", "error"} => AllIn(plan[r], replies[r])
          /\ answer[r] = IF phase[r] = "ok" THEN MergedAccounts(prefix, plan[r], replies[r])
                         ELSE << >>
          /\ errors[r] = IF phase[r] = "ok" THEN MergedErrors(plan[r], replies[r]) ELSE << >>
          /\ logged[r] = IF phase[r] \in {"ok", "error"}
                         THEN Collisions(MergedAccounts(prefix, plan[r], replies[r])) ELSE {}

(* A plan has nobody in it who is not configured.                            *)
LEMMA RoutedToKeys ==
  ASSUME NEW prefixes \in [Keys -> PrefixPool], NEW ids
  PROVE  DOMAIN Routed(prefixes, ids) \subseteq Keys
  <1>1. CASE ids = {}
    BY <1>1 DEF Routed
  <1>2. CASE ids # {}
    <2>1. Routed(prefixes, ids) = [p \in {q \in Keys : Owned(prefixes, q, ids) # {}} |->
                                     {Local(prefixes, p, x) : x \in Owned(prefixes, p, ids)}]
      BY <1>2, Zenon DEF Routed
    <2> QED
      BY <2>1
  <1> QED
    BY <1>1, <1>2

(* A request starts with no answer,                                          *)
LEMMA NoneCame ==
  ASSUME NEW asks, DOMAIN asks \subseteq Keys
  PROVE  Came(asks, << >>)
  BY DEF Came

(* and gets an answer of one provider at a time, each asked and none twice.  *)
LEMMA OneMoreCame ==
  ASSUME NEW asks, NEW came, Came(asks, came),
         NEW p \in DOMAIN asks \ Answered(came), NEW b \in Bodies(p, asks[p])
  PROVE  Came(asks, Append(came, [from |-> p, body |-> b]))
  <1> DEFINE new == [from |-> p, body |-> b]
             more == Append(came, new)
  <1>1. b \in Body
    BY BodyFacts DEF Came
  <1>2. new \in Reply /\ new.from = p /\ new.body = b
    BY <1>1 DEF Came, Reply
  <1> HIDE DEF new
  <1>3. came \in Seq(Reply) /\ DOMAIN came = 1..Len(came) /\ Len(came) \in Nat
    BY DEF Came
  <1>4. /\ more \in Seq(Reply) /\ DOMAIN more = 1..(Len(came) + 1)
        /\ \A i \in DOMAIN came : more[i] = came[i]
        /\ more[Len(came) + 1] = new
    BY <1>2, <1>3
  <1> HIDE DEF more
  <1>5. \A i \in DOMAIN more : i \in DOMAIN came \/ i = Len(came) + 1
    BY <1>3, <1>4
  <1>6. \A i \in DOMAIN came : came[i].from # p
    BY DEF Answered
  <1>7. \A i \in DOMAIN more : more[i].from \in DOMAIN asks
                               /\ more[i].body \in Bodies(more[i].from, asks[more[i].from])
    BY <1>2, <1>4, <1>5 DEF Came
  <1>8. \A i, j \in DOMAIN more : more[i].from = more[j].from => i = j
    BY <1>2, <1>4, <1>5, <1>6 DEF Came
  <1> QED
    BY <1>4, <1>7, <1>8 DEF Came, more, new

LEMMA InvInit == Init => Inv
  <1> SUFFICES ASSUME Init PROVE Inv
    OBVIOUS
  <1>1. Came(<< >>, << >>)
    BY NoneCame
  <1> QED
    BY <1>1 DEF Init, Inv

LEMMA InvStep == Inv /\ [Next]_vars => Inv'
  <1> SUFFICES ASSUME Inv, [Next]_vars PROVE Inv'
    OBVIOUS
  <1> USE DEF Inv, config
  <1>1. ASSUME NEW r \in Requests, Arrive(r) PROVE Inv'
    <2>1. PICK ids \in SUBSET (ExposedIds \union Strange) :
             /\ asked' = [asked EXCEPT ![r] = ids]
             /\ plan' = [plan EXCEPT ![r] = Routed(prefix, ids)]
      BY <1>1 DEF Arrive
    <2>2. /\ phase[r] = "idle" /\ phase' = [phase EXCEPT ![r] = "fetching"]
          /\ prefix' = prefix /\ blanks' = blanks /\ ExposedIds' = ExposedIds
          /\ replies' = replies /\ answer' = answer /\ errors' = errors /\ logged' = logged
      BY <1>1 DEF Arrive, ExposedIds, merged
    <2>3. Came(Routed(prefix, ids), << >>)
      BY RoutedToKeys, NoneCame
    <2>4. /\ prefix' \in [Keys -> PrefixPool] /\ blanks' \in BOOLEAN
          /\ PrefixesOK(prefix', blanks')
          /\ phase' \in [Requests -> {"idle", "fetching", "ok", "error"}]
          /\ asked' \in [Requests -> SUBSET (ExposedIds' \union Strange)]
          /\ DOMAIN plan' = Requests /\ DOMAIN replies' = Requests
          /\ DOMAIN answer' = Requests /\ DOMAIN errors' = Requests /\ DOMAIN logged' = Requests
      BY <2>1, <2>2
    <2>5. ASSUME NEW q \in Requests, q # r
          PROVE  /\ phase'[q] = phase[q] /\ asked'[q] = asked[q] /\ plan'[q] = plan[q]
                 /\ replies'[q] = replies[q] /\ answer'[q] = answer[q]
                 /\ errors'[q] = errors[q] /\ logged'[q] = logged[q]
      BY <2>1, <2>2, <2>5
    <2>6. /\ phase'[r] = "fetching" /\ plan'[r] = Routed(prefix, asked'[r])
          /\ replies'[r] = << >> /\ answer'[r] = << >> /\ errors'[r] = << >>
          /\ logged'[r] = {} /\ Came(plan'[r], replies'[r])
      BY <2>1, <2>2, <2>3
    <2> QED
      BY <2>2, <2>4, <2>5, <2>6
  <1>2. ASSUME NEW r \in Requests, NEW p \in Keys, Fetch(r, p) PROVE Inv'
    <2>1. PICK b \in Bodies(p, plan[r][p]) :
             replies' = [replies EXCEPT ![r] = Append(@, [from |-> p, body |-> b])]
      BY <1>2 DEF Fetch
    <2>2. /\ phase[r] = "fetching" /\ p \in DOMAIN plan[r] \ Answered(replies[r])
          /\ prefix' = prefix /\ blanks' = blanks /\ ExposedIds' = ExposedIds
          /\ phase' = phase /\ asked' = asked /\ plan' = plan
          /\ answer' = answer /\ errors' = errors /\ logged' = logged
      BY <1>2 DEF Fetch, ExposedIds, merged
    <2>3. Came(plan[r], Append(replies[r], [from |-> p, body |-> b]))
      BY <2>2, OneMoreCame
    <2>4. /\ DOMAIN replies' = Requests
          /\ \A q \in Requests : q # r => replies'[q] = replies[q]
          /\ Came(plan'[r], replies'[r])
      BY <2>1, <2>2, <2>3
    <2> QED
      BY <2>2, <2>4
  <1>3. ASSUME NEW r \in Requests, Respond(r) PROVE Inv'
    <2>1. /\ phase[r] = "fetching" /\ AllIn(plan[r], replies[r])
          /\ prefix' = prefix /\ blanks' = blanks /\ ExposedIds' = ExposedIds
          /\ asked' = asked /\ plan' = plan /\ replies' = replies
          /\ logged' = [logged EXCEPT ![r] =
                           Collisions(MergedAccounts(prefix, plan[r], replies[r]))]
          /\ \/ /\ phase' = [phase EXCEPT ![r] = "ok"]
                /\ answer' = [answer EXCEPT ![r] = MergedAccounts(prefix, plan[r], replies[r])]
                /\ errors' = [errors EXCEPT ![r] = MergedErrors(plan[r], replies[r])]
             \/ /\ phase' = [phase EXCEPT ![r] = "error"]
                /\ answer' = answer /\ errors' = errors
      BY <1>3 DEF Respond, ExposedIds
    <2>2. /\ phase' \in [Requests -> {"idle", "fetching", "ok", "error"}]
          /\ DOMAIN answer' = Requests /\ DOMAIN errors' = Requests /\ DOMAIN logged' = Requests
          /\ \A q \in Requests : q # r =>
                /\ phase'[q] = phase[q] /\ answer'[q] = answer[q]
                /\ errors'[q] = errors[q] /\ logged'[q] = logged[q]
      BY <2>1
    <2>3. /\ logged'[r] = Collisions(MergedAccounts(prefix, plan[r], replies[r]))
          /\ \/ /\ phase'[r] = "ok"
                /\ answer'[r] = MergedAccounts(prefix, plan[r], replies[r])
                /\ errors'[r] = MergedErrors(plan[r], replies[r])
             \/ phase'[r] = "error" /\ answer'[r] = << >> /\ errors'[r] = << >>
      BY <2>1
    <2>4. /\ plan'[r] = Routed(prefix, asked[r]) /\ Came(plan'[r], replies'[r])
          /\ AllIn(plan'[r], replies'[r]) /\ phase'[r] # "idle"
      BY <2>1, <2>3
    <2>5. ASSUME NEW q \in Requests, q # r
          PROVE  /\ phase'[q] = phase[q] /\ answer'[q] = answer[q]
                 /\ errors'[q] = errors[q] /\ logged'[q] = logged[q]
                 /\ plan'[q] = plan[q] /\ replies'[q] = replies[q] /\ asked'[q] = asked[q]
      BY <2>1, <2>2, <2>5
    <2>6. /\ answer'[r] = IF phase'[r] = "ok" THEN MergedAccounts(prefix, plan[r], replies[r])
                           ELSE << >>
          /\ errors'[r] = IF phase'[r] = "ok" THEN MergedErrors(plan[r], replies[r]) ELSE << >>
          /\ logged'[r] = IF phase'[r] \in {"ok", "error"}
                           THEN Collisions(MergedAccounts(prefix, plan[r], replies[r])) ELSE {}
      BY <2>3
    <2>7. prefix' = prefix /\ blanks' = blanks /\ ExposedIds' = ExposedIds
          /\ asked' = asked /\ plan' = plan /\ replies' = replies
      BY <2>1
    <2> QED
      BY <2>2, <2>4, <2>5, <2>6, <2>7
  <1>4. ASSUME UNCHANGED vars PROVE Inv'
    BY <1>4 DEF vars, ExposedIds, merged
  <1> QED
    BY <1>1, <1>2, <1>3, <1>4 DEF Next

(* What a provider is asked about is an id the request names that belongs  *)
(* to it; a request that names ids never asks a provider for all it has.   *)
LEMMA PlanIsOwned ==
  ASSUME Inv, NEW r \in Requests, NEW p \in DOMAIN plan[r]
  PROVE  /\ p \in Keys
         /\ \A id \in plan[r][p] :
               \E x \in asked[r] : p \in Owners(prefix, x) /\ id = Local(prefix, p, x)
         /\ plan[r][p] = {} => asked[r] = {}
  <1>1. plan[r] = Routed(prefix, asked[r]) /\ DOMAIN prefix = Keys
    BY DEF Inv
  <1>2. p \in Keys
    BY <1>1, RoutedToKeys DEF Inv
  <1>3. CASE asked[r] = {}
    <2>1. plan[r][p] = {}
      BY <1>1, <1>2, <1>3 DEF Routed
    <2> QED
      BY <1>2, <1>3, <2>1
  <1>4. CASE asked[r] # {}
    <2>1. plan[r] = [q \in {k \in Keys : Owned(prefix, k, asked[r]) # {}} |->
                        {Local(prefix, q, x) : x \in Owned(prefix, q, asked[r])}]
      BY <1>1, <1>4, Zenon DEF Routed
    <2>2. /\ Owned(prefix, p, asked[r]) # {}
          /\ plan[r][p] = {Local(prefix, p, x) : x \in Owned(prefix, p, asked[r])}
      BY <2>1
    <2> QED
      BY <1>2, <2>2 DEF Owned
  <1> QED
    BY <1>3, <1>4

(* The id a provider is asked about, under its prefix, is the one named.    *)
LEMMA AskedAsNamed ==
  ASSUME Inv, NEW r \in Requests, NEW p \in DOMAIN plan[r], NEW id \in plan[r][p]
  PROVE  /\ Exposed(prefix, p, id) \in asked[r] /\ Exposed(prefix, p, id) \in Text
         /\ p \in Owners(prefix, Exposed(prefix, p, id))
  <1>1. PICK x \in asked[r] : p \in Owners(prefix, x) /\ id = Local(prefix, p, x)
    BY PlanIsOwned
  <1>2. p \in Keys /\ prefix \in [Keys -> Seq(STRING)]
    BY PlanIsOwned, TextAssumption DEF Inv
  <1>3. x \in Seq(STRING)
    <2>1. \A q \in Keys : \A own \in Held[q] : Exposed(prefix, q, own) \in Seq(STRING)
      BY <1>2, TextAssumption DEF Exposed
    <2> QED
      BY <2>1, TextAssumption DEF Inv, ExposedIds
  <1>4. Exposed(prefix, p, id) = x
    <2>1. IsPrefix(prefix[p], x)
      BY <1>1 DEF Owners, Carried
    <2> QED
      BY <1>1, <1>2, <1>3, <2>1, Rejoin DEF Exposed, Local
  <1> QED
    BY <1>1, <1>3, <1>4 DEF Text

(* Each account in an answer was held by the provider it is shown to come   *)
(* from, which was asked for it.                                           *)
LEMMA AnswerFacts ==
  ASSUME Inv, NEW r \in Requests
  PROVE  /\ answer[r] \in Seq(Shown)
         /\ answer[r] # << >> => phase[r] = "ok"
         /\ \A k \in DOMAIN answer[r] :
               /\ answer[r][k].from \in DOMAIN plan[r]
               /\ answer[r][k].own \in Held[answer[r][k].from]
               /\ answer[r][k].id = Exposed(prefix, answer[r][k].from, answer[r][k].own)
               /\ \/ plan[r][answer[r][k].from] = {}
                  \/ answer[r][k].own \in plan[r][answer[r][k].from]
  <1>1. prefix \in [Keys -> Text]
    BY TextAssumption DEF Inv, Text
  <1>2. CASE phase[r] = "ok"
    <2>1. /\ answer[r] = MergedAccounts(prefix, plan[r], replies[r])
          /\ Came(plan[r], replies[r]) /\ AllIn(plan[r], replies[r])
      BY <1>2 DEF Inv
    <2> QED
      BY <1>1, <1>2, <2>1, MergedFacts
  <1>3. CASE phase[r] # "ok"
    <2>1. answer[r] = << >>
      BY <1>3 DEF Inv
    <2>2. << >> \in Seq(Shown)
      OBVIOUS
    <2> QED
      BY <2>1, <2>2
  <1> QED
    BY <1>2, <1>3

-----------------------------------------------------------------------------
(* The variables keep their types; what is asked for is not rewritten, and  *)
(* answers come from providers that were asked.                            *)
THEOREM TypeCorrect == Spec => []TypeOK
  <1>1. Inv => TypeOK
    <2> SUFFICES ASSUME Inv, NEW r \in Requests
                 PROVE  /\ asked[r] \subseteq ExposedIds \union Strange
                        /\ DOMAIN plan[r] \subseteq Keys
                        /\ \A i \in DOMAIN replies[r] : replies[r][i].from \in DOMAIN plan[r]
                        /\ \A i \in DOMAIN answer[r] : answer[r][i].from \in Keys
      BY DEF Inv, TypeOK
    <2> QED
      BY AnswerFacts DEF Inv, Came
  <1> QED
    BY <1>1, InvInit, InvStep, PTL DEF Spec

(* No provider hears an id that a provider with a named prefix issued,     *)
(* unless it is that provider.                                             *)
THEOREM NoLeak == Spec => []NoNamedIdLeaks
  <1>1. Inv => NoNamedIdLeaks
    <2> SUFFICES ASSUME Inv, NEW r \in Requests, NEW p \in DOMAIN plan[r],
                        NEW id \in plan[r][p]
                 PROVE  /\ Exposed(prefix, p, id) \in asked[r]
                        /\ \A q \in Named(prefix) :
                              Exposed(prefix, p, id)
                                    \in {Exposed(prefix, q, own) : own \in Held[q]} => p = q
      BY DEF NoNamedIdLeaks
    <2> DEFINE x == Exposed(prefix, p, id)
    <2>1. x \in asked[r] /\ x \in Seq(STRING) /\ p \in Owners(prefix, x)
      BY AskedAsNamed DEF Text
    <2>2. prefix \in [Keys -> Seq(STRING)] /\ PrefixesOK(prefix, blanks)
      BY TextAssumption DEF Inv
    <2> HIDE DEF x
    <2>3. ASSUME NEW q \in Named(prefix), NEW own \in Held[q],
                 x = Exposed(prefix, q, own)
          PROVE  p = q
      <3>1. own \in Seq(STRING)
        BY <2>2, TextAssumption DEF Named
      <3>2. Owners(prefix, x) = {q}
        BY <2>2, <2>3, <3>1, RoundTrip
      <3> QED
        BY <2>1, <3>2
    <2> QED
      BY <2>1, <2>3 DEF x
  <1> QED
    BY <1>1, InvInit, InvStep, PTL DEF Spec

(* What the client app was shown it can ask for: the id of every account in *)
(* every answer belongs to the provider that the account came from, but for *)
(* an id of a blank provider that starts like a named one's.               *)
THEOREM RoutesBack == Spec => []ShownIdsRouteBack
  <1>1. Inv => ShownIdsRouteBack
    <2> SUFFICES ASSUME Inv, NEW r \in Requests, NEW i \in DOMAIN answer[r]
                 PROVE  LET shown == answer[r][i]
                        IN \/ /\ shown.from \in Owners(prefix, shown.id)
                              /\ Local(prefix, shown.from, shown.id) = shown.own
                           \/ /\ shown.from \in Blank(prefix)
                              /\ \E q \in Named(prefix) : IsPrefix(prefix[q], shown.id)
      BY DEF ShownIdsRouteBack
    <2> DEFINE p == answer[r][i].from
               own == answer[r][i].own
    <2>1. p \in Keys /\ own \in Held[p] /\ answer[r][i].id = Exposed(prefix, p, own)
      BY AnswerFacts, PlanIsOwned
    <2>2. own \in Seq(STRING) /\ prefix \in [Keys -> Seq(STRING)] /\ PrefixesOK(prefix, blanks)
      BY <2>1, TextAssumption DEF Inv
    <2> HIDE DEF p, own
    <2>3. LET x == Exposed(prefix, p, own)
          IN \/ p \in Owners(prefix, x) /\ Local(prefix, p, x) = own
             \/ /\ p \in Blank(prefix)
                /\ \E q \in Named(prefix) : IsPrefix(prefix[q], x)
      BY <2>1, <2>2, ShownRoutesBack
    <2> QED
      BY <2>1, <2>3 DEF p, own
  <1> QED
    BY <1>1, InvInit, InvStep, PTL DEF Spec

(* Whichever providers fail and in whatever order they answer, the accounts *)
(* of each usable answer are all shown, together, as they came and under    *)
(* their provider's prefix, and its errors are relayed once.               *)
THEOREM Contained == Spec => []FailureIsContained
  <1>1. Inv => FailureIsContained
    <2> SUFFICES ASSUME Inv, NEW r \in Requests, phase[r] = "ok"
                 PROVE  /\ \A i \in DOMAIN replies[r] :
                              LET p == replies[r][i].from
                                  sent == replies[r][i].body.accounts
                              IN \E k \in 0..Len(answer[r]) :
                                    /\ {j \in DOMAIN answer[r] : answer[r][j].from = p}
                                          = (k + 1)..(k + Len(sent))
                                    /\ \A j \in DOMAIN sent :
                                          answer[r][k + j].id = Exposed(prefix, p, sent[j])
                        /\ IsInjective(errors[r])
                        /\ Range(errors[r]) =
                              {b.from : b \in {a \in Range(replies[r]) :
                                          a.body.usable /\ a.body.errors = "strings"}}
      BY DEF FailureIsContained
    <2>1. /\ answer[r] = MergedAccounts(prefix, plan[r], replies[r])
          /\ errors[r] = MergedErrors(plan[r], replies[r])
          /\ Came(plan[r], replies[r]) /\ AllIn(plan[r], replies[r])
          /\ prefix \in [Keys -> Text]
      BY TextAssumption DEF Inv, Text
    <2>2. \A k, l \in DOMAIN errors[r] : errors[r][k] = errors[r][l] => k = l
      BY <2>1, ErrorFacts
    <2>3. Range(errors[r]) = {b.from : b \in {a \in Range(replies[r]) :
                                          a.body.usable /\ a.body.errors = "strings"}}
      BY <2>1, ErrorFacts
    <2> QED
      <3>1. ASSUME NEW i \in DOMAIN replies[r]
            PROVE  Whole(prefix, answer[r], replies[r][i])
        BY <2>1, MergedWhole
      <3>2. IsInjective(errors[r])
        BY <2>2 DEF IsInjective
      <3> QED
        BY <2>3, <3>1, <3>2 DEF Whole
  <1> QED
    BY <1>1, InvInit, InvStep, PTL DEF Spec

(* An id that several providers showed was shown by at most one with a      *)
(* named prefix: the check of the prefixes leaves no other collision.      *)
THEOREM Collide == Spec => []OnlyBlanksCollide
  <1>1. Inv => OnlyBlanksCollide
    <2> SUFFICES ASSUME Inv, NEW r \in Requests, NEW c \in logged[r],
                        NEW p \in c.from, NEW q \in c.from, p # q
                 PROVE  p \in Blank(prefix) \/ q \in Blank(prefix)
      BY DEF OnlyBlanksCollide
    <2> DEFINE accounts == MergedAccounts(prefix, plan[r], replies[r])
    <2>1. /\ c \in Collisions(accounts)
          /\ Came(plan[r], replies[r]) /\ AllIn(plan[r], replies[r])
          /\ PrefixesOK(prefix, blanks)
      BY DEF Inv
    <2>2. prefix \in [Keys -> Text]
      BY TextAssumption DEF Inv, Text
    <2>3. \A k \in DOMAIN accounts :
             /\ accounts[k].from \in Keys
             /\ accounts[k].own \in Text
             /\ accounts[k].id = Exposed(prefix, accounts[k].from, accounts[k].own)
      <3>1. \A k \in DOMAIN accounts :
               /\ accounts[k].from \in DOMAIN plan[r]
               /\ accounts[k].own \in Held[accounts[k].from]
               /\ accounts[k].id = Exposed(prefix, accounts[k].from, accounts[k].own)
        BY <2>1, <2>2, MergedFacts
      <3>2. DOMAIN plan[r] \subseteq Keys
        BY <2>1 DEF Came
      <3>3. \A x \in Keys : Held[x] \subseteq Text
        BY TextAssumption DEF Text
      <3> HIDE DEF accounts
      <3> QED
        BY <3>1, <3>2, <3>3
    <2> HIDE DEF accounts
    <2>4. PICK k \in DOMAIN accounts : accounts[k].id = c.id /\ accounts[k].from = p
      BY <2>1, CollisionFacts
    <2>5. PICK l \in DOMAIN accounts : accounts[l].id = c.id /\ accounts[l].from = q
      BY <2>1, CollisionFacts
    <2>6. /\ p \in Keys /\ q \in Keys
          /\ accounts[k].own \in Seq(STRING) /\ accounts[l].own \in Seq(STRING)
          /\ Exposed(prefix, p, accounts[k].own) = Exposed(prefix, q, accounts[l].own)
          /\ prefix \in [Keys -> Seq(STRING)]
      BY <2>2, <2>3, <2>4, <2>5 DEF Text
    <2> QED
      BY <2>1, <2>6, NamedApart
  <1> QED
    BY <1>1, InvInit, InvStep, PTL DEF Spec

(* The order of an answer is that of the config, for the accounts and the   *)
(* errors, whatever order the providers answered in.                       *)
THEOREM Ordered == Spec => []ConfiguredOrder
  <1>1. Inv => ConfiguredOrder
    <2> SUFFICES ASSUME Inv, NEW r \in Requests
                 PROVE  /\ InOrder([i \in DOMAIN answer[r] |-> answer[r][i].from])
                        /\ InOrder(errors[r])
      BY DEF ConfiguredOrder
    <2>1. CASE phase[r] # "ok"
      <3>1. answer[r] = << >> /\ errors[r] = << >>
        BY <2>1 DEF Inv
      <3> QED
        BY <3>1 DEF InOrder
    <2>2. CASE phase[r] = "ok"
      <3>1. /\ answer[r] = MergedAccounts(prefix, plan[r], replies[r])
            /\ errors[r] = MergedErrors(plan[r], replies[r])
            /\ Came(plan[r], replies[r]) /\ AllIn(plan[r], replies[r])
            /\ prefix \in [Keys -> Text] /\ DOMAIN plan[r] \subseteq Keys
        BY <2>2, TextAssumption DEF Inv, Text, Came
      <3> DEFINE pl == Planned(plan[r])
                 froms == [i \in DOMAIN answer[r] |-> answer[r][i].from]
      <3>2. \A k, l \in DOMAIN froms : k < l =>
               \E m, n \in DOMAIN pl : m <= n /\ pl[m] = froms[k] /\ pl[n] = froms[l]
        BY <3>1, MergedFacts
      <3>3. \A k, l \in DOMAIN errors[r] : k < l =>
               \E m, n \in DOMAIN pl : m <= n /\ pl[m] = errors[r][k] /\ pl[n] = errors[r][l]
        BY <3>1, ErrorFacts
      <3>4. \A m, n \in DOMAIN pl : m <= n =>
               \E i, j \in DOMAIN Order : i <= j /\ Order[i] = pl[m] /\ Order[j] = pl[n]
        BY <3>1, PlanOrder
      <3> HIDE DEF pl, froms
      <3>5. InOrder(froms)
        BY <3>2, <3>4 DEF InOrder
      <3>6. InOrder(errors[r])
        BY <3>3, <3>4 DEF InOrder
      <3> QED
        BY <3>5, <3>6 DEF froms
    <2> QED
      BY <2>1, <2>2
  <1> QED
    BY <1>1, InvInit, InvStep, PTL DEF Spec

(* A request that names ids is shown accounts with those ids only.         *)
THEOREM OnlyAsked == Spec => []OnlyAskedIsShown
  <1>1. Inv => OnlyAskedIsShown
    <2> SUFFICES ASSUME Inv, NEW r \in Requests, NEW i \in DOMAIN answer[r], asked[r] # {}
                 PROVE  answer[r][i].id \in asked[r]
      BY DEF OnlyAskedIsShown
    <2> DEFINE p == answer[r][i].from
    <2>1. /\ p \in DOMAIN plan[r]
          /\ answer[r][i].id = Exposed(prefix, p, answer[r][i].own)
          /\ plan[r][p] = {} \/ answer[r][i].own \in plan[r][p]
      BY AnswerFacts
    <2> HIDE DEF p
    <2>2. answer[r][i].own \in plan[r][p]
      BY <2>1, PlanIsOwned
    <2> QED
      BY <2>1, <2>2, AskedAsNamed
  <1> QED
    BY <1>1, InvInit, InvStep, PTL DEF Spec
=============================================================================
