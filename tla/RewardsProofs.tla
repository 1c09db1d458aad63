---------------------------- MODULE RewardsProofs ----------------------------
(***************************************************************************)
(* Proofs about Rewards.  A code that was marked, and neither unmarked nor *)
(* deleted since, has one row, which is redeemed: a list that is loaded    *)
(* has another code.  And whoever was shown a code, or has been counted    *)
(* and will be, is one of the visits counted.                              *)
(***************************************************************************)
EXTENDS Rewards, FiniteSetTheorems, WellFoundedInduction, TLAPS

\* What a list, a visit and the visitors show, with the ids up to n.
Listed(n) == {NoCode} \cup [reward : 1..MaxRewards, row : 1..n, code : Codes]
Visited(n) == {NoVisit} \cup [row : 1..n, code : Codes, counted : BOOLEAN]
Shown(n) == [visitor : Visitors, row : 1..n, code : Codes]

PagesOf(n) ==
  /\ list \in [Operators -> Listed(n)] /\ links \subseteq 1..n
  /\ visit \in [Visitors -> Visited(n)] /\ seen \subseteq Shown(n)

\* What the type invariant leaves open: ids come from the serials.
Numbered ==
  /\ serials \in [reward : 0..MaxRewards, code : 0..MaxRows]
  /\ DOMAIN rewards \subseteq 1 .. serials.reward
  /\ DOMAIN codes \subseteq 1 .. serials.code
  /\ form \in [reward : Nat, codes : Seq(Codes)]
  /\ PagesOf(serials.code)

\* Of the codes marked as used the rows are redeemed.
Marked == \A c \in used : \E i \in DOMAIN codes : codes[i].code = c /\ codes[i].redeemed

LinksShown == \A o \in Operators : list[o] # NoCode => list[o].row \in links

\* Ids are not given again: the row on a list has the code it was read with.
ListsMatch ==
  \A o \in Operators :
    list[o] # NoCode /\ list[o].row \in DOMAIN codes => codes[list[o].row].code = list[o].code

HandInv ==
  /\ TypeOK /\ Numbered
  /\ Marked /\ LinksShown /\ ListsMatch
  /\ NotOfferedAgain /\ UsedWasShown

\* The visitors that row i has counted and shown, or has yet to show.
VisitorsOf(i) ==
  {s.visitor : s \in {s \in seen : s.row = i}}
    \cup {v \in Visitors : visit[v].row = i /\ visit[v].counted}

FinitelyVisited == \A i \in Nat : IsFiniteSet(VisitorsOf(i))

Counted(i) == Cardinality(VisitorsOf(i)) <= codes[i].visited

CountInv == TypeOK /\ Numbered /\ FinitelyVisited /\ \A i \in DOMAIN codes : Counted(i)

-----------------------------------------------------------------------------

\* A set of numbers up to n has a largest.
LEMMA MaxIsElement ==
  ASSUME NEW n \in Nat, NEW S, S \subseteq 0..n, S # {}
  PROVE  Max(S) \in S /\ \A y \in S : Max(S) >= y
<1> DEFINE T == {n - x : x \in S}
<1>1. T \subseteq Nat /\ T # {}
  <2>1. \A x \in S : n - x \in Nat
    OBVIOUS
  <2>2. PICK x \in S : TRUE
    OBVIOUS
  <2>3. n - x \in T
    OBVIOUS
  <2> QED BY <2>1, <2>3
<1>2. \E x \in T : \A y \in T : ~ (y < x)
  <2> HIDE DEF T
  <2> DEFINE R == OpToRel(<, Nat)
  <2>1. IsWellFoundedOn(R, Nat)
    BY NatLessThanWellFounded
  <2>2. \A x, y \in Nat : y < x => <<y, x>> \in R
    BY DEF OpToRel
  <2> HIDE DEF R
  <2>3. \E x \in T : \A y \in T : ~ (<<y, x>> \in R)
    BY <1>1, <2>1, WFMin
  <2> QED BY <1>1, <2>2, <2>3
<1>3. PICK x \in T : \A y \in T : ~ (y < x)
  BY <1>2
<1>4. PICK z \in S : x = n - z
  BY <1>3
<1>5. ASSUME NEW y \in S PROVE z >= y
  <2>1. n - y \in T
    OBVIOUS
  <2>2. ~ (n - y < n - z)
    BY <1>3, <1>4, <2>1
  <2>3. y \in Int /\ z \in Int
    OBVIOUS
  <2> HIDE DEF T
  <2> QED BY <2>2, <2>3
<1> QED BY <1>5 DEF Max

LEMMA CodeTyped ==
  ASSUME TypeOK, NEW i \in DOMAIN codes
  PROVE  /\ codes[i].code \in Codes /\ codes[i].reward \in DOMAIN rewards
         /\ codes[i].redeemed \in BOOLEAN /\ codes[i].visited \in Nat
         /\ codes[i] = [code |-> codes[i].code, reward |-> codes[i].reward,
                        redeemed |-> codes[i].redeemed, visited |-> codes[i].visited]
<1>1. codes[i] \in Row
  BY DEF TypeOK, Range
<1> QED BY <1>1 DEF Row

\* The list never shows a code that is redeemed, and what it shows has a row.
LEMMA ListedCode ==
  ASSUME TypeOK, Numbered, NEW r
  PROVE  LET i == Max({0} \cup GetRewardCodes(r)) IN
           /\ i \in 0 .. serials.code
           /\ i # 0 => i \in DOMAIN codes /\ ~codes[i].redeemed
<1> DEFINE S == {0} \cup GetRewardCodes(r)
<1>1. GetRewardCodes(r) \subseteq DOMAIN codes /\ \A i \in GetRewardCodes(r) : ~codes[i].redeemed
  BY DEF GetRewardCodes, CodesOf
<1>2. serials.code \in Nat /\ DOMAIN codes \subseteq 1 .. serials.code
  BY RewardsAssumption DEF Numbered
<1>3. S \subseteq 0 .. serials.code /\ S # {}
  BY <1>1, <1>2
<1>4. Max(S) \in S
  <2> HIDE DEF S
  <2> QED BY <1>2, <1>3, MaxIsElement
<1> QED BY <1>1, <1>3, <1>4

\* Rows after an INSERT: those before it, and new ones without a visit, for
\* codes that had none.
LEMMA RowsInserted ==
  ASSUME TypeOK, Numbered, NEW r \in DOMAIN rewards, NEW s \in Seq(Codes),
         InsertRewardCodes(r, s)
  PROVE  /\ DOMAIN codes \subseteq DOMAIN codes'
         /\ \A i \in DOMAIN codes : codes'[i] = codes[i]
         /\ \A i \in DOMAIN codes' \ DOMAIN codes :
              /\ i \in serials.code + 1 .. serials.code + Len(s)
              /\ codes'[i] = [code |-> s[i - serials.code], reward |-> r,
                              redeemed |-> FALSE, visited |-> 0]
              /\ s[i - serials.code] \in Codes
              /\ \A j \in DOMAIN codes : codes[j].code # s[i - serials.code]
         /\ \A i, j \in DOMAIN codes' : codes'[i].code = codes'[j].code => i = j
<1> DEFINE N == {serials.code + k : k \in NewCodes(r, s)}
<1>1. /\ serials.code \in Nat /\ DOMAIN s = 1..Len(s) /\ Len(s) \in Nat
      /\ DOMAIN codes \subseteq 1 .. serials.code
  BY RewardsAssumption DEF Numbered
<1>2. /\ DOMAIN codes' = DOMAIN codes \cup N
      /\ \A i \in DOMAIN codes : codes'[i] = codes[i]
      /\ \A i \in DOMAIN codes' \ DOMAIN codes :
           codes'[i] = [code |-> s[i - serials.code], reward |-> r,
                        redeemed |-> FALSE, visited |-> 0]
  BY DEF InsertRewardCodes
<1>3. ASSUME NEW i \in DOMAIN codes', i \notin DOMAIN codes
      PROVE  /\ i \in serials.code + 1 .. serials.code + Len(s)
             /\ i - serials.code \in NewCodes(r, s) /\ i - serials.code \in 1..Len(s)
             /\ s[i - serials.code] \in Codes
             /\ \A j \in DOMAIN codes : codes[j].code # s[i - serials.code]
             /\ \A j \in 1 .. (i - serials.code) - 1 : s[j] # s[i - serials.code]
  <2>1. PICK k \in NewCodes(r, s) : i = serials.code + k
    BY <1>2, <1>3
  <2>2. k \in 1..Len(s) /\ i - serials.code = k
    BY <1>1, <2>1 DEF NewCodes
  <2> QED BY <1>1, <2>1, <2>2 DEF NewCodes
<1>4. ASSUME NEW i \in DOMAIN codes', i \notin DOMAIN codes
      PROVE  codes'[i].code = s[i - serials.code]
  <2>1. codes'[i] = [code |-> s[i - serials.code], reward |-> r,
                     redeemed |-> FALSE, visited |-> 0]
    BY <1>2, <1>4
  <2> QED BY <2>1
<1>5. ASSUME NEW i \in DOMAIN codes', NEW j \in DOMAIN codes', codes'[i].code = codes'[j].code
      PROVE  i = j
  <2>1. CASE i \in DOMAIN codes /\ j \in DOMAIN codes
    BY <1>2, <1>5, <2>1 DEF TypeOK
  <2>2. CASE i \in DOMAIN codes /\ j \notin DOMAIN codes
    BY <1>2, <1>3, <1>5, <1>4, <2>2
  <2>3. CASE i \notin DOMAIN codes /\ j \in DOMAIN codes
    BY <1>2, <1>3, <1>5, <1>4, <2>3
  <2>4. CASE i \notin DOMAIN codes /\ j \notin DOMAIN codes
    <3> DEFINE k == i - serials.code
               l == j - serials.code
    <3>1. k \in 1..Len(s) /\ l \in 1..Len(s) /\ i \in Int /\ j \in Int
      BY <1>1, <1>3, <2>4
    <3>2. codes'[i].code = s[k] /\ codes'[j].code = s[l]
      BY <1>4, <2>4
    <3>3. s[k] = s[l]
      BY <1>5, <3>2
    <3>4. /\ \A m \in 1 .. k - 1 : s[m] # s[k]
          /\ \A m \in 1 .. l - 1 : s[m] # s[l]
      BY <1>3, <2>4
    <3> HIDE DEF k, l
    <3>5. ~ (k < l) /\ ~ (l < k)
      BY <1>1, <3>1, <3>3, <3>4
    <3>6. k = l
      BY <1>1, <3>1, <3>5
    <3> QED BY <1>1, <3>1, <3>6 DEF k, l
  <2> QED BY <2>1, <2>2, <2>3, <2>4
<1> QED BY <1>2, <1>3, <1>5

LEMMA RewardTyped ==
  ASSUME TypeOK, NEW r \in DOMAIN rewards
  PROVE  rewards[r] \in Operators
BY DEF TypeOK, Range

-----------------------------------------------------------------------------
(* Types. *)

LEMMA TypeInit == Init => TypeOK /\ Numbered
<1> SUFFICES ASSUME Init PROVE TypeOK /\ Numbered
  OBVIOUS
<1>1. TypeOK
  BY RewardsAssumption DEF Init, TypeOK, Range
<1>2. serials = [reward |-> 0, code |-> 0] /\ {MaxRewards, MaxRows} \subseteq Nat
  BY RewardsAssumption DEF Init
<1>3. serials \in [reward : 0..MaxRewards, code : 0..MaxRows] /\ serials.code = 0
  BY <1>2
<1>4. form \in [reward : Nat, codes : Seq(Codes)]
  BY DEF Init, NoForm
<1>5. PagesOf(serials.code)
  BY DEF Init, PagesOf, Listed, Visited
<1> QED BY <1>1, <1>3, <1>4, <1>5 DEF Init, Numbered

\* What the pages show of the ids up to n, they show of those up to a later one.
LEMMA PagesGrow ==
  ASSUME NEW n \in Nat, NEW m \in Nat, n <= m
  PROVE  /\ Listed(n) \subseteq Listed(m) /\ Visited(n) \subseteq Visited(m)
         /\ Shown(n) \subseteq Shown(m)
<1>1. 1..n \subseteq 1..m
  OBVIOUS
<1> QED BY <1>1 DEF Listed, Visited, Shown

\* The pages stay as they are, while ids may be drawn.
LEMMA PagesStay ==
  ASSUME TypeOK, Numbered, UNCHANGED <<list, links, visit, seen>>,
         serials' \in [reward : 0..MaxRewards, code : 0..MaxRows], serials.code <= serials'.code
  PROVE  PagesOf(serials.code)'
<1>1. /\ serials.code \in Nat /\ serials'.code \in Nat
      /\ 1 .. serials.code \subseteq 1 .. serials'.code
  BY RewardsAssumption DEF Numbered
<1>2. /\ Listed(serials.code) \subseteq Listed(serials'.code)
      /\ Visited(serials.code) \subseteq Visited(serials'.code)
      /\ Shown(serials.code) \subseteq Shown(serials'.code)
  BY <1>1, PagesGrow
<1>3. /\ list \in [Operators -> Listed(serials.code)] /\ links \subseteq 1 .. serials.code
      /\ visit \in [Visitors -> Visited(serials.code)] /\ seen \subseteq Shown(serials.code)
  BY DEF Numbered, PagesOf
<1>4. /\ list \in [Operators -> Listed(serials'.code)] /\ links \subseteq 1 .. serials'.code
      /\ visit \in [Visitors -> Visited(serials'.code)] /\ seen \subseteq Shown(serials'.code)
  BY <1>1, <1>2, <1>3
<1> QED BY <1>4 DEF PagesOf, Listed, Visited, Shown, NoCode, NoVisit

\* What a statement on the codes leaves alone.
LEMMA CodesTyped ==
  ASSUME TypeOK, Numbered,
         serials' \in [reward : 0..MaxRewards, code : 0..MaxRows],
         serials.code <= serials'.code, serials.reward = serials'.reward,
         DOMAIN rewards' \subseteq DOMAIN rewards,
         \A r \in DOMAIN rewards' : rewards'[r] = rewards[r],
         DOMAIN codes' \subseteq 1 .. serials'.code,
         \A i \in DOMAIN codes' :
           codes'[i] \in [code : Codes, reward : DOMAIN rewards', redeemed : BOOLEAN, visited : Nat],
         \A i, j \in DOMAIN codes' : codes'[i].code = codes'[j].code => i = j,
         form' \in [reward : Nat, codes : Seq(Codes)],
         PagesOf(serials.code)'
  PROVE  TypeOK' /\ Numbered'
<1>1. /\ MaxRows \in Nat /\ serials.reward \in Nat
      /\ serials'.code \in Nat /\ serials'.code <= MaxRows
  BY RewardsAssumption DEF Numbered
<1>2. 1 .. serials'.code \subseteq 1..MaxRows
  BY <1>1
<1>3. /\ list' \in [Operators -> Listed(MaxRows)] /\ links' \subseteq 1..MaxRows
      /\ seen' \subseteq Shown(MaxRows)
  <2>1. Listed(serials'.code) \subseteq Listed(MaxRows) /\ Shown(serials'.code) \subseteq Shown(MaxRows)
    BY <1>1, PagesGrow
  <2>2. /\ list' \in [Operators -> Listed(serials'.code)] /\ links' \subseteq 1 .. serials'.code
        /\ seen' \subseteq Shown(serials'.code)
    BY DEF PagesOf, Listed, Shown, NoCode
  <2> QED BY <1>2, <2>1, <2>2
<1>4. DOMAIN rewards' \subseteq 1..MaxRewards /\ Range(rewards') \subseteq Operators
  BY RewardTyped DEF TypeOK, Range
<1>5. DOMAIN codes' \subseteq 1..MaxRows /\ Range(codes') \subseteq Row'
  BY <1>2 DEF Row, Range
<1>6. TypeOK'
  BY <1>3, <1>4, <1>5 DEF TypeOK, Listed, Shown, NoCode
<1>7. DOMAIN rewards' \subseteq 1 .. serials'.reward
  BY DEF Numbered
<1> QED BY <1>6, <1>7 DEF Numbered

LEMMA CodesAsTyped ==
  ASSUME TypeOK, Numbered
  PROVE  /\ serials \in [reward : 0..MaxRewards, code : 0..MaxRows]
         /\ serials.code \in Nat /\ serials.reward \in Nat
         /\ DOMAIN codes \subseteq 1 .. serials.code
         /\ \A i \in DOMAIN codes :
              codes[i] \in [code : Codes, reward : DOMAIN rewards, redeemed : BOOLEAN, visited : Nat]
         /\ \A i, j \in DOMAIN codes : codes[i].code = codes[j].code => i = j
         /\ form \in [reward : Nat, codes : Seq(Codes)]
<1>1. \A i \in DOMAIN codes : codes[i] \in Row
  BY DEF TypeOK, Range
<1>2. {MaxRewards, MaxRows} \subseteq Nat
  BY RewardsAssumption
<1> QED BY <1>1, <1>2 DEF TypeOK, Numbered, Row

LEMMA PagesTyped ==
  ASSUME TypeOK, Numbered
  PROVE  /\ list \in [Operators -> Listed(serials.code)] /\ links \subseteq 1 .. serials.code
         /\ visit \in [Visitors -> Visited(serials.code)] /\ seen \subseteq Shown(serials.code)
BY DEF Numbered, PagesOf

LEMMA NewRewardTyped ==
  ASSUME TypeOK, Numbered, NEW o \in Operators, NEW s \in Forms, PostTrackerRewardsNew(o, s)
  PROVE  TypeOK' /\ Numbered'
<1> DEFINE r == serials.reward + 1
<1>1. /\ serials' = [serials EXCEPT !.reward = r] /\ r <= MaxRewards
      /\ DOMAIN rewards' = DOMAIN rewards \cup {r}
      /\ \A x \in DOMAIN rewards' : rewards'[x] = IF x = r THEN o ELSE rewards[x]
      /\ form' = [reward |-> serials'.reward, codes |-> s]
      /\ UNCHANGED <<codes, list, links, visit, seen>>
  <2>1. serials.reward \in Nat /\ MaxRewards \in Nat
    BY RewardsAssumption, CodesAsTyped
  <2> QED BY <2>1 DEF PostTrackerRewardsNew, InsertReward
<1>2. /\ serials' \in [reward : 0..MaxRewards, code : 0..MaxRows]
      /\ serials'.code = serials.code /\ serials'.reward = r /\ r \in Nat
  BY <1>1, CodesAsTyped
<1>3. DOMAIN rewards' \subseteq 1 .. r /\ Range(rewards') \subseteq Operators
  BY <1>1, <1>2, RewardTyped, CodesAsTyped DEF Numbered, Range
<1>4. form' \in [reward : Nat, codes : Seq(Codes)]
  BY <1>1, <1>2, RewardsAssumption
<1>5. 1 .. r \subseteq 1..MaxRewards
  BY <1>1, <1>2, RewardsAssumption
<1>6. Range(codes') \subseteq Row'
  BY <1>1, CodesAsTyped DEF Row, Range
<1>7. TypeOK'
  BY <1>1, <1>3, <1>5, <1>6 DEF TypeOK, NoCode
<1>8. PagesOf(serials.code)'
  BY <1>1, <1>2, PagesStay, CodesAsTyped
<1> QED BY <1>1, <1>2, <1>3, <1>4, <1>7, <1>8 DEF Numbered

LEMMA InsertIntoTyped ==
  ASSUME TypeOK, Numbered, NEW r, NEW s \in Seq(Codes), InsertInto(r, s),
         form' \in [reward : Nat, codes : Seq(Codes)],
         UNCHANGED <<rewards, list, links, visit, seen>>
  PROVE  TypeOK' /\ Numbered'
<1>1. CASE UNCHANGED <<codes, serials>>
  BY <1>1, CodesAsTyped, PagesStay, CodesTyped
<1>2. CASE r \in DOMAIN rewards /\ InsertRewardCodes(r, s)
           /\ serials.code + Len(s) <= MaxRows
           /\ serials' = [serials EXCEPT !.code = @ + Len(s)]
  <2>1. serials.code \in Nat /\ Len(s) \in Nat /\ MaxRows \in Nat
    BY CodesAsTyped, RewardsAssumption
  <2>2. /\ serials' \in [reward : 0..MaxRewards, code : 0..MaxRows]
        /\ serials'.code = serials.code + Len(s) /\ serials'.reward = serials.reward
    BY <1>2, <2>1, CodesAsTyped
  <2>3. /\ DOMAIN codes' \subseteq 1 .. serials'.code
        /\ \A i, j \in DOMAIN codes' : codes'[i].code = codes'[j].code => i = j
    <3>1. \A i \in DOMAIN codes' : i \in DOMAIN codes \/ i \in serials.code + 1 .. serials.code + Len(s)
      BY <1>2, RowsInserted
    <3>2. DOMAIN codes \subseteq 1 .. serials.code
      BY CodesAsTyped
    <3>3. DOMAIN codes' \subseteq 1 .. serials'.code
      BY <3>1, <3>2, <2>1, <2>2
    <3> QED BY <3>3, <1>2, RowsInserted
  <2>4. ASSUME NEW i \in DOMAIN codes'
        PROVE  codes'[i] \in [code : Codes, reward : DOMAIN rewards', redeemed : BOOLEAN, visited : Nat]
    <3>1. CASE i \in DOMAIN codes
      BY <1>2, <3>1, RowsInserted, CodesAsTyped
    <3>2. CASE i \notin DOMAIN codes
      <4>1. /\ codes'[i] = [code |-> s[i - serials.code], reward |-> r,
                            redeemed |-> FALSE, visited |-> 0]
            /\ s[i - serials.code] \in Codes
        BY <1>2, <3>2, RowsInserted
      <4> QED BY <1>2, <4>1
    <3> QED BY <3>1, <3>2
  <2>5. serials.code <= serials'.code /\ serials.reward = serials'.reward
    BY <2>1, <2>2
  <2> QED BY <2>2, <2>3, <2>4, <2>5, CodesAsTyped, PagesStay, CodesTyped
<1> QED BY <1>1, <1>2 DEF InsertInto

\* Rows are deleted, and so are rewards whose rows are.
LEMMA DeletionTyped ==
  ASSUME TypeOK, Numbered,
         DOMAIN codes' \subseteq DOMAIN codes, \A i \in DOMAIN codes' : codes'[i] = codes[i],
         DOMAIN rewards' \subseteq DOMAIN rewards,
         \A r \in DOMAIN rewards' : rewards'[r] = rewards[r],
         \A i \in DOMAIN codes' : codes[i].reward \in DOMAIN rewards',
         UNCHANGED <<serials, form, list, links, visit, seen>>
  PROVE  TypeOK' /\ Numbered'
<1>1. ASSUME NEW i \in DOMAIN codes'
      PROVE  codes'[i] \in [code : Codes, reward : DOMAIN rewards', redeemed : BOOLEAN, visited : Nat]
  <2>1. /\ codes'[i] = [code |-> codes[i].code, reward |-> codes[i].reward,
                        redeemed |-> codes[i].redeemed, visited |-> codes[i].visited]
        /\ codes[i].code \in Codes /\ codes[i].redeemed \in BOOLEAN /\ codes[i].visited \in Nat
    BY CodeTyped
  <2> QED BY <2>1
<1> QED BY <1>1, CodesAsTyped, PagesStay, CodesTyped

\* A column of one row changes.
LEMMA ColumnTyped ==
  ASSUME TypeOK, Numbered, NEW i,
         \/ \E b \in BOOLEAN : UpdateRewardCodeRedeemed(i, b)
         \/ IncreaseRewardCodeVisitedCount(i)
         \/ codes' = codes
  PROVE  /\ DOMAIN codes' = DOMAIN codes
         /\ \A j \in DOMAIN codes :
              /\ codes'[j] \in [code : Codes, reward : DOMAIN rewards, redeemed : BOOLEAN, visited : Nat]
              /\ codes'[j].code = codes[j].code
              /\ j # i => codes'[j] = codes[j]
         /\ \A j, k \in DOMAIN codes' : codes'[j].code = codes'[k].code => j = k
<1>1. \A j \in DOMAIN codes :
        codes[j] \in [code : Codes, reward : DOMAIN rewards, redeemed : BOOLEAN, visited : Nat]
  BY CodesAsTyped
<1>2. /\ DOMAIN codes' = DOMAIN codes
      /\ \A j \in DOMAIN codes :
           /\ codes'[j] \in [code : Codes, reward : DOMAIN rewards, redeemed : BOOLEAN, visited : Nat]
           /\ codes'[j].code = codes[j].code
           /\ j # i => codes'[j] = codes[j]
  BY <1>1 DEF UpdateRewardCodeRedeemed, IncreaseRewardCodeVisitedCount
<1> QED BY <1>2, CodesAsTyped

LEMMA ColumnKeepsType ==
  ASSUME TypeOK, Numbered, NEW i,
         \/ \E b \in BOOLEAN : UpdateRewardCodeRedeemed(i, b)
         \/ IncreaseRewardCodeVisitedCount(i)
         \/ codes' = codes,
         UNCHANGED <<rewards, serials, form>>,
         PagesOf(serials.code)'
  PROVE  TypeOK' /\ Numbered'
<1>1. /\ DOMAIN codes' = DOMAIN codes
      /\ \A j \in DOMAIN codes' :
           codes'[j] \in [code : Codes, reward : DOMAIN rewards', redeemed : BOOLEAN, visited : Nat]
      /\ \A j, k \in DOMAIN codes' : codes'[j].code = codes'[k].code => j = k
  BY ColumnTyped
<1>2. /\ serials' \in [reward : 0..MaxRewards, code : 0..MaxRows]
      /\ serials.code <= serials'.code /\ serials.reward = serials'.reward
      /\ DOMAIN codes' \subseteq 1 .. serials'.code
      /\ form' \in [reward : Nat, codes : Seq(Codes)]
  BY <1>1, CodesAsTyped
<1> QED BY <1>1, <1>2, CodesTyped
-----------------------------------------------------------------------------
(* What the steps do, by their kinds. *)

Inserts ==
  /\ \E r \in DOMAIN rewards, s \in Seq(Codes) : InsertRewardCodes(r, s)
  /\ UNCHANGED <<list, links, visit, seen, used, stale>>

Deletes ==
  /\ DOMAIN codes' \subseteq DOMAIN codes /\ \A i \in DOMAIN codes' : codes'[i] = codes[i]
  /\ used' = used \ {codes[i].code : i \in DOMAIN codes \ DOMAIN codes'}
  /\ UNCHANGED <<list, links, visit, seen, stale>>

Marks ==
  /\ \E i \in links \cap DOMAIN codes : MarkUsed(i, codes[i].code)
  /\ UNCHANGED <<list, links, visit, seen>>

Unmarks ==
  /\ \E i \in DOMAIN codes :
       UpdateRewardCodeRedeemed(i, FALSE) /\ used' = used \ {codes[i].code}
  /\ UNCHANGED <<list, links, visit, seen, stale>>

Opens ==
  /\ \E i \in DOMAIN codes : links' = links \cup {i}
  /\ UNCHANGED <<codes, list, visit, seen, used, stale>>

Lists == \E o \in Operators, r \in DOMAIN rewards : TrackerRewardCodes(o, r)
Nexts == \E o \in Operators : TrackerRewardCodeNext(o)
Reads == \E v \in Visitors, i \in links : GetRewardCodeByRedeemCode(v, i)
Counts == \E v \in Visitors : CountVisit(v)
Redeems == \E v \in Visitors : Redeem(v)
Stays == UNCHANGED <<codes, list, links, visit, seen, used, stale>>

Kinds == \/ Inserts \/ Deletes \/ Marks \/ Unmarks \/ Opens \/ Lists
         \/ Nexts \/ Reads \/ Counts \/ Redeems \/ Stays

LEMMA InsertIntoKind ==
  ASSUME NEW r, NEW s \in Seq(Codes), InsertInto(r, s),
         UNCHANGED <<list, links, visit, seen, used, stale>>
  PROVE  Inserts \/ Stays
BY DEF InsertInto, Inserts, Stays

LEMMA FormStep ==
  ASSUME TypeOK, Numbered, NEW s \in Forms,
         \/ \E o \in Operators : PostTrackerRewardsNew(o, s)
         \/ \E r \in 1 .. serials.reward : PostTrackerRewardEdit(r, s)
  PROVE  TypeOK' /\ Numbered' /\ Kinds
<1>1. CASE \E o \in Operators : PostTrackerRewardsNew(o, s)
  <2>1. Stays
    BY <1>1 DEF PostTrackerRewardsNew, Stays
  <2> QED BY <1>1, <2>1, NewRewardTyped DEF Kinds
<1>2. CASE \E r \in 1 .. serials.reward : PostTrackerRewardEdit(r, s)
  <2>1. PICK r \in 1 .. serials.reward : PostTrackerRewardEdit(r, s)
    BY <1>2
  <2>2. s \in Seq(Codes) /\ InsertInto(r, s)
    BY <2>1, RewardsAssumption DEF PostTrackerRewardEdit
  <2>3. UNCHANGED <<rewards, form, list, links, visit, seen, used, stale>>
    BY <2>1 DEF PostTrackerRewardEdit
  <2>4. form' \in [reward : Nat, codes : Seq(Codes)]
    BY <2>3, CodesAsTyped
  <2> QED BY <2>2, <2>3, <2>4, InsertIntoTyped, InsertIntoKind DEF Kinds
<1> QED BY <1>1, <1>2

LEMMA PostCodesStep ==
  ASSUME TypeOK, Numbered, PostCodes
  PROVE  TypeOK' /\ Numbered' /\ Kinds
<1>1. /\ InsertInto(form.reward, form.codes) /\ form' = NoForm
      /\ UNCHANGED <<rewards, list, links, visit, seen, used, stale>>
  BY DEF PostCodes
<1>2. form.codes \in Seq(Codes) /\ form' \in [reward : Nat, codes : Seq(Codes)]
  BY <1>1, CodesAsTyped DEF NoForm
<1> QED BY <1>1, <1>2, InsertIntoTyped, InsertIntoKind DEF Kinds

LEMMA MarkUsedTyped ==
  ASSUME TypeOK, Numbered, NEW i, NEW c, MarkUsed(i, c),
         UNCHANGED <<rewards, serials, form>>, PagesOf(serials.code)'
  PROVE  TypeOK' /\ Numbered'
<1>1. \E b \in BOOLEAN : UpdateRewardCodeRedeemed(i, b)
  BY DEF MarkUsed
<1> QED BY <1>1, ColumnKeepsType

LEMMA SamePages ==
  ASSUME TypeOK, Numbered, UNCHANGED <<serials, list, links, visit, seen>>
  PROVE  PagesOf(serials.code)'
<1>1. /\ serials' \in [reward : 0..MaxRewards, code : 0..MaxRows]
      /\ serials.code <= serials'.code
  BY CodesAsTyped
<1> QED BY <1>1, PagesStay

LEMMA ListSteps ==
  ASSUME TypeOK, Numbered, NEW o \in Operators,
         \/ TrackerRewardCodeNext(o)
         \/ \E r \in DOMAIN rewards : TrackerRewardCodes(o, r)
  PROVE  TypeOK' /\ Numbered' /\ Kinds
<1>1. CASE TrackerRewardCodeNext(o)
  <2>1. /\ MarkUsed(list[o].row, list[o].code) /\ list' = [list EXCEPT ![o] = NoCode]
        /\ UNCHANGED <<rewards, serials, form, links, visit, seen>>
    BY <1>1 DEF TrackerRewardCodeNext
  <2>2. list' \in [Operators -> Listed(serials.code)]
    BY <2>1, PagesTyped DEF Listed
  <2>3. PagesOf(serials.code)'
    BY <2>1, <2>2, PagesTyped DEF PagesOf, Listed, Visited, Shown, NoCode, NoVisit
  <2> QED BY <1>1, <2>1, <2>3, MarkUsedTyped DEF Kinds, Nexts
<1>2. CASE \E r \in DOMAIN rewards : TrackerRewardCodes(o, r)
  <2>1. PICK r \in DOMAIN rewards : TrackerRewardCodes(o, r)
    BY <1>2
  <2> DEFINE i == Max({0} \cup GetRewardCodes(r))
             p == IF i = 0 THEN NoCode ELSE [reward |-> r, row |-> i, code |-> codes[i].code]
  <2>2. /\ list' = [list EXCEPT ![o] = p] /\ links' = links \cup ({i} \ {0})
        /\ UNCHANGED <<codes, rewards, serials, form, visit, seen>>
    BY <2>1 DEF TrackerRewardCodes, tables
  <2>3. /\ i \in 0 .. serials.code /\ serials.code \in Nat
        /\ i # 0 => i \in DOMAIN codes /\ codes[i].code \in Codes
    BY ListedCode, CodeTyped, CodesAsTyped
  <2>4. r \in 1..MaxRewards
    BY DEF TypeOK
  <2> HIDE DEF i
  <2>5. p \in Listed(serials.code)
    BY <2>3, <2>4 DEF Listed
  <2>6. links' \subseteq 1 .. serials.code
    BY <2>2, <2>3, PagesTyped
  <2> HIDE DEF p
  <2>7. list' \in [Operators -> Listed(serials.code)]
    BY <2>2, <2>5, PagesTyped
  <2>8. PagesOf(serials.code)'
    BY <2>2, <2>6, <2>7, PagesTyped DEF PagesOf, Listed, Visited, Shown, NoCode, NoVisit
  <2> QED BY <1>2, <2>2, <2>8, ColumnKeepsType DEF Kinds, Lists
<1> QED BY <1>1, <1>2

LEMMA DeleteStep ==
  ASSUME TypeOK, Numbered, NEW r \in DOMAIN rewards, TrackerRewardDelete(r)
  PROVE  TypeOK' /\ Numbered' /\ Kinds
<1>1. /\ DOMAIN rewards' = DOMAIN rewards \ {r}
      /\ \A x \in DOMAIN rewards' : rewards'[x] = rewards[x]
      /\ DOMAIN codes' = DOMAIN codes \ CodesOf(r)
      /\ \A i \in DOMAIN codes' : codes'[i] = codes[i]
      /\ used' = used \ {codes[i].code : i \in CodesOf(r)}
      /\ UNCHANGED <<serials, form, list, links, visit, seen, stale>>
  BY DEF TrackerRewardDelete, DeleteReward, Restrict
<1>2. \A i \in DOMAIN codes' : codes[i].reward \in DOMAIN rewards'
  BY <1>1, CodeTyped DEF CodesOf
<1>3. TypeOK' /\ Numbered'
  BY <1>1, <1>2, DeletionTyped
<1>4. DOMAIN codes \ DOMAIN codes' = CodesOf(r)
  BY <1>1 DEF CodesOf
<1>5. Deletes
  BY <1>1, <1>4 DEF Deletes
<1> QED BY <1>3, <1>5 DEF Kinds

LEMMA CodePageSteps ==
  ASSUME TypeOK, Numbered, NEW o \in Operators, NEW r \in DOMAIN rewards, NEW i \in DOMAIN codes,
         \/ TrackerRewardCode(o, r, i)
         \/ TrackerRewardCodeMarkAsUsed(o, r, i)
         \/ TrackerRewardCodeMarkAsUnused(o, r, i)
         \/ TrackerRewardCodeDelete(o, r, i)
  PROVE  TypeOK' /\ Numbered' /\ Kinds
<1>1. CASE TrackerRewardCode(o, r, i)
  <2>1. /\ links' = links \cup {i}
        /\ UNCHANGED <<codes, rewards, serials, form, list, visit, seen, used, stale>>
    BY <1>1 DEF TrackerRewardCode, tables
  <2>2. PagesOf(serials.code)'
    BY <2>1, PagesTyped, CodesAsTyped DEF PagesOf, Listed, Visited, Shown, NoCode, NoVisit
  <2>3. Opens
    BY <2>1 DEF Opens
  <2> QED BY <2>1, <2>2, <2>3, ColumnKeepsType DEF Kinds
<1>2. CASE TrackerRewardCodeMarkAsUsed(o, r, i)
  <2>1. /\ MarkUsed(i, codes[i].code) /\ i \in links
        /\ UNCHANGED <<rewards, serials, form, list, links, visit, seen>>
    BY <1>2 DEF TrackerRewardCodeMarkAsUsed, CodePage
  <2>2. Marks
    BY <2>1 DEF Marks
  <2> QED BY <2>1, <2>2, SamePages, MarkUsedTyped DEF Kinds
<1>3. CASE TrackerRewardCodeMarkAsUnused(o, r, i)
  <2>1. /\ UpdateRewardCodeRedeemed(i, FALSE) /\ used' = used \ {codes[i].code}
        /\ UNCHANGED <<rewards, serials, form, list, links, visit, seen, stale>>
    BY <1>3 DEF TrackerRewardCodeMarkAsUnused
  <2>2. Unmarks
    BY <2>1 DEF Unmarks
  <2> QED BY <2>1, <2>2, SamePages, ColumnKeepsType DEF Kinds
<1>4. CASE TrackerRewardCodeDelete(o, r, i)
  <2>1. /\ DOMAIN codes' = DOMAIN codes \ {i}
        /\ \A j \in DOMAIN codes' : codes'[j] = codes[j]
        /\ used' = used \ {codes[i].code}
        /\ UNCHANGED <<rewards, serials, form, list, links, visit, seen, stale>>
    BY <1>4 DEF TrackerRewardCodeDelete, DeleteRewardCode, Restrict
  <2>2. \A j \in DOMAIN codes' : codes[j].reward \in DOMAIN rewards'
    BY <2>1, CodeTyped
  <2>3. TypeOK' /\ Numbered'
    BY <2>1, <2>2, DeletionTyped
  <2>4. {codes[j].code : j \in DOMAIN codes \ DOMAIN codes'} = {codes[i].code}
    BY <2>1
  <2>5. Deletes
    BY <2>1, <2>4 DEF Deletes
  <2> QED BY <2>3, <2>5 DEF Kinds
<1> QED BY <1>1, <1>2, <1>3, <1>4

LEMMA VisitSteps ==
  ASSUME TypeOK, Numbered, NEW v \in Visitors,
         \/ \E i \in links : GetRewardCodeByRedeemCode(v, i)
         \/ CountVisit(v)
         \/ Redeem(v)
  PROVE  TypeOK' /\ Numbered' /\ Kinds
<1>1. ASSUME visit' \in [Visitors -> Visited(serials.code)], seen' \subseteq Shown(serials.code),
             UNCHANGED <<serials, list, links>>
      PROVE  PagesOf(serials.code)'
  BY <1>1, PagesTyped DEF PagesOf, Listed, Visited, Shown, NoCode, NoVisit
<1>2. CASE \E i \in links : GetRewardCodeByRedeemCode(v, i)
  <2>1. PICK i \in links : GetRewardCodeByRedeemCode(v, i)
    BY <1>2
  <2>2. /\ i \in DOMAIN codes
        /\ visit' = [visit EXCEPT ![v] = [row |-> i, code |-> codes[i].code, counted |-> FALSE]]
        /\ UNCHANGED <<codes, rewards, serials, form, list, links, seen>>
    BY <2>1 DEF GetRewardCodeByRedeemCode, tables
  <2>3. [row |-> i, code |-> codes[i].code, counted |-> FALSE] \in Visited(serials.code)
    BY <2>2, CodeTyped, CodesAsTyped DEF Visited
  <2>4. visit' \in [Visitors -> Visited(serials.code)]
    BY <2>2, <2>3, PagesTyped
  <2> QED BY <1>1, <1>2, <2>2, <2>4, PagesTyped, ColumnKeepsType DEF Kinds, Reads
<1>3. CASE CountVisit(v)
  <2>1. /\ IncreaseRewardCodeVisitedCount(visit[v].row) \/ codes' = codes
        /\ \/ visit' = [visit EXCEPT ![v].counted = TRUE]
           \/ visit' = [visit EXCEPT ![v] = NoVisit]
        /\ visit[v] # NoVisit
        /\ UNCHANGED <<rewards, serials, form, list, links, seen>>
    BY <1>3 DEF CountVisit
  <2>2. visit' \in [Visitors -> Visited(serials.code)]
    BY <2>1, PagesTyped DEF Visited
  <2> QED BY <1>1, <1>3, <2>1, <2>2, PagesTyped, ColumnKeepsType DEF Kinds, Counts
<1>4. CASE Redeem(v)
  <2>1. /\ visit[v].counted
        /\ seen' = seen \cup {[visitor |-> v, row |-> visit[v].row, code |-> visit[v].code]}
        /\ visit' = [visit EXCEPT ![v] = NoVisit]
        /\ UNCHANGED <<codes, rewards, serials, form, list, links>>
    BY <1>4 DEF Redeem, tables
  <2>2. visit[v] \in [row : 1 .. serials.code, code : Codes, counted : BOOLEAN]
    BY <2>1, PagesTyped DEF Visited, NoVisit
  <2>3. visit' \in [Visitors -> Visited(serials.code)] /\ seen' \subseteq Shown(serials.code)
    BY <2>1, <2>2, PagesTyped DEF Visited, Shown
  <2> QED BY <1>1, <1>4, <2>1, <2>3, ColumnKeepsType DEF Kinds, Redeems
<1> QED BY <1>2, <1>3, <1>4

LEMMA StepKind ==
  ASSUME TypeOK, Numbered, [Next]_vars
  PROVE  TypeOK' /\ Numbered' /\ Kinds
<1>1. CASE UNCHANGED vars
  <2>1. Stays
    BY <1>1 DEF vars, tables, Stays
  <2>2. UNCHANGED <<rewards, serials, form, codes, list, links, visit, seen>>
    BY <1>1 DEF vars, tables
  <2> QED BY <2>1, <2>2, SamePages, ColumnKeepsType DEF Kinds
<1> QED
  BY <1>1, FormStep, PostCodesStep, ListSteps, DeleteStep, CodePageSteps, VisitSteps DEF Next

-----------------------------------------------------------------------------
(* What the lists offer. *)

LEMMA UsedAreCodes ==
  ASSUME HandInv
  PROVE  used \subseteq Codes /\ "none" \notin used
<1>1. \A i \in DOMAIN codes : codes[i].code \in Codes
  BY CodeTyped DEF HandInv
<1>2. used \subseteq Codes
  BY <1>1 DEF HandInv, Marked
<1> QED BY <1>2, RewardsAssumption

\* The row on a list was numbered before.
LEMMA ListTyped ==
  ASSUME HandInv, NEW o \in Operators
  PROVE  /\ list[o] = NoCode \/ list[o].row \in 1 .. serials.code
         /\ NoCode.row = 0 /\ NoCode.code = "none"
<1>1. list[o] \in Listed(serials.code)
  BY PagesTyped DEF HandInv
<1> QED BY <1>1 DEF Listed, NoCode

LEMMA InsertsKeep ==
  ASSUME HandInv, Inserts
  PROVE  Marked' /\ NotOfferedAgain' /\ ListsMatch' /\ UsedWasShown'
<1> USE DEF HandInv
<1>1. PICK r \in DOMAIN rewards, s \in Seq(Codes) : InsertRewardCodes(r, s)
  BY DEF Inserts
<1>2. UNCHANGED <<list, links, used, stale>>
  BY DEF Inserts
<1>3. /\ DOMAIN codes \subseteq DOMAIN codes'
      /\ \A i \in DOMAIN codes : codes'[i] = codes[i]
      /\ \A i \in DOMAIN codes' \ DOMAIN codes :
           /\ i \in serials.code + 1 .. serials.code + Len(s)
           /\ codes'[i] = [code |-> s[i - serials.code], reward |-> r,
                           redeemed |-> FALSE, visited |-> 0]
  BY <1>1, RowsInserted
<1>4. Marked'
  BY <1>2, <1>3 DEF Marked
<1>5. NotOfferedAgain'
  BY <1>2 DEF NotOfferedAgain
<1>6. UsedWasShown'
  BY <1>2, <1>3 DEF UsedWasShown
<1>7. ASSUME NEW o \in Operators, list[o] # NoCode, list[o].row \in DOMAIN codes'
      PROVE  list[o].row \in DOMAIN codes
  <2>1. serials.code \in Nat /\ Len(s) \in Nat /\ list[o].row \in 1 .. serials.code
    BY <1>7, ListTyped, CodesAsTyped
  <2> QED BY <1>3, <1>7, <2>1
<1>8. NoCode' = NoCode
  BY DEF NoCode
<1>9. ListsMatch'
  BY <1>2, <1>3, <1>7, <1>8 DEF ListsMatch
<1> QED BY <1>4, <1>5, <1>6, <1>9

LEMMA DeletesKeep ==
  ASSUME HandInv, Deletes
  PROVE  Marked' /\ NotOfferedAgain' /\ ListsMatch' /\ UsedWasShown'
<1> USE DEF HandInv
<1>1. /\ DOMAIN codes' \subseteq DOMAIN codes /\ \A i \in DOMAIN codes' : codes'[i] = codes[i]
      /\ used' \subseteq used
      /\ \A i \in DOMAIN codes : codes[i].code \in used' => i \in DOMAIN codes'
      /\ UNCHANGED <<list, links, stale>>
  BY DEF Deletes
<1>2. Marked'
  BY <1>1 DEF Marked
<1>3. NotOfferedAgain' /\ UsedWasShown'
  BY <1>1 DEF NotOfferedAgain, UsedWasShown
<1>4. ListsMatch'
  BY <1>1 DEF ListsMatch, NoCode
<1> QED BY <1>2, <1>3, <1>4

\* Codes keep their rows while a column is written.
LEMMA UsesKeep ==
  ASSUME HandInv, NEW i, NEW c, MarkUsed(i, c),
         i \in DOMAIN codes => i \in links /\ codes[i].code = c,
         \A o \in Operators : list'[o] \in {list[o], NoCode},
         links' = links
  PROVE  Marked' /\ NotOfferedAgain' /\ ListsMatch' /\ UsedWasShown'
<1> USE DEF HandInv
<1>1. NoCode' = NoCode /\ NoCode.code = "none"
  BY DEF NoCode
<1>2. /\ DOMAIN codes' = DOMAIN codes
      /\ \A j \in DOMAIN codes : codes'[j].code = codes[j].code /\ (j # i => codes'[j] = codes[j])
      /\ i \in DOMAIN codes => codes'[i].redeemed
  <2>1. UpdateRewardCodeRedeemed(i, TRUE)
    BY DEF MarkUsed
  <2>2. i \in DOMAIN codes => codes'[i].redeemed
    BY <2>1, CodesAsTyped DEF UpdateRewardCodeRedeemed
  <2>3. \E b \in BOOLEAN : UpdateRewardCodeRedeemed(i, b)
    BY <2>1
  <2> QED BY <2>2, <2>3, ColumnTyped
<1>3. ListsMatch'
  BY <1>1, <1>2 DEF ListsMatch
<1>4. UsedWasShown'
  BY <1>2 DEF UsedWasShown
<1>5. CASE i \notin DOMAIN codes
  <2>1. UNCHANGED <<used, stale>>
    BY <1>5 DEF MarkUsed
  <2>2. NotOfferedAgain'
    BY <1>1, <2>1, UsedAreCodes DEF NotOfferedAgain
  <2>3. Marked'
    BY <1>2, <1>5, <2>1 DEF Marked
  <2> QED BY <1>3, <1>4, <2>2, <2>3
<1>6. CASE i \in DOMAIN codes
  <2>1. used' = used \cup {c} /\ stale' = stale \cup {o \in Operators : list[o].code = c}
    BY <1>6 DEF MarkUsed
  <2>2. Marked'
    BY <1>2, <1>6, <2>1 DEF Marked
  <2>3. c # "none"
    BY <1>6, CodeTyped, RewardsAssumption
  <2>4. ASSUME NEW o \in Operators, o \notin stale' PROVE list'[o].code \notin used'
    <3>1. list[o].code \notin used /\ list[o].code # c
      BY <2>1, <2>4 DEF NotOfferedAgain
    <3> QED BY <1>1, <2>1, <2>3, <3>1, UsedAreCodes
  <2>5. NotOfferedAgain'
    BY <2>4 DEF NotOfferedAgain
  <2> QED BY <1>3, <1>4, <2>2, <2>5
<1> QED BY <1>5, <1>6

LEMMA UnmarksKeep ==
  ASSUME HandInv, Unmarks
  PROVE  Marked' /\ NotOfferedAgain' /\ ListsMatch' /\ UsedWasShown'
<1> USE DEF HandInv
<1>1. PICK i \in DOMAIN codes :
        UpdateRewardCodeRedeemed(i, FALSE) /\ used' = used \ {codes[i].code}
  BY DEF Unmarks
<1>2. UNCHANGED <<list, links, stale>>
  BY DEF Unmarks
<1>3. /\ DOMAIN codes' = DOMAIN codes
      /\ \A j \in DOMAIN codes : codes'[j].code = codes[j].code /\ (j # i => codes'[j] = codes[j])
      /\ ~codes'[i].redeemed
  <2>1. ~codes'[i].redeemed
    BY <1>1, CodesAsTyped DEF UpdateRewardCodeRedeemed
  <2>2. \E b \in BOOLEAN : UpdateRewardCodeRedeemed(i, b)
    BY <1>1
  <2> QED BY <2>1, <2>2, ColumnTyped
<1>4. Marked'
  BY <1>1, <1>3 DEF Marked
<1>5. NotOfferedAgain'
  BY <1>1, <1>2 DEF NotOfferedAgain
<1>6. ListsMatch'
  BY <1>2, <1>3 DEF ListsMatch, NoCode
<1>7. UsedWasShown'
  BY <1>2, <1>3 DEF UsedWasShown
<1> QED BY <1>4, <1>5, <1>6, <1>7

\* A list that is loaded has a code whose only row is not redeemed.
LEMMA ListsKeep ==
  ASSUME HandInv, Lists
  PROVE  LinksShown' /\ Marked' /\ NotOfferedAgain' /\ ListsMatch' /\ UsedWasShown'
<1> USE DEF HandInv
<1>1. PICK o \in Operators, r \in DOMAIN rewards : TrackerRewardCodes(o, r)
  BY DEF Lists
<1> DEFINE i == Max({0} \cup GetRewardCodes(r))
           p == IF i = 0 THEN NoCode ELSE [reward |-> r, row |-> i, code |-> codes[i].code]
<1>2. /\ list' = [list EXCEPT ![o] = p] /\ links' = links \cup ({i} \ {0})
      /\ stale' = stale \ {o}
      /\ UNCHANGED <<codes, used>>
  BY <1>1 DEF TrackerRewardCodes, tables
<1>3. i # 0 => i \in DOMAIN codes /\ ~codes[i].redeemed
  BY ListedCode
<1> HIDE DEF i
<1>4. NoCode' = NoCode /\ NoCode.code = "none"
  BY DEF NoCode
<1>5. p = NoCode \/ (i \in DOMAIN codes /\ p.row = i /\ p.code = codes[i].code /\ i \in links')
  BY <1>2, <1>3
<1>6. p.code \notin used
  <2>1. CASE p = NoCode
    BY <1>4, <2>1, UsedAreCodes
  <2>2. CASE p # NoCode
    <3>1. i \in DOMAIN codes /\ ~codes[i].redeemed /\ p.code = codes[i].code
      BY <1>3, <1>5, <2>2
    <3> QED BY <3>1 DEF Marked, TypeOK
  <2> QED BY <2>1, <2>2
<1> HIDE DEF p
<1>7. /\ list'[o] = p /\ \A q \in Operators \ {o} : list'[q] = list[q]
      /\ links \subseteq links'
  BY <1>2 DEF TypeOK
<1>8. LinksShown'
  BY <1>4, <1>5, <1>7 DEF LinksShown
<1>9. NotOfferedAgain'
  BY <1>2, <1>6, <1>7 DEF NotOfferedAgain
<1>10. ListsMatch'
  BY <1>2, <1>4, <1>5, <1>7 DEF ListsMatch
<1> QED BY <1>2, <1>7, <1>8, <1>9, <1>10 DEF Marked, UsedWasShown

\* A visit changes no row but its count.
LEMMA VisitsKeep ==
  ASSUME HandInv, Counts
  PROVE  LinksShown' /\ Marked' /\ NotOfferedAgain' /\ ListsMatch' /\ UsedWasShown'
<1> USE DEF HandInv
<1>1. PICK v \in Visitors : CountVisit(v)
  BY DEF Counts
<1> DEFINE i == visit[v].row
<1>2. IncreaseRewardCodeVisitedCount(i) \/ codes' = codes
  BY <1>1 DEF CountVisit
<1>3. UNCHANGED <<list, links, used, stale>>
  BY <1>1 DEF CountVisit
<1> HIDE DEF i
<1>4. /\ DOMAIN codes' = DOMAIN codes
      /\ \A j \in DOMAIN codes : /\ codes'[j].code = codes[j].code
                                 /\ codes'[j].redeemed = codes[j].redeemed
  <2>1. \A j \in DOMAIN codes :
          codes[j] \in [code : Codes, reward : DOMAIN rewards, redeemed : BOOLEAN, visited : Nat]
    BY CodesAsTyped
  <2> QED BY <1>2, <2>1 DEF IncreaseRewardCodeVisitedCount
<1>5. LinksShown' /\ NotOfferedAgain'
  BY <1>3 DEF LinksShown, NotOfferedAgain, NoCode
<1>6. Marked' /\ UsedWasShown'
  BY <1>3, <1>4 DEF Marked, UsedWasShown
<1>7. ListsMatch'
  BY <1>3, <1>4 DEF ListsMatch, NoCode
<1> QED BY <1>5, <1>6, <1>7

LEMMA HandInvInit == Init => HandInv
<1> SUFFICES ASSUME Init PROVE HandInv
  OBVIOUS
<1>1. /\ DOMAIN codes = {} /\ used = {} /\ \A o \in Operators : list[o] = NoCode
  BY DEF Init
<1>2. Marked /\ NotOfferedAgain /\ LinksShown /\ ListsMatch /\ UsedWasShown
  BY <1>1 DEF Marked, NotOfferedAgain, LinksShown, ListsMatch, UsedWasShown
<1> QED BY <1>2, TypeInit DEF HandInv

LEMMA HandInvStep == HandInv /\ [Next]_vars => HandInv'
<1> SUFFICES ASSUME HandInv, [Next]_vars PROVE HandInv'
  OBVIOUS
<1>1. TypeOK' /\ Numbered' /\ Kinds
  BY StepKind DEF HandInv
<1> DEFINE Rest == Marked' /\ NotOfferedAgain' /\ ListsMatch' /\ UsedWasShown'
<1>2. ASSUME list' = list, links \subseteq links' PROVE LinksShown'
  BY <1>2 DEF HandInv, LinksShown, NoCode
<1>3. ASSUME UNCHANGED <<codes, list, used, stale>>, links \subseteq links' PROVE Rest
  BY <1>3 DEF HandInv, Marked, NotOfferedAgain, ListsMatch, UsedWasShown, NoCode
<1>4. CASE Inserts
  <2>1. LinksShown'
    BY <1>2, <1>4 DEF Inserts
  <2> QED BY <1>1, <1>4, <2>1, InsertsKeep DEF HandInv
<1>5. CASE Deletes
  <2>1. LinksShown'
    BY <1>2, <1>5 DEF Deletes
  <2> QED BY <1>1, <1>5, <2>1, DeletesKeep DEF HandInv
<1>6. CASE Marks
  <2>1. LinksShown'
    BY <1>2, <1>6 DEF Marks
  <2>2. PICK i \in links \cap DOMAIN codes : MarkUsed(i, codes[i].code)
    BY <1>6 DEF Marks
  <2>3. links' = links /\ \A o \in Operators : list'[o] \in {list[o], NoCode}
    BY <1>6 DEF Marks
  <2>4. Rest
    BY <2>2, <2>3, UsesKeep
  <2> QED BY <1>1, <2>1, <2>4 DEF HandInv
<1>7. CASE Unmarks
  <2>1. LinksShown'
    BY <1>2, <1>7 DEF Unmarks
  <2> QED BY <1>1, <1>7, <2>1, UnmarksKeep DEF HandInv
<1>8. CASE Nexts
  <2>1. PICK o \in Operators : TrackerRewardCodeNext(o)
    BY <1>8 DEF Nexts
  <2>2. /\ MarkUsed(list[o].row, list[o].code) /\ list[o] # NoCode
        /\ list' = [list EXCEPT ![o] = NoCode] /\ links' = links
    BY <2>1 DEF TrackerRewardCodeNext
  <2>3. /\ \A p \in Operators : list'[p] \in {list[p], NoCode}
    BY <2>2 DEF HandInv, TypeOK
  <2>4. list[o].row \in DOMAIN codes =>
          list[o].row \in links /\ codes[list[o].row].code = list[o].code
    BY <2>2 DEF HandInv, LinksShown, ListsMatch
  <2>5. Rest
    BY <2>2, <2>3, <2>4, UsesKeep
  <2>6. LinksShown'
    BY <2>2, <2>3 DEF HandInv, LinksShown, NoCode
  <2> QED BY <1>1, <2>5, <2>6 DEF HandInv
<1>9. CASE Lists
  BY <1>1, <1>9, ListsKeep DEF HandInv
<1>10. CASE Counts
  BY <1>1, <1>10, VisitsKeep DEF HandInv
<1>11. CASE Opens \/ Reads \/ Redeems \/ Stays
  <2>1. UNCHANGED <<codes, list, used, stale>> /\ links \subseteq links'
    BY <1>11 DEF Opens, Reads, GetRewardCodeByRedeemCode, Redeems, Redeem, Stays, tables
  <2> QED BY <1>1, <1>2, <1>3, <2>1 DEF HandInv
<1> QED
  BY <1>1, <1>4, <1>5, <1>6, <1>7, <1>8, <1>9, <1>10, <1>11 DEF Kinds

\* For any number of operators, codes and rewards, and however often a code is
\* pasted again: a list offers no code that was marked as used before it was
\* loaded, and neither unmarked nor deleted since.
THEOREM CodesAreNotOfferedAgain == Spec => []NotOfferedAgain
<1>1. HandInv => NotOfferedAgain
  BY DEF HandInv
<1> QED BY <1>1, HandInvInit, HandInvStep, PTL DEF Spec

\* No code is marked as used that no page has shown, however old the list is
\* on which "next" is clicked.
THEOREM UsedCodesWereShown == Spec => []UsedWasShown
<1>1. HandInv => UsedWasShown
  BY DEF HandInv
<1> QED BY <1>1, HandInvInit, HandInvStep, PTL DEF Spec

-----------------------------------------------------------------------------
(* Visits are counted. *)

\* The counts of the rows that stay stay as well; a row yet to come has no visits.
LEMMA CountsKept ==
  ASSUME CountInv, \A i : VisitorsOf(i)' = VisitorsOf(i),
         \A i \in DOMAIN codes' \cap DOMAIN codes : codes'[i].visited = codes[i].visited,
         \A i \in DOMAIN codes' \ DOMAIN codes :
           i \in Nat /\ i > serials.code /\ codes'[i].visited = 0
  PROVE  FinitelyVisited' /\ \A i \in DOMAIN codes' : Counted(i)'
<1> USE DEF CountInv
<1>1. FinitelyVisited'
  BY DEF FinitelyVisited
<1>2. ASSUME NEW i \in DOMAIN codes' PROVE Counted(i)'
  <2>1. CASE i \in DOMAIN codes
    BY <2>1 DEF Counted
  <2>2. CASE i \notin DOMAIN codes
    <3>1. VisitorsOf(i) = {}
      <4>1. i \in Nat /\ i > serials.code /\ serials.code \in Nat
        BY <2>2, CodesAsTyped
      <4>2. \A s \in seen : s.row \in 1 .. serials.code
        BY PagesTyped DEF Shown
      <4>3. \A v \in Visitors : visit[v].row \in 0 .. serials.code /\ (visit[v].row = 0 => ~visit[v].counted)
        BY <4>1, PagesTyped DEF Visited, NoVisit
      <4> QED BY <4>1, <4>2, <4>3 DEF VisitorsOf
    <3>2. Cardinality(VisitorsOf(i)) = 0
      BY <3>1, FS_EmptySet
    <3>3. codes'[i].visited = 0
      BY <2>2
    <3> QED BY <3>2, <3>3 DEF Counted
  <2> QED BY <2>1, <2>2
<1> QED BY <1>1, <1>2

\* One visitor more, at most, has been counted in one row.
LEMMA CountsKeepCounts ==
  ASSUME CountInv, Counts
  PROVE  FinitelyVisited' /\ \A i \in DOMAIN codes' : Counted(i)'
<1> USE DEF CountInv
<1>1. PICK v \in Visitors : CountVisit(v)
  BY DEF Counts
<1>2. visit[v] \in [row : 1 .. serials.code, code : Codes, counted : BOOLEAN] /\ seen' = seen
      /\ ~visit[v].counted /\ visit \in [Visitors -> Visited(serials.code)] /\ serials.code \in Nat
  BY <1>1, PagesTyped, CodesAsTyped DEF CountVisit, Visited
<1>3. CASE visit' = [visit EXCEPT ![v] = NoVisit] /\ UNCHANGED codes
  <2>1. \A w \in Visitors \ {v} : visit'[w] = visit[w]
    BY <1>2, <1>3
  <2>2. ~visit'[v].counted /\ ~visit[v].counted
    BY <1>2, <1>3 DEF NoVisit
  <2>3. ASSUME NEW i PROVE VisitorsOf(i)' = VisitorsOf(i)
    <3>1. \A w \in Visitors : (visit'[w].row = i /\ visit'[w].counted) <=> (visit[w].row = i /\ visit[w].counted)
      BY <2>1, <2>2
    <3> QED BY <1>2, <3>1 DEF VisitorsOf
  <2> QED BY <1>3, <2>3, CountsKept
<1>4. CASE /\ IncreaseRewardCodeVisitedCount(visit[v].row)
           /\ visit' = [visit EXCEPT ![v].counted = TRUE]
  <2>1. PICK i \in Nat : visit[v].row = i
    BY <1>2
  <2>2. IncreaseRewardCodeVisitedCount(i)
    BY <1>4, <2>1
  <2>3. /\ visit'[v].row = i /\ visit'[v].counted
        /\ \A w \in Visitors \ {v} : visit'[w] = visit[w]
    <3>1. visit[v] = [row |-> i, code |-> visit[v].code, counted |-> visit[v].counted]
      BY <1>2, <2>1
    <3> QED BY <1>2, <1>4, <3>1
  <2>4. VisitorsOf(i)' = VisitorsOf(i) \cup {v}
    <3>1. \A w \in Visitors : (visit'[w].row = i /\ visit'[w].counted) <=>
                                (w = v \/ (visit[w].row = i /\ visit[w].counted))
      BY <2>3
    <3> QED BY <1>2, <3>1 DEF VisitorsOf
  <2>5. ASSUME NEW j, j # i PROVE VisitorsOf(j)' = VisitorsOf(j)
    <3>1. \A w \in Visitors : (visit'[w].row = j /\ visit'[w].counted) <=> (visit[w].row = j /\ visit[w].counted)
      BY <2>1, <2>3, <2>5
    <3> QED BY <1>2, <3>1 DEF VisitorsOf
  <2>6. /\ IsFiniteSet(VisitorsOf(i)) /\ IsFiniteSet(VisitorsOf(i)')
        /\ Cardinality(VisitorsOf(i)') <= Cardinality(VisitorsOf(i)) + 1
    <3>1. IsFiniteSet(VisitorsOf(i))
      BY <2>1 DEF FinitelyVisited
    <3>2. Cardinality(VisitorsOf(i)) \in Nat
      BY <3>1, FS_CardinalityType
    <3>3. /\ IsFiniteSet(VisitorsOf(i) \cup {v})
          /\ Cardinality(VisitorsOf(i) \cup {v}) =
               IF v \in VisitorsOf(i) THEN Cardinality(VisitorsOf(i)) ELSE Cardinality(VisitorsOf(i)) + 1
      BY <3>1, FS_AddElement
    <3> QED BY <2>4, <3>1, <3>2, <3>3
  <2>7. FinitelyVisited'
    BY <2>5, <2>6 DEF FinitelyVisited
  <2>8. ASSUME NEW j \in DOMAIN codes' PROVE Counted(j)'
    <3>1. j \in DOMAIN codes /\ Counted(j) /\ (j # i => codes'[j] = codes[j])
      BY <2>2, ColumnTyped
    <3>2. CASE j # i
      BY <2>5, <3>1, <3>2 DEF Counted
    <3>3. CASE j = i
      <4>1. codes'[i].visited = codes[i].visited + 1 /\ codes[i].visited \in Nat
        BY <2>2, <3>1, <3>3, CodesAsTyped DEF IncreaseRewardCodeVisitedCount
      <4>2. /\ Cardinality(VisitorsOf(i)) \in Nat /\ Cardinality(VisitorsOf(i)') \in Nat
            /\ Cardinality(VisitorsOf(i)) <= codes[i].visited
        BY <2>6, <3>1, <3>3, FS_CardinalityType DEF Counted
      <4>3. Cardinality(VisitorsOf(i)') <= codes'[i].visited
        BY <2>6, <4>1, <4>2
      <4> QED BY <3>3, <4>3 DEF Counted
    <3> QED BY <3>2, <3>3
  <2> QED BY <2>7, <2>8
<1> QED BY <1>1, <1>3, <1>4 DEF CountVisit

\* Who is shown a code was counted before, and is no visitor more.
LEMMA RedeemsKeepCounts ==
  ASSUME CountInv, Redeems
  PROVE  (\A i : VisitorsOf(i)' = VisitorsOf(i)) /\ codes' = codes
<1> USE DEF CountInv
<1>1. PICK v \in Visitors : Redeem(v)
  BY DEF Redeems
<1> DEFINE t == [visitor |-> v, row |-> visit[v].row, code |-> visit[v].code]
<1>2. /\ visit[v].counted /\ seen' = seen \cup {t}
      /\ visit' = [visit EXCEPT ![v] = NoVisit] /\ codes' = codes
  BY <1>1 DEF Redeem, tables
<1>3. t.visitor = v /\ t.row = visit[v].row
  OBVIOUS
<1> HIDE DEF t
<1>4. ~visit'[v].counted /\ \A w \in Visitors \ {v} : visit'[w] = visit[w]
  BY <1>2, PagesTyped DEF NoVisit
<1>5. ASSUME NEW i PROVE VisitorsOf(i)' = VisitorsOf(i)
  <2>1. {s.visitor : s \in {s \in seen' : s.row = i}} =
          {s.visitor : s \in {s \in seen : s.row = i}} \cup (IF visit[v].row = i THEN {v} ELSE {})
    BY <1>2, <1>3
  <2>2. {w \in Visitors : visit[w].row = i /\ visit[w].counted} =
          {w \in Visitors : visit'[w].row = i /\ visit'[w].counted}
            \cup (IF visit[v].row = i THEN {v} ELSE {})
    BY <1>2, <1>4
  <2> QED BY <2>1, <2>2 DEF VisitorsOf
<1> QED BY <1>2, <1>5

\* A visit begins, and is not counted yet.
LEMMA ReadsKeepCounts ==
  ASSUME CountInv, Reads
  PROVE  (\A i : VisitorsOf(i)' = VisitorsOf(i)) /\ codes' = codes
<1> USE DEF CountInv
<1>1. PICK v \in Visitors, j \in links : GetRewardCodeByRedeemCode(v, j)
  BY DEF Reads
<1>2. /\ visit[v] = NoVisit /\ codes' = codes /\ seen' = seen
      /\ visit' = [visit EXCEPT ![v] = [row |-> j, code |-> codes[j].code, counted |-> FALSE]]
  BY <1>1 DEF GetRewardCodeByRedeemCode, tables
<1>3. /\ ~visit[v].counted /\ ~visit'[v].counted
      /\ \A w \in Visitors \ {v} : visit'[w] = visit[w]
  BY <1>2, PagesTyped DEF NoVisit
<1>4. ASSUME NEW i PROVE VisitorsOf(i)' = VisitorsOf(i)
  <2>1. \A w \in Visitors : (visit'[w].row = i /\ visit'[w].counted) <=> (visit[w].row = i /\ visit[w].counted)
    BY <1>3
  <2> QED BY <1>2, <2>1 DEF VisitorsOf
<1> QED BY <1>2, <1>4

LEMMA CountInvInit == Init => CountInv
<1> SUFFICES ASSUME Init PROVE CountInv
  OBVIOUS
<1>1. DOMAIN codes = {}
  BY DEF Init
<1>2. \A i : VisitorsOf(i) = {}
  BY DEF Init, VisitorsOf, NoVisit
<1> QED BY <1>1, <1>2, TypeInit, FS_EmptySet DEF CountInv, FinitelyVisited

LEMMA CountInvStep == CountInv /\ [Next]_vars => CountInv'
<1> SUFFICES ASSUME CountInv, [Next]_vars PROVE CountInv'
  OBVIOUS
<1> USE DEF CountInv
<1>1. TypeOK' /\ Numbered' /\ Kinds
  BY StepKind
<1>2. CASE Counts
  BY <1>1, <1>2, CountsKeepCounts
<1>3. ASSUME \A i : VisitorsOf(i)' = VisitorsOf(i), DOMAIN codes' \subseteq DOMAIN codes,
             \A i \in DOMAIN codes' : codes'[i].visited = codes[i].visited
      PROVE  CountInv'
  BY <1>1, <1>3, CountsKept
<1>4. CASE Reads \/ Redeems
  BY <1>3, <1>4, ReadsKeepCounts, RedeemsKeepCounts
<1>5. ASSUME UNCHANGED <<visit, seen>> PROVE \A i : VisitorsOf(i)' = VisitorsOf(i)
  BY <1>5 DEF VisitorsOf
<1>6. CASE Inserts
  <2>1. PICK r \in DOMAIN rewards, s \in Seq(Codes) : InsertRewardCodes(r, s)
    BY <1>6 DEF Inserts
  <2>2. /\ \A i \in DOMAIN codes : codes'[i] = codes[i]
        /\ \A i \in DOMAIN codes' \ DOMAIN codes :
             /\ i \in serials.code + 1 .. serials.code + Len(s)
             /\ codes'[i] = [code |-> s[i - serials.code], reward |-> r,
                             redeemed |-> FALSE, visited |-> 0]
    BY <2>1, RowsInserted
  <2>3. ASSUME NEW i \in DOMAIN codes' \ DOMAIN codes
        PROVE  i \in Nat /\ i > serials.code /\ codes'[i].visited = 0
    <3>1. serials.code \in Nat /\ Len(s) \in Nat
      BY CodesAsTyped
    <3>2. i \in serials.code + 1 .. serials.code + Len(s)
      BY <2>2
    <3>3. codes'[i].visited = 0
      BY <2>2
    <3> QED BY <3>1, <3>2, <3>3
  <2>4. UNCHANGED <<visit, seen>>
    BY <1>6 DEF Inserts
  <2> QED BY <1>1, <1>5, <2>2, <2>3, <2>4, CountsKept
<1>7. ASSUME NEW i, NEW b \in BOOLEAN, UpdateRewardCodeRedeemed(i, b), UNCHANGED <<visit, seen>>
      PROVE  CountInv'
  <2>1. \A j \in DOMAIN codes :
          codes[j] \in [code : Codes, reward : DOMAIN rewards, redeemed : BOOLEAN, visited : Nat]
    BY CodesAsTyped
  <2>2. DOMAIN codes' = DOMAIN codes /\ \A j \in DOMAIN codes : codes'[j].visited = codes[j].visited
    BY <1>7, <2>1 DEF UpdateRewardCodeRedeemed
  <2> QED BY <1>3, <1>5, <1>7, <2>2
<1>8. CASE Deletes
  <2>1. UNCHANGED <<visit, seen>> /\ DOMAIN codes' \subseteq DOMAIN codes
        /\ \A i \in DOMAIN codes' : codes'[i] = codes[i]
    BY <1>8 DEF Deletes
  <2> QED BY <1>3, <1>5, <2>1
<1>9. CASE Marks
  BY <1>7, <1>9 DEF Marks, MarkUsed
<1>10. CASE Unmarks
  BY <1>7, <1>10 DEF Unmarks
<1>11. CASE Nexts
  BY <1>7, <1>11 DEF Nexts, TrackerRewardCodeNext, MarkUsed
<1>12. CASE Opens \/ Lists \/ Stays
  <2>1. UNCHANGED <<codes, visit, seen>>
    BY <1>12 DEF Opens, Lists, TrackerRewardCodes, tables, Stays
  <2> QED BY <1>3, <1>5, <2>1
<1> QED
  BY <1>1, <1>2, <1>4, <1>6, <1>8, <1>9, <1>10, <1>11, <1>12 DEF Kinds

\* Every code has one row, in a reward that exists, and a visitor who has seen
\* the code of a row is in its count, whatever was marked or deleted meanwhile.
THEOREM CodesInvariant == Spec => []CodesInv
<1>1. CountInv => CodesInv
  <2> SUFFICES ASSUME CountInv, NEW i \in DOMAIN codes
               PROVE  Cardinality({s.visitor : s \in {s \in seen : s.row = i}}) <= codes[i].visited
    BY DEF CountInv, CodesInv, VisitorsCounted
  <2> DEFINE A == {s.visitor : s \in {s \in seen : s.row = i}}
  <2>1. i \in Nat /\ codes[i].visited \in Nat /\ IsFiniteSet(VisitorsOf(i))
    <3>1. serials.code \in Nat /\ DOMAIN codes \subseteq 1 .. serials.code
      BY CodesAsTyped DEF CountInv
    <3>2. i \in Nat
      BY <3>1
    <3> QED BY <3>2, CodeTyped DEF CountInv, FinitelyVisited
  <2>2. A \subseteq VisitorsOf(i)
    BY DEF VisitorsOf
  <2> HIDE DEF A
  <2>3. IsFiniteSet(A) /\ Cardinality(A) <= Cardinality(VisitorsOf(i))
    BY <2>1, <2>2, FS_Subset
  <2>4. Cardinality(A) \in Nat /\ Cardinality(VisitorsOf(i)) \in Nat
    BY <2>1, <2>3, FS_CardinalityType
  <2>5. Cardinality(VisitorsOf(i)) <= codes[i].visited
    BY DEF CountInv, Counted
  <2>6. Cardinality(A) <= codes[i].visited
    BY <2>1, <2>3, <2>4, <2>5
  <2> QED BY <2>6 DEF A
<1> QED BY <1>1, CountInvInit, CountInvStep, PTL DEF Spec
=============================================================================
