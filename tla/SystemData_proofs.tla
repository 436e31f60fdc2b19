--------------------------- MODULE SystemData_proofs ---------------------------
(***************************************************************************)
(* Theorems about SystemData for any tasks, values, counts and numbers of  *)
(* boots and failures.  The invariant says of each task's save what the    *)
(* flash holds while it is between writing and clearing the mark, and of a *)
(* restart what the flash holds at each of its places.  The ring of tokens  *)
(* comes first: what setting a token does to it and to the others.         *)
(***************************************************************************)
EXTENDS SystemData, TLAPS

-----------------------------------------------------------------------------
(* The ring of tokens.                                                     *)

Entries == [str : Token \cup {""}, os : Os \cup {""}, on : BOOLEAN]
Rings == [head : 0 .. TokenCount - 1, count : 0 .. TokenCount,
          tokens : [0 .. TokenCount - 1 -> Entries]]

\* No token has two places: what is switched off for a phone is off.
Distinct(r) ==
    \A i, j \in 0 .. r.count - 1 : TokenAt(r, i).str = TokenAt(r, j).str => i = j

LEMMA Around ==
  ASSUME NEW n \in Nat \ {0}, NEW x \in 0 .. 2 * n - 1
  PROVE  x % n = IF x < n THEN x ELSE x - n
OBVIOUS

LEMMA PlaceInRing ==
  ASSUME NEW r \in Rings, NEW i \in 0 .. TokenCount
  PROVE  /\ Place(r, i) \in 0 .. TokenCount - 1
         /\ Place(r, i) = IF r.head + i < TokenCount THEN r.head + i
                                                     ELSE r.head + i - TokenCount
<1>1. /\ TokenCount \in Nat \ {0} /\ r.head \in 0 .. TokenCount - 1
      /\ r.head + i \in 0 .. 2 * TokenCount - 1
  BY TokenCountAssumption DEF Rings
<1>2. Place(r, i) = IF r.head + i < TokenCount THEN r.head + i
                                               ELSE r.head + i - TokenCount
  <2> DEFINE x == r.head + i
  <2>1. x \in 0 .. 2 * TokenCount - 1 BY <1>1
  <2>2. Place(r, i) = x % TokenCount BY DEF Place
  <2> HIDE DEF x
  <2>3. x % TokenCount = IF x < TokenCount THEN x ELSE x - TokenCount
    BY <1>1, <2>1, Around
  <2> QED BY <1>1, <2>2, <2>3 DEF x
<1> QED BY <1>1, <1>2

\* Two indices, two places.
LEMMA PlacesDiffer ==
  ASSUME NEW r \in Rings, NEW i \in 0 .. TokenCount - 1, NEW j \in 0 .. TokenCount - 1, i # j
  PROVE  Place(r, i) # Place(r, j)
<1>1. /\ Place(r, i) = IF r.head + i < TokenCount THEN r.head + i ELSE r.head + i - TokenCount
      /\ Place(r, j) = IF r.head + j < TokenCount THEN r.head + j ELSE r.head + j - TokenCount
  BY PlaceInRing, TokenCountAssumption
<1> QED BY <1>1, TokenCountAssumption DEF Rings

\* A search finds the one place of a token.
LEMMA FindsPlace ==
  ASSUME NEW r \in Rings, Distinct(r), NEW t, NEW i \in 0 .. r.count - 1,
         TokenAt(r, i).str = t
  PROVE  FindToken(r, t) = i
<1>1. {index \in 0 .. r.count - 1 : TokenAt(r, index).str = t} = {i} BY DEF Distinct
<1>2. FindToken(r, t) = CHOOSE k \in {i} : \A j \in {i} : k <= j
  BY <1>1 DEF FindToken
<1>3. i \in Int BY DEF Rings
<1> QED BY <1>2, <1>3

LEMMA FindsNothing ==
  ASSUME NEW r, NEW t, \A i \in 0 .. r.count - 1 : TokenAt(r, i).str # t
  PROVE  FindToken(r, t) = -1
<1>1. {index \in 0 .. r.count - 1 : TokenAt(r, index).str = t} = {} OBVIOUS
<1> QED BY <1>1 DEF FindToken

\* What a search finds is the token's place, or it is in no place.
LEMMA Finding ==
  ASSUME NEW r \in Rings, Distinct(r), NEW t
  PROVE  \/ /\ FindToken(r, t) \in 0 .. r.count - 1
            /\ TokenAt(r, FindToken(r, t)).str = t
         \/ /\ FindToken(r, t) = -1
            /\ \A i \in 0 .. r.count - 1 : TokenAt(r, i).str # t
BY FindsPlace, FindsNothing

\* A token that is known keeps its place; only whether it is on changes.
LEMMA SetKnown ==
  ASSUME NEW r \in Rings, Distinct(r), NEW on \in BOOLEAN, NEW os \in Os, NEW t \in Token,
         FindToken(r, t) # -1
  PROVE  LET s == SetToken(r, on, os, t)
             k == FindToken(r, t)
         IN  /\ s \in Rings /\ s.count = r.count
             /\ \A i \in 0 .. r.count - 1 :
                   TokenAt(s, i) = IF i = k THEN [TokenAt(r, i) EXCEPT !.on = on] ELSE TokenAt(r, i)
<1> DEFINE s == SetToken(r, on, os, t)
           k == FindToken(r, t)
           p == Place(r, k)
<1>1. k \in 0 .. r.count - 1 BY Finding
<1>2. /\ r.count \in 0 .. TokenCount /\ r.head \in 0 .. TokenCount - 1
      /\ r.tokens \in [0 .. TokenCount - 1 -> Entries] /\ TokenCount \in Nat \ {0}
  BY TokenCountAssumption DEF Rings
<1>3. k \in 0 .. TokenCount - 1 /\ k \in 0 .. TokenCount BY <1>1, <1>2
<1>4. p \in 0 .. TokenCount - 1 BY <1>3, PlaceInRing
<1>5. s = [r EXCEPT !.tokens = [r.tokens EXCEPT ![p] = [r.tokens[p] EXCEPT !.on = on]]]
  BY DEF SetToken
<1>6. [r.tokens[p] EXCEPT !.on = on] \in Entries
  <2>1. r.tokens[p] \in Entries BY <1>2, <1>4
  <2> HIDE DEF p
  <2> QED BY <2>1 DEF Entries
<1>7. /\ s \in Rings /\ s.count = r.count /\ s.head = r.head
      /\ s.tokens = [r.tokens EXCEPT ![p] = [r.tokens[p] EXCEPT !.on = on]]
  <2> HIDE DEF s, p
  <2> QED BY <1>2, <1>4, <1>5, <1>6 DEF Rings
<1>8. ASSUME NEW i \in 0 .. r.count - 1
      PROVE  TokenAt(s, i) = IF i = k THEN [TokenAt(r, i) EXCEPT !.on = on] ELSE TokenAt(r, i)
  <2>1. i \in 0 .. TokenCount - 1 /\ i \in 0 .. TokenCount BY <1>2
  <2>2. Place(s, i) = Place(r, i) BY <1>7 DEF Place
  <2>3. Place(r, i) \in 0 .. TokenCount - 1 BY <2>1, PlaceInRing
  <2>4. i # k => Place(r, i) # p BY <1>3, <2>1, PlacesDiffer
  <2> HIDE DEF s, k
  <2> QED BY <1>2, <1>4, <1>7, <2>2, <2>3, <2>4 DEF TokenAt
<1> QED BY <1>7, <1>8

\* A new token of a ring with room comes last.
LEMMA SetWithRoom ==
  ASSUME NEW r \in Rings, NEW on \in BOOLEAN, NEW os \in Os, NEW t \in Token,
         FindToken(r, t) = -1, r.count < TokenCount
  PROVE  LET s == SetToken(r, on, os, t)
         IN  /\ s \in Rings /\ s.count = r.count + 1
             /\ TokenAt(s, r.count) = [str |-> t, os |-> os, on |-> on]
             /\ \A i \in 0 .. r.count - 1 : TokenAt(s, i) = TokenAt(r, i)
<1> DEFINE s == SetToken(r, on, os, t)
           p == Place(r, r.count)
           entry == [str |-> t, os |-> os, on |-> on]
<1>1. /\ r.count \in 0 .. TokenCount - 1 /\ r.count \in 0 .. TokenCount
      /\ r.head \in 0 .. TokenCount - 1 /\ r.count + 1 \in 0 .. TokenCount
      /\ r.tokens \in [0 .. TokenCount - 1 -> Entries] /\ TokenCount \in Nat \ {0}
  BY TokenCountAssumption DEF Rings
<1>2. p \in 0 .. TokenCount - 1 BY <1>1, PlaceInRing
<1>3. entry \in Entries BY DEF Entries
<1>4. s = [r EXCEPT !.tokens = [r.tokens EXCEPT ![p] = entry], !.count = r.count + 1]
  BY DEF SetToken
<1>5. /\ s \in Rings /\ s.count = r.count + 1 /\ s.head = r.head
      /\ s.tokens = [r.tokens EXCEPT ![p] = entry]
  <2> HIDE DEF s, p, entry
  <2> QED BY <1>1, <1>2, <1>3, <1>4 DEF Rings
<1>6. TokenAt(s, r.count) = entry
  <2>1. Place(s, r.count) = p BY <1>5 DEF Place
  <2> HIDE DEF s, p, entry
  <2> QED BY <1>1, <1>2, <1>5, <2>1 DEF TokenAt
<1>7. ASSUME NEW i \in 0 .. r.count - 1 PROVE TokenAt(s, i) = TokenAt(r, i)
  <2>1. i \in 0 .. TokenCount - 1 /\ i \in 0 .. TokenCount /\ i # r.count BY <1>1
  <2>2. Place(s, i) = Place(r, i) BY <1>5 DEF Place
  <2>3. Place(r, i) \in 0 .. TokenCount - 1 BY <2>1, PlaceInRing
  <2>4. Place(r, i) # p BY <1>1, <2>1, PlacesDiffer
  <2> HIDE DEF s, p, entry
  <2> QED BY <1>1, <1>2, <1>5, <2>2, <2>3, <2>4 DEF TokenAt
<1> HIDE DEF s
<1> QED BY <1>5, <1>6, <1>7 DEF s

\* A new token of a full ring takes the first place, which becomes the last.
LEMMA SetWhenFull ==
  ASSUME NEW r \in Rings, NEW on \in BOOLEAN, NEW os \in Os, NEW t \in Token,
         FindToken(r, t) = -1, r.count = TokenCount
  PROVE  LET s == SetToken(r, on, os, t)
         IN  /\ s \in Rings /\ s.count = TokenCount
             /\ TokenAt(s, TokenCount - 1) = [str |-> t, os |-> os, on |-> on]
             /\ \A i \in 0 .. TokenCount - 2 : TokenAt(s, i) = TokenAt(r, i + 1)
<1> DEFINE s == SetToken(r, on, os, t)
           entry == [str |-> t, os |-> os, on |-> on]
<1>1. /\ r.head \in 0 .. TokenCount - 1 /\ TokenCount \in Nat \ {0}
      /\ r.tokens \in [0 .. TokenCount - 1 -> Entries]
  BY TokenCountAssumption DEF Rings
<1>2. Place(r, 1) = (r.head + 1) % TokenCount BY DEF Place
<1>3. /\ Place(r, 1) \in 0 .. TokenCount - 1
      /\ Place(r, 1) = IF r.head + 1 < TokenCount THEN r.head + 1 ELSE 0
  <2>1. 1 \in 0 .. TokenCount BY <1>1
  <2>2. /\ Place(r, 1) \in 0 .. TokenCount - 1
        /\ Place(r, 1) = IF r.head + 1 < TokenCount THEN r.head + 1 ELSE r.head + 1 - TokenCount
    BY <2>1, PlaceInRing
  <2> QED BY <1>1, <2>2
<1>4. entry \in Entries BY DEF Entries
<1>5. s = [r EXCEPT !.tokens = [r.tokens EXCEPT ![r.head] = entry], !.head = (r.head + 1) % TokenCount]
  BY <1>1 DEF SetToken
<1>6. /\ s \in Rings /\ s.count = TokenCount /\ s.head = Place(r, 1)
      /\ s.tokens = [r.tokens EXCEPT ![r.head] = entry]
  <2> HIDE DEF s, entry
  <2> QED BY <1>1, <1>2, <1>3, <1>4, <1>5 DEF Rings
<1>7. ASSUME NEW i \in 0 .. TokenCount - 1
      PROVE  Place(s, i) = IF i = TokenCount - 1 THEN r.head ELSE Place(r, i + 1)
  <2>1. i \in 0 .. TokenCount /\ i + 1 \in 0 .. TokenCount BY <1>1
  <2>2. Place(s, i) = IF s.head + i < TokenCount THEN s.head + i ELSE s.head + i - TokenCount
    BY <1>6, <2>1, PlaceInRing
  <2>3. Place(r, i + 1) = IF r.head + (i + 1) < TokenCount THEN r.head + (i + 1)
                                                           ELSE r.head + (i + 1) - TokenCount
    BY <2>1, PlaceInRing
  <2> HIDE DEF s
  <2>4. CASE i = TokenCount - 1
    <3>1. r.head + 1 < TokenCount => Place(s, i) = r.head + 1 + i - TokenCount
      BY <1>1, <1>3, <1>6, <2>2, <2>4
    <3>2. r.head + 1 = TokenCount => Place(s, i) = i
      BY <1>1, <1>3, <1>6, <2>2, <2>4
    <3> QED BY <1>1, <2>4, <3>1, <3>2
  <2>5. CASE i # TokenCount - 1
    <3>1. CASE r.head + 1 < TokenCount
      <4>1. s.head = r.head + 1 /\ i \in 0 .. TokenCount - 2
            /\ r.head \in Int /\ TokenCount \in Int
        BY <1>1, <1>3, <1>6, <2>5, <3>1
      <4>2. r.head + (i + 1) = s.head + i BY <4>1
      <4> QED BY <2>2, <2>3, <2>5, <4>1, <4>2
    <3>2. CASE r.head + 1 = TokenCount
      <4>1. s.head = 0 /\ i \in 0 .. TokenCount - 2 BY <1>1, <1>3, <1>6, <2>5, <3>2
      <4>2. Place(s, i) = i BY <1>1, <2>2, <4>1
      <4>3. Place(r, i + 1) = i BY <1>1, <2>3, <3>2, <4>1
      <4> QED BY <2>5, <4>2, <4>3
    <3> QED BY <1>1, <3>1, <3>2
  <2> QED BY <2>4, <2>5
<1>8. TokenAt(s, TokenCount - 1) = entry
  <2>1. Place(s, TokenCount - 1) = r.head BY <1>1, <1>7
  <2> HIDE DEF s, entry
  <2> QED BY <1>1, <1>6, <2>1 DEF TokenAt
<1>9. ASSUME NEW i \in 0 .. TokenCount - 2 PROVE TokenAt(s, i) = TokenAt(r, i + 1)
  <2>1. i \in 0 .. TokenCount - 1 /\ i # TokenCount - 1 /\ i + 1 \in 0 .. TokenCount - 1
        /\ i + 1 # 0 /\ i + 1 \in 0 .. TokenCount /\ 0 \in 0 .. TokenCount - 1
    BY <1>1
  <2>2. Place(s, i) = Place(r, i + 1) BY <1>7, <2>1
  <2>3. Place(r, i + 1) \in 0 .. TokenCount - 1 BY <2>1, PlaceInRing
  <2>4. Place(r, 0) = r.head BY <1>1 DEF Place
  <2>5. Place(r, i + 1) # r.head BY <2>1, <2>4, PlacesDiffer
  <2> HIDE DEF s, entry
  <2> QED BY <1>1, <1>6, <2>2, <2>3, <2>5 DEF TokenAt
<1> HIDE DEF s
<1> QED BY <1>6, <1>8, <1>9 DEF s

\* Whatever is set, the ring stays one and no token gets a second place.
LEMMA SetKeepsRing ==
  ASSUME NEW r \in Rings, Distinct(r), NEW on \in BOOLEAN, NEW os \in Os, NEW t \in Token
  PROVE  SetToken(r, on, os, t) \in Rings /\ Distinct(SetToken(r, on, os, t))
<1> DEFINE s == SetToken(r, on, os, t)
<1>1. /\ r.count \in 0 .. TokenCount /\ TokenCount \in Nat \ {0}
      /\ \A i \in 0 .. TokenCount - 1 : TokenAt(r, i) \in Entries
  <2>1. ASSUME NEW i \in 0 .. TokenCount - 1 PROVE TokenAt(r, i) \in Entries
    <3>1. Place(r, i) \in 0 .. TokenCount - 1 BY PlaceInRing, TokenCountAssumption
    <3> QED BY <3>1 DEF TokenAt, Rings
  <2> QED BY <2>1, TokenCountAssumption DEF Rings
<1>2. CASE FindToken(r, t) # -1
  <2>1. /\ s \in Rings /\ s.count = r.count
        /\ \A i \in 0 .. r.count - 1 :
              TokenAt(s, i) = IF i = FindToken(r, t) THEN [TokenAt(r, i) EXCEPT !.on = on]
                                                     ELSE TokenAt(r, i)
    BY <1>2, SetKnown
  <2>2. \A i \in 0 .. r.count - 1 : i \in 0 .. TokenCount - 1 BY <1>1
  <2>3. \A i \in 0 .. r.count - 1 : TokenAt(s, i).str = TokenAt(r, i).str
    <3> HIDE DEF s
    <3> QED BY <1>1, <2>1, <2>2 DEF Entries
  <2> HIDE DEF s
  <2> QED BY <2>1, <2>3 DEF Distinct, s
<1>3. CASE FindToken(r, t) = -1
  <2>1. \A i \in 0 .. r.count - 1 : TokenAt(r, i).str # t BY <1>1, <1>3, Finding
  <2>2. CASE r.count < TokenCount
    <3>1. /\ s \in Rings /\ s.count = r.count + 1
          /\ TokenAt(s, r.count) = [str |-> t, os |-> os, on |-> on]
          /\ \A i \in 0 .. r.count - 1 : TokenAt(s, i) = TokenAt(r, i)
      BY <1>3, <2>2, SetWithRoom
    <3>2. \A i \in 0 .. s.count - 1 : i = r.count \/ i \in 0 .. r.count - 1
      BY <1>1, <3>1
    <3> HIDE DEF s
    <3> QED BY <2>1, <3>1, <3>2 DEF Distinct, s
  <2>3. CASE r.count = TokenCount
    <3>1. /\ s \in Rings /\ s.count = TokenCount
          /\ TokenAt(s, TokenCount - 1) = [str |-> t, os |-> os, on |-> on]
          /\ \A i \in 0 .. TokenCount - 2 : TokenAt(s, i) = TokenAt(r, i + 1)
      BY <1>3, <2>3, SetWhenFull
    <3>2. \A i \in 0 .. s.count - 1 :
             i = TokenCount - 1 \/ (i \in 0 .. TokenCount - 2 /\ i + 1 \in 0 .. r.count - 1)
      BY <1>1, <2>3, <3>1
    <3>3. ASSUME NEW i \in 0 .. s.count - 1, NEW j \in 0 .. s.count - 1,
                 TokenAt(s, i).str = TokenAt(s, j).str
          PROVE  i = j
      <4> HIDE DEF s
      <4>1. CASE i = TokenCount - 1 BY <2>1, <3>1, <3>2, <3>3, <4>1
      <4>2. CASE j = TokenCount - 1 BY <2>1, <3>1, <3>2, <3>3, <4>2
      <4>3. CASE i # TokenCount - 1 /\ j # TokenCount - 1
        <5>1. i + 1 = j + 1 BY <3>1, <3>2, <3>3, <4>3 DEF Distinct
        <5> QED BY <5>1
      <4> QED BY <4>1, <4>2, <4>3
    <3> HIDE DEF s
    <3> QED BY <3>1, <3>3 DEF Distinct, s
  <2> QED BY <1>1, <2>2, <2>3
<1> QED BY <1>2, <1>3

\* A token that is set is found, with the state it was set to, and with its system when it
\* was new; the others keep theirs, but for the oldest of a full ring, which a new one replaces.
THEOREM TokenIsSet ==
  ASSUME NEW r \in Rings, Distinct(r), NEW on \in BOOLEAN, NEW os \in Os, NEW t \in Token
  PROVE  LET s == SetToken(r, on, os, t)
             replaced(u) == r.count = TokenCount /\ FindToken(r, t) = -1 /\ FindToken(r, u) = 0
         IN  /\ FindToken(s, t) # -1 /\ TokenAt(s, FindToken(s, t)).on = on
             /\ FindToken(r, t) = -1 => TokenEnabled(s, os, t) = on
             /\ \A u \in Token \ {t} : FindToken(r, u) # -1 /\ ~replaced(u) =>
                  /\ FindToken(s, u) # -1
                  /\ TokenAt(s, FindToken(s, u)) = TokenAt(r, FindToken(r, u))
<1> DEFINE s == SetToken(r, on, os, t)
           replaced(u) == r.count = TokenCount /\ FindToken(r, t) = -1 /\ FindToken(r, u) = 0
<1>1. /\ r.count \in 0 .. TokenCount /\ TokenCount \in Nat \ {0}
      /\ \A i \in 0 .. TokenCount - 1 : TokenAt(r, i) \in Entries
  <2>1. ASSUME NEW i \in 0 .. TokenCount - 1 PROVE TokenAt(r, i) \in Entries
    <3>1. Place(r, i) \in 0 .. TokenCount - 1 BY PlaceInRing, TokenCountAssumption
    <3> QED BY <3>1 DEF TokenAt, Rings
  <2> QED BY <2>1, TokenCountAssumption DEF Rings
<1>2. s \in Rings /\ Distinct(s) BY SetKeepsRing
<1> SUFFICES
      /\ \E i \in 0 .. s.count - 1 :
            /\ TokenAt(s, i).str = t /\ TokenAt(s, i).on = on
            /\ FindToken(r, t) = -1 => TokenAt(s, i).os = os
      /\ \A u \in Token \ {t} : FindToken(r, u) # -1 /\ ~replaced(u) =>
            \E i \in 0 .. s.count - 1 :
               TokenAt(s, i).str = u /\ TokenAt(s, i) = TokenAt(r, FindToken(r, u))
  <2>1. \A u : \A i \in 0 .. s.count - 1 : TokenAt(s, i).str = u => FindToken(s, u) = i
    BY <1>2, FindsPlace
  <2>2. \A i \in 0 .. s.count - 1 : i # -1 OBVIOUS
  <2> HIDE DEF s, replaced
  <2> QED BY <2>1, <2>2 DEF TokenEnabled, s, replaced
<1>3. CASE FindToken(r, t) # -1
  <2>1. /\ s.count = r.count
        /\ \A i \in 0 .. r.count - 1 :
              TokenAt(s, i) = IF i = FindToken(r, t) THEN [TokenAt(r, i) EXCEPT !.on = on]
                                                     ELSE TokenAt(r, i)
    BY <1>3, SetKnown
  <2>2. FindToken(r, t) \in 0 .. r.count - 1 /\ TokenAt(r, FindToken(r, t)).str = t
    BY <1>3, Finding
  <2>3. \A u \in Token \ {t} : FindToken(r, u) # -1 =>
           /\ FindToken(r, u) \in 0 .. r.count - 1 /\ TokenAt(r, FindToken(r, u)).str = u
           /\ FindToken(r, u) # FindToken(r, t)
    BY <2>2, Finding
  <2>4. FindToken(r, t) \in 0 .. TokenCount - 1 BY <1>1, <2>2
  <2> HIDE DEF s, replaced
  <2>5. TokenAt(r, FindToken(r, t)) \in Entries BY <1>1, <2>4
  <2>6. TokenAt(s, FindToken(r, t)) = [TokenAt(r, FindToken(r, t)) EXCEPT !.on = on]
    BY <2>1, <2>2
  <2>7. TokenAt(s, FindToken(r, t)).str = t /\ TokenAt(s, FindToken(r, t)).on = on
    BY <2>2, <2>5, <2>6 DEF Entries
  <2> QED BY <1>3, <2>1, <2>2, <2>3, <2>7
<1>4. CASE FindToken(r, t) = -1 /\ r.count < TokenCount
  <2>1. /\ s.count = r.count + 1
        /\ TokenAt(s, r.count) = [str |-> t, os |-> os, on |-> on]
        /\ \A i \in 0 .. r.count - 1 : TokenAt(s, i) = TokenAt(r, i)
    BY <1>4, SetWithRoom
  <2>2. \A u \in Token \ {t} : FindToken(r, u) # -1 =>
           FindToken(r, u) \in 0 .. r.count - 1 /\ TokenAt(r, FindToken(r, u)).str = u
    BY Finding
  <2>3. r.count \in 0 .. s.count - 1 /\ \A i \in 0 .. r.count - 1 : i \in 0 .. s.count - 1
    BY <1>1, <2>1
  <2> HIDE DEF s
  <2> QED BY <2>1, <2>2, <2>3
<1>5. CASE FindToken(r, t) = -1 /\ r.count = TokenCount
  <2>1. /\ s.count = TokenCount
        /\ TokenAt(s, TokenCount - 1) = [str |-> t, os |-> os, on |-> on]
        /\ \A i \in 0 .. TokenCount - 2 : TokenAt(s, i) = TokenAt(r, i + 1)
    BY <1>5, SetWhenFull
  <2>2. ASSUME NEW u \in Token \ {t}, FindToken(r, u) # -1, ~replaced(u)
        PROVE  \E i \in 0 .. s.count - 1 :
                  TokenAt(s, i).str = u /\ TokenAt(s, i) = TokenAt(r, FindToken(r, u))
    <3>1. /\ FindToken(r, u) \in 0 .. r.count - 1 /\ TokenAt(r, FindToken(r, u)).str = u
          /\ FindToken(r, u) # 0
      BY <1>5, <2>2, Finding
    <3>2. FindToken(r, u) - 1 \in 0 .. TokenCount - 2 /\ FindToken(r, u) - 1 \in 0 .. s.count - 1
          /\ (FindToken(r, u) - 1) + 1 = FindToken(r, u)
      BY <1>1, <1>5, <2>1, <3>1
    <3>3. TokenAt(s, FindToken(r, u) - 1) = TokenAt(r, FindToken(r, u)) BY <2>1, <3>2
    <3> HIDE DEF s
    <3> QED BY <3>1, <3>2, <3>3
  <2>3. TokenCount - 1 \in 0 .. s.count - 1 BY <1>1, <2>1
  <2> HIDE DEF s, replaced
  <2> QED BY <1>5, <2>1, <2>2, <2>3
<1> QED BY <1>1, <1>3, <1>4, <1>5

-----------------------------------------------------------------------------
(* The shape of the settings and of the flash.                             *)

Fields == {"deploy", "name", "pn", "sound", "alert", "tokens", "fan"}

Steps == {"clock", "difference", "load", "store", "keep"}

\* What the variables look like, as far as the arguments below need it.
Shape ==
    /\ DOMAIN at = Actor /\ DOMAIN seen = Actor /\ DOMAIN sum = Actor
    /\ step \in [Actor -> Steps]
    /\ \A t \in Actor : at[t] \notin {"age", "info"} => step[t] = "clock"
    /\ at[Daemon] \notin {"fan", "info", "wifi", "counting"}
    /\ DOMAIN data = Fields
    /\ flash # <<>> => DOMAIN flash[1] = Fields
    /\ wifi \in Conf
    /\ DOMAIN wifiFlash = {"blob", "count"} /\ wifiFlash.blob \in {<<c>> : c \in Conf}
    /\ fails \in Nat

\* What a step of _calculateMaintenance does, whichever it is.
LEMMA AgeingStep ==
  ASSUME NEW t \in Actor, CalculateMaintenance(t)
  PROVE  /\ at[t] \in {"age", "info"}
         /\ UNCHANGED <<data, needToSave, flash, wifiFlash, wifi, fanArg, clock, fails, boots>>
         /\ UNCHANGED <<hit, excused, fanFailed, wifiFailed, kept>>
         /\ \/ at' = at /\ \E next \in Steps : step' = [step EXCEPT ![t] = next]
            \/ /\ at' = [at EXCEPT ![t] = IF at[t] = "age" THEN "write" ELSE "idle"]
               /\ step' = [step EXCEPT ![t] = "clock"]
         /\ seen' = seen \/ \E x : seen' = [seen EXCEPT ![t] = x]
         /\ sum' = sum \/ \E x : sum' = [sum EXCEPT ![t] = x]
<1> USE DEF StepFrom, Steps, ramVars, nvsVars, countVars
<1>1. CASE ReadClock(t) BY <1>1 DEF ReadClock
<1>2. CASE TakeDifference(t) BY <1>2 DEF TakeDifference
<1>3. CASE AddToLife(t) BY <1>3 DEF AddToLife
<1>4. CASE StoreLife(t) BY <1>4 DEF StoreLife
<1>5. CASE KeepSessionLife(t) BY <1>5 DEF KeepSessionLife, Goto
<1> QED BY <1>1, <1>2, <1>3, <1>4, <1>5 DEF CalculateMaintenance

LEMMA DefaultShape == DOMAIN Default = Fields
BY DEF Default, Fields

\* A setting marked for saving is not the fan mode, and a setter keeps the record a record.
LEMMA SettersKeepRest ==
  ASSUME DOMAIN data = Fields, NEW d \in IfChanged \cup Always
  PROVE  DOMAIN d = Fields /\ d.fan = data.fan
<1>1. CASE d \in IfChanged
  BY <1>1 DEF IfChanged, SetDeployMode, SetAlertPnEnabled, SetAlertSoundEnabled, Fields
<1>2. CASE d \in Always
  BY <1>2 DEF Always, SetDeviceName, SetAlert, SetPnToken, Fields
<1> QED BY <1>1, <1>2

LEMMA StoreIsChange ==
  ASSUME DOMAIN data = Fields, NEW t \in Task, NEW d, Store(t, d)
  PROVE  /\ Changes(d) /\ DOMAIN d = Fields /\ d.fan = data.fan
         /\ at[t] = "idle" /\ Goto(t, "mark")
         /\ UNCHANGED <<needToSave, nvsVars, wifi, fanArg, seen, lifeVars, countVars>>
BY SettersKeepRest DEF Store

LEMMA FanValueIsChange ==
  ASSUME DOMAIN data = Fields, NEW t \in Actor, SetFanValue(t)
  PROVE  /\ Changes(FanChanged(t)) /\ DOMAIN FanChanged(t) = Fields
         /\ at[t] = "fan" /\ Goto(t, "age")
         /\ UNCHANGED <<needToSave, nvsVars, wifi, seen, lifeVars, countVars>>
BY DEF SetFanValue, FanChanged, Fields

\* A boot that fails to load what is there is counted, or excused.
LEMMA BootLoads ==
  ASSUME Shape, Boot
  PROVE  /\ DOMAIN data' = Fields
         /\ data' = Stored' \/ (excused' /\ fanFailed')
         /\ fails' = fails => data' = Stored
         /\ flash' = flash \/ flash' = <<>>
         /\ fails' \in Nat
<1>1. PICK failed, erased \in BOOLEAN :
        /\ fails' = IF failed \/ erased THEN fails + 1 ELSE fails
        /\ flash' = IF erased THEN <<>> ELSE flash
        /\ data' = IF failed \/ erased THEN Default ELSE Stored
        /\ excused' = (failed /\ ~erased)
        /\ fanFailed' = (failed /\ ~erased)
  BY DEF Boot, LoadAll, NvsInit
<1>2. /\ Stored = IF flash # <<>> THEN flash[1] ELSE Default
      /\ Stored' = IF flash' # <<>> THEN flash'[1] ELSE Default
  BY DEF Stored, LoadData
<1>3. DOMAIN Stored = Fields BY <1>2, DefaultShape DEF Shape
<1>4. CASE erased BY <1>1, <1>2, <1>4, DefaultShape DEF Shape
<1>5. CASE ~erased /\ failed
  <2>1. excused' /\ fanFailed' BY <1>1, <1>5
  <2> QED BY <1>1, <1>5, <2>1, DefaultShape DEF Shape
<1>6. CASE ~erased /\ ~failed BY <1>1, <1>2, <1>3, <1>6 DEF Shape
<1> QED BY <1>1, <1>4, <1>5, <1>6

LEMMA BootLoadsConf ==
  ASSUME Shape, Boot
  PROVE  /\ wifi' \in Conf /\ wifiFailed' = FALSE
         /\ DOMAIN wifiFlash' = {"blob", "count"} /\ wifiFlash'.blob = <<wifi'>>
<1>1. PICK failed, erased \in BOOLEAN : LoadConfig(failed, erased) BY DEF Boot
<1>2. PICK c \in Conf : wifiFlash.blob = <<c>> BY DEF Shape
<1>3. CASE ~failed /\ ~erased /\ wifiFlash.count # 0
  <2>1. StoredConf = c BY <1>2, <1>3 DEF StoredConf, LoadData
  <2> QED BY <1>1, <1>2, <1>3, <2>1 DEF LoadConfig, Shape
<1>4. CASE ~(~failed /\ ~erased /\ wifiFlash.count # 0)
  BY <1>1, <1>4, DefaultsAssumption DEF LoadConfig
<1> QED BY <1>3, <1>4

LEMMA ShapeInductive == Spec => []Shape
<1>1. Init => Shape
  BY DefaultShape, DefaultsAssumption, DataAssumption DEF Init, Shape, NoLocals, Actor, Steps
<1>2. ASSUME Shape, [Next]_dataVars PROVE Shape'
  <2> USE DEF Actor
  <2>1. CASE UNCHANGED dataVars
    BY <1>2, <2>1 DEF dataVars, ramVars, nvsVars, countVars, lifeVars, Shape
  <2>2. ASSUME NEW t \in Task, NEW d, Store(t, d) PROVE Shape'
    <3>1. t \in Actor /\ t # Daemon BY DataAssumption
    <3> QED BY <1>2, <2>2, <3>1, StoreIsChange
            DEF Shape, Changes, Goto, nvsVars, countVars, lifeVars
  <2>3. ASSUME NEW t \in Task, NEW arg, SetFanMode(t, arg) PROVE Shape'
    <3>1. t \in Actor /\ t # Daemon BY DataAssumption
    <3> QED BY <1>2, <2>3, <3>1 DEF SetFanMode, Shape, Changes, Goto, nvsVars, countVars, lifeVars
  <2>4. ASSUME NEW t \in Task, (\E conf \in Conf : SetWifi(t, conf)) \/ AskLife(t) PROVE Shape'
    <3>1. t \in Actor /\ t # Daemon BY DataAssumption
    <3> QED BY <1>2, <2>4, <3>1
            DEF SetWifi, AskLife, Shape, Goto, ramVars, nvsVars, countVars, lifeVars
  <2>5. ASSUME NEW t \in Actor, SetFanValue(t) PROVE Shape'
    BY <1>2, <2>5, FanValueIsChange DEF Shape, Changes, Goto, nvsVars, countVars, lifeVars
  <2>6. ASSUME NEW t \in Actor, Mark(t) \/ ClearMark(t) PROVE Shape'
    BY <1>2, <2>6 DEF Mark, ClearMark, Shape, Goto, ramVars, nvsVars, countVars, lifeVars
  <2>7. ASSUME NEW t \in Actor, CalculateMaintenance(t) PROVE Shape'
    <3>1. /\ at[t] \in {"age", "info"} /\ t \in DOMAIN at
          /\ UNCHANGED <<data, flash, wifiFlash, wifi, fails>>
          /\ \/ at' = at /\ \E next \in Steps : step' = [step EXCEPT ![t] = next]
             \/ /\ at' = [at EXCEPT ![t] = IF at[t] = "age" THEN "write" ELSE "idle"]
                /\ step' = [step EXCEPT ![t] = "clock"]
      BY <1>2, <2>7, AgeingStep DEF Shape
    <3>2. DOMAIN at' = Actor /\ DOMAIN seen' = Actor /\ DOMAIN sum' = Actor
      BY <1>2, <2>7, AgeingStep DEF Shape
    <3>3. step' \in [Actor -> Steps] BY <1>2, <3>1 DEF Shape, Steps
    <3>4. \A u \in Actor : at'[u] \notin {"age", "info"} => step'[u] = "clock"
      BY <1>2, <3>1 DEF Shape
    <3>5. at'[Daemon] \notin {"fan", "info", "wifi", "counting"} BY <1>2, <3>1 DEF Shape
    <3> QED BY <1>2, <3>1, <3>2, <3>3, <3>4, <3>5 DEF Shape
  <2>8. ASSUME NEW t \in Actor, WriteBlob(t) PROVE Shape'
    BY <1>2, <2>8 DEF WriteBlob, Shape, Goto, ramVars, lifeVars
  <2>9. ASSUME NEW t \in Actor, SaveConfig(t) \/ SaveCount(t) PROVE Shape'
    <3>1. CASE SaveConfig(t) BY <1>2, <2>9, <3>1 DEF SaveConfig, Shape, Goto, ramVars, lifeVars
    <3>2. CASE SaveCount(t)
      BY <1>2, <2>9, <3>2 DEF SaveCount, Shape, Goto, ramVars, countVars, lifeVars
    <3> QED BY <2>9, <3>1, <3>2
  <2>10. CASE RestartBegins \/ SaveMemoryData \/ Tick
    BY <1>2, <2>10 DEF RestartBegins, SaveMemoryData, Tick, Shape, Goto, ramVars, nvsVars,
                       countVars, lifeVars
  <2>11. CASE Boot
    <3>1. /\ DOMAIN at' = Actor /\ DOMAIN seen' = Actor /\ at'[Daemon] = "idle"
          /\ DOMAIN sum' = Actor /\ step' \in [Actor -> Steps]
          /\ \A t \in Actor : step'[t] = "clock"
      BY <2>11 DEF Boot, NoLocals, Actor, Steps
    <3> QED BY <1>2, <2>11, <3>1, BootLoads, BootLoadsConf DEF Shape
  <2> QED BY <1>2, <2>1, <2>2, <2>3, <2>4, <2>5, <2>6, <2>7, <2>8, <2>9, <2>10, <2>11
          DEF Next, Begin, Continue, Surroundings
<1> QED BY <1>1, <1>2, PTL DEF Spec

-----------------------------------------------------------------------------
(* Settings and their saves.                                               *)

Unsaved == needToSave \/ data = Stored \/ \E t \in Task : Pending(t)

\* A task that has written the settings, and during whose save nobody has
\* changed any, has left the flash up to date.
WrittenIsStored == \A u \in Actor : at[u] = "clear" /\ u \notin hit => data = Stored

\* The fan mode is in the flash, or on its way there.
FanSaved ==
    \/ Stored.fan = data.fan
    \/ \E t \in Task : at[t] \in {"fan", "age", "write"}

SaveInv ==
    /\ ~excused => Unsaved /\ WrittenIsStored
    /\ ~fanFailed => FanSaved

\* A step that leaves settings, flash and the saves' places alone.
LEMMA AsideKeepsSaves ==
  ASSUME SaveInv, UNCHANGED <<data, flash, hit, excused, fanFailed>>,
         needToSave => needToSave',
         \A t \in Task : Pending(t) => Pending(t)',
         \A t \in Task : at[t] \in {"fan", "age", "write"}
                           => at'[t] \in {"fan", "age", "write"},
         \A u \in Actor : at'[u] = "clear" => at[u] = "clear"
  PROVE  SaveInv'
<1>1. Stored' = Stored BY DEF Stored, LoadData
<1> QED BY <1>1 DEF SaveInv, Unsaved, WrittenIsStored, FanSaved

\* A change of the settings by a task that has not marked or saved it yet.
LEMMA ChangeKeepsSaves ==
  ASSUME SaveInv, Shape, NEW t \in Task, NEW d, NEW place, Changes(d), Goto(t, place),
         place \in {"mark", "fan", "age"}, flash' = flash,
         ~fanFailed => d.fan = data.fan \/ place # "mark",
         place = "mark" => at[t] = "idle"
  PROVE  SaveInv'
<1> USE DEF Actor
<1>1. /\ data' = d /\ excused' = excused /\ fanFailed' = fanFailed
      /\ hit' = hit \cup {u \in Actor : at[u] = "clear"}
      /\ at' = [at EXCEPT ![t] = place] /\ t \in DOMAIN at
  BY DEF Changes, Goto, Shape
<1>2. Unsaved' BY <1>1 DEF Unsaved, Pending
<1>3. WrittenIsStored' BY <1>1 DEF WrittenIsStored
<1>4. ~fanFailed' => FanSaved'
  <2>1. Stored' = Stored BY DEF Stored, LoadData
  <2>2. CASE place # "mark" BY <1>1, <2>2 DEF FanSaved
  <2>3. CASE place = "mark" BY <1>1, <2>1, <2>3 DEF FanSaved, SaveInv
  <2> QED BY <2>2, <2>3
<1> QED BY <1>2, <1>3, <1>4 DEF SaveInv

LEMMA WriteKeepsSaves ==
  ASSUME SaveInv, Shape, NEW t \in Actor, WriteBlob(t) PROVE SaveInv'
<1>1. /\ data' = data /\ at[t] = "write" /\ at' = [at EXCEPT ![t] = "clear"]
      /\ needToSave' = needToSave
  BY DEF WriteBlob, Goto, ramVars
<1>2. CASE flash' = <<data>> /\ ~excused' /\ ~fanFailed'
  <2>1. Stored' = data' BY <1>1, <1>2 DEF Stored, LoadData
  <2> QED BY <1>1, <2>1 DEF SaveInv, Unsaved, WrittenIsStored, FanSaved
<1>3. CASE excused' /\ fanFailed' = (fanFailed \/ t # Daemon) /\ flash' = flash
  <2>1. Stored' = Stored BY <1>3 DEF Stored, LoadData
  <2>2. ASSUME ~fanFailed' PROVE FanSaved'
    <3>1. ~fanFailed /\ t = Daemon BY <1>3, <2>2
    <3>2. \A u \in Task : at'[u] = at[u] BY <1>1, <3>1, DataAssumption DEF Shape, Actor
    <3> QED BY <1>1, <2>1, <3>1, <3>2 DEF SaveInv, FanSaved
  <2> QED BY <1>3, <2>2 DEF SaveInv
<1> QED BY <1>2, <1>3 DEF WriteBlob

LEMMA ClearKeepsSaves ==
  ASSUME SaveInv, Shape, NEW t \in Actor, ClearMark(t) PROVE SaveInv'
<1>1. /\ data' = data /\ flash' = flash /\ fanFailed' = fanFailed /\ at[t] = "clear"
      /\ at' = [at EXCEPT ![t] = IF t = Daemon THEN "pause" ELSE "idle"]
      /\ excused' = (excused \/ t \in hit) /\ hit' = hit \ {t}
      /\ t \in DOMAIN at
  BY DEF ClearMark, Goto, nvsVars, Shape
<1>2. Stored' = Stored BY <1>1 DEF Stored, LoadData
<1>3. ASSUME ~excused' PROVE Unsaved' /\ WrittenIsStored'
  <2>1. data = Stored BY <1>1, <1>3 DEF SaveInv, WrittenIsStored
  <2> QED BY <1>1, <1>2, <2>1 DEF Unsaved, WrittenIsStored
<1>4. ASSUME ~fanFailed' PROVE FanSaved'
  BY <1>1, <1>2, <1>4 DEF SaveInv, FanSaved, Shape, Actor
<1> QED BY <1>3, <1>4 DEF SaveInv

LEMMA SaveInductive == Spec => []SaveInv
<1>1. Init => SaveInv
  BY DEF Init, SaveInv, Unsaved, WrittenIsStored, FanSaved, Stored, LoadData
<1>2. ASSUME SaveInv, Shape, Shape', [Next]_dataVars PROVE SaveInv'
  <2> USE DEF Actor, Pending
  <2>1. CASE UNCHANGED dataVars
    BY <1>2, <2>1, AsideKeepsSaves DEF dataVars, ramVars, nvsVars, histVars
  <2>2. ASSUME NEW t \in Task, NEW d, Store(t, d) PROVE SaveInv'
    BY <1>2, <2>2, StoreIsChange, ChangeKeepsSaves DEF Shape, nvsVars
  <2>3. ASSUME NEW t \in Task, NEW arg, SetFanMode(t, arg) PROVE SaveInv'
    BY <1>2, <2>3, ChangeKeepsSaves DEF SetFanMode, nvsVars
  <2>4. ASSUME NEW t \in Actor, SetFanValue(t) PROVE SaveInv'
    <3>1. t \in Task BY <1>2, <2>4 DEF SetFanValue, Shape
    <3> QED BY <1>2, <2>4, <3>1, ChangeKeepsSaves DEF SetFanValue, nvsVars
  <2>5. ASSUME NEW t \in Task, (\E conf \in Conf : SetWifi(t, conf)) \/ AskLife(t) PROVE SaveInv'
    BY <1>2, <2>5, AsideKeepsSaves
       DEF SetWifi, AskLife, Goto, Shape, ramVars, nvsVars, histVars
  <2>6. ASSUME NEW t \in Actor, Mark(t) PROVE SaveInv'
    <3>1. /\ needToSave' /\ at[t] = "mark" /\ UNCHANGED <<data, flash, hit, excused, fanFailed>>
          /\ at' = [at EXCEPT ![t] = IF t = Daemon THEN "test" ELSE "idle"]
      BY <2>6 DEF Mark, Goto, nvsVars, histVars
    <3>2. Stored' = Stored BY <3>1 DEF Stored, LoadData
    <3> QED BY <1>2, <3>1, <3>2 DEF SaveInv, Unsaved, WrittenIsStored, FanSaved, Shape
  <2>7. ASSUME NEW t \in Actor, CalculateMaintenance(t) PROVE SaveInv'
    <3>1. /\ at[t] \in {"age", "info"} /\ t \in DOMAIN at
          /\ UNCHANGED <<data, needToSave, flash, hit, excused, fanFailed>>
          /\ at' = at \/ at' = [at EXCEPT ![t] = IF at[t] = "age" THEN "write" ELSE "idle"]
      BY <1>2, <2>7, AgeingStep DEF Shape
    <3>2. t \in Task => (at[t] = "age" <=> Pending(t))
      BY <3>1 DEF Pending
    <3>3. /\ \A u \in Actor : at'[u] = "clear" => at[u] = "clear"
          /\ \A u \in Task : at[u] \in {"fan", "age", "write"} => at'[u] \in {"fan", "age", "write"}
          /\ \A u \in Task : Pending(u) => Pending(u)'
      BY <1>2, <3>1, <3>2 DEF Pending, Shape
    <3> QED BY <1>2, <3>1, <3>3, AsideKeepsSaves
  <2>8. ASSUME NEW t \in Actor, SaveConfig(t) \/ SaveCount(t) PROVE SaveInv'
    BY <1>2, <2>8, AsideKeepsSaves
       DEF SaveConfig, SaveCount, Goto, Shape, ramVars, nvsVars, histVars
  <2>9. CASE RestartBegins \/ SaveMemoryData \/ Tick
    BY <1>2, <2>9, AsideKeepsSaves, DataAssumption
       DEF RestartBegins, SaveMemoryData, Tick, Goto, Shape, ramVars, nvsVars, histVars
  <2>10. CASE Boot
    <3>1. data' = Stored' \/ (excused' /\ fanFailed') BY <1>2, <2>10, BootLoads
    <3> QED BY <3>1 DEF SaveInv, Unsaved, WrittenIsStored, FanSaved
  <2> QED BY <1>2, <2>1, <2>2, <2>3, <2>4, <2>5, <2>6, <2>7, <2>8, <2>9, <2>10,
             WriteKeepsSaves, ClearKeepsSaves DEF Next, Begin, Continue, Surroundings
<1> QED BY <1>1, <1>2, ShapeInductive, PTL DEF Spec

\* For any number of tasks and commands: a changed setting is never forgotten, unless a
\* save failed or was overlapped by a change.
THEOREM DataSettingsKept == Spec => []SettingsKept
<1>1. SaveInv => SettingsKept BY DEF SaveInv, Unsaved, SettingsKept
<1> QED BY <1>1, SaveInductive, PTL

-----------------------------------------------------------------------------
(* What is saved at once.                                                  *)

ConfSaved == wifiFlash.blob = <<wifi>> \/ \E t \in Task : at[t] = "wifi"

ConfInv == ~wifiFailed => ConfSaved

LEMMA ConfInductive == Spec => []ConfInv
<1>1. Init => ConfInv BY DEF Init, ConfInv, ConfSaved
<1>2. ASSUME ConfInv, Shape, [Next]_dataVars PROVE ConfInv'
  <2> USE DEF Actor, ConfInv, ConfSaved
  <2>1. CASE UNCHANGED dataVars BY <1>2, <2>1 DEF dataVars, nvsVars, histVars
  <2>2. ASSUME NEW t \in Task, NEW conf, SetWifi(t, conf) PROVE ConfInv'
    BY <1>2, <2>2 DEF SetWifi, Goto, Shape
  <2>3. ASSUME NEW t \in Actor, SaveConfig(t) PROVE ConfInv'
    <3>1. CASE wifiFailed' BY <3>1
    <3>2. CASE wifiFlash' = [wifiFlash EXCEPT !.blob = <<wifi>>] /\ wifi' = wifi
      BY <1>2, <3>2 DEF Shape
    <3> QED BY <2>3, <3>1, <3>2 DEF SaveConfig
  <2>4. ASSUME NEW t \in Actor, SaveCount(t) PROVE ConfInv'
    <3>1. /\ wifiFlash'.blob = wifiFlash.blob /\ wifi' = wifi /\ wifiFailed' = wifiFailed
          /\ at[t] = "counting" /\ at' = [at EXCEPT ![t] = "idle"]
      BY <1>2, <2>4 DEF SaveCount, Goto, histVars, Shape
    <3> QED BY <1>2, <3>1 DEF Shape
  <2>5. CASE Boot BY <1>2, <2>5, BootLoadsConf
  <2>6. ASSUME UNCHANGED <<wifi, wifiFlash, wifiFailed>>,
               \A t \in Task : at[t] = "wifi" => at'[t] = "wifi"
        PROVE  ConfInv'
    BY <1>2, <2>6
  <2>7. ASSUME NEW t \in Task, (\E d : Store(t, d)) \/ (\E arg : SetFanMode(t, arg)) \/ AskLife(t)
        PROVE  ConfInv'
    BY <1>2, <2>6, <2>7
       DEF Store, SetFanMode, AskLife, Changes, Goto, Shape, nvsVars, histVars
  <2>8. ASSUME NEW t \in Actor, \/ Mark(t) \/ SetFanValue(t) \/ WriteBlob(t) \/ ClearMark(t)
        PROVE  ConfInv'
    BY <1>2, <2>6, <2>8
       DEF Mark, SetFanValue, WriteBlob, ClearMark, Changes, Goto, Shape, nvsVars, histVars
  <2>10. ASSUME NEW t \in Actor, CalculateMaintenance(t) PROVE ConfInv'
    BY <1>2, <2>6, <2>10, AgeingStep DEF Shape
  <2>9. CASE RestartBegins \/ SaveMemoryData \/ Tick
    BY <1>2, <2>6, <2>9, DataAssumption
       DEF RestartBegins, SaveMemoryData, Tick, Goto, Shape, nvsVars, histVars
  <2> QED BY <1>2, <2>1, <2>2, <2>3, <2>4, <2>5, <2>7, <2>8, <2>9, <2>10
          DEF Next, Begin, Continue, Surroundings
<1> QED BY <1>1, <1>2, ShapeInductive, PTL DEF Spec

\* For any number of tasks and commands: the fan mode and the Wi-Fi configuration
\* survive any boot once their command is through, as SavedAtOnce says.
THEOREM DataSavedAtOnce == Spec => []SavedAtOnce
<1>1. ASSUME SaveInv, ConfInv, Shape PROVE SavedAtOnce
  <2>1. PICK c \in Conf : wifiFlash.blob = <<c>> BY <1>1 DEF Shape
  <2>2. wifiFlash.count # 0 => StoredConf = c BY <2>1 DEF StoredConf, LoadData
  <2>3. ASSUME ~wifiFailed, \A t \in Task : at[t] # "wifi" PROVE wifi = c
    BY <1>1, <2>1, <2>3 DEF ConfInv, ConfSaved
  <2>4. ASSUME ~fanFailed, \A t \in Task : at[t] \notin {"fan", "age", "write"}
        PROVE  Stored.fan = data.fan
    BY <1>1, <2>4 DEF SaveInv, FanSaved
  <2> QED BY <2>2, <2>3, <2>4 DEF SavedAtOnce
<1> QED BY <1>1, SaveInductive, ConfInductive, ShapeInductive, PTL

-----------------------------------------------------------------------------
(* The lifetimes.                                                          *)

\* One task alone at the lifetimes: what it has computed so far, from a life and a session
\* that are equal until it stores the sum.
Alone ==
    /\ \A t, u \in Actor : Ageing(t) /\ Ageing(u) => t = u
    /\ (\A t \in Actor : step[t] # "keep") => life.all = life.session
    /\ \A t \in Actor : /\ step[t] = "load" => sum[t] = seen[t] - life.session
                        /\ step[t] = "store" => sum[t] = seen[t]
                        /\ step[t] = "keep" => life.all = seen[t]

LifeInv ==
    /\ clock \in Int /\ life = [all |-> life.all, session |-> life.session]
    /\ life.all \in Int /\ life.session \in Int
    /\ \A t \in Actor : /\ Ageing(t) => seen[t] \in Int
                        /\ step[t] \in {"load", "store"} => sum[t] \in Int
    /\ ~twice => Alone

LEMMA AsideKeepsLife ==
  ASSUME LifeInv, UNCHANGED <<life, twice, step, sum>>, clock' \in Int,
         \A t \in Actor : Ageing(t) => seen'[t] = seen[t]
  PROVE  LifeInv'
<1>1. \A t \in Actor : step[t] \in {"load", "store", "keep"} => Ageing(t) BY DEF Ageing
<1>2. \A t \in Actor : Ageing(t)' <=> Ageing(t) BY DEF Ageing
<1>3. ~twice' => Alone' BY <1>1, <1>2 DEF LifeInv, Alone
<1> QED BY <1>2, <1>3 DEF LifeInv

LEMMA ReadKeepsLife ==
  ASSUME LifeInv, Shape, NEW t \in Actor, ReadClock(t) PROVE LifeInv'
<1>1. /\ step[t] = "clock" /\ step' = [step EXCEPT ![t] = "difference"] /\ UNCHANGED <<clock, life, sum>>
      /\ seen' = [seen EXCEPT ![t] = clock] /\ twice' = (twice \/ \E u \in Actor : Ageing(u))
  BY DEF ReadClock, StepFrom
<1>2. /\ step'[t] = "difference" /\ seen'[t] = clock
      /\ \A u \in Actor \ {t} : step'[u] = step[u] /\ seen'[u] = seen[u]
  BY <1>1 DEF Shape
<1>3. ASSUME ~twice' PROVE Alone'
  <2>1. Alone /\ \A u \in Actor : step[u] = "clock" BY <1>1, <1>3 DEF LifeInv, Ageing
  <2> QED BY <1>1, <1>2, <2>1 DEF Alone, Ageing
<1> QED BY <1>1, <1>2, <1>3 DEF LifeInv, Ageing

\* The steps of a task that is at it already.
LEMMA StepKeepsLife ==
  ASSUME LifeInv, Shape, NEW t \in Actor,
         TakeDifference(t) \/ AddToLife(t) \/ StoreLife(t) \/ KeepSessionLife(t)
  PROVE  LifeInv'
<1>1. seen[t] \in Int /\ Ageing(t) /\ clock' = clock /\ twice' = twice
  BY DEF TakeDifference, AddToLife, StoreLife, KeepSessionLife, StepFrom, LifeInv, Ageing
<1>2. ASSUME ~twice PROVE Alone /\ \A u \in Actor \ {t} : step[u] = "clock"
  BY <1>1, <1>2 DEF LifeInv, Alone, Ageing
<1>3. CASE TakeDifference(t)
  <2>1. /\ step[t] = "difference" /\ step'[t] = "load" /\ sum'[t] = seen[t] - life.session
        /\ \A u \in Actor \ {t} : step'[u] = step[u] /\ sum'[u] = sum[u]
        /\ life' = life /\ seen' = seen
    BY <1>3 DEF TakeDifference, StepFrom, Shape
  <2>2. ~twice => Alone' BY <1>2, <2>1 DEF Alone, Ageing
  <2>3. sum'[t] \in Int BY <1>1, <2>1 DEF LifeInv
  <2> QED BY <1>1, <2>1, <2>2, <2>3 DEF LifeInv, Ageing
<1>4. CASE AddToLife(t)
  <2>1. /\ step[t] = "load" /\ step'[t] = "store" /\ sum'[t] = sum[t] + life.all
        /\ \A u \in Actor \ {t} : step'[u] = step[u] /\ sum'[u] = sum[u]
        /\ life' = life /\ seen' = seen
    BY <1>4 DEF AddToLife, StepFrom, Shape
  <2>2. sum[t] \in Int /\ life.all \in Int /\ life.session \in Int BY <2>1 DEF LifeInv
  <2>3. ASSUME ~twice PROVE Alone'
    <3>1. \A u \in Actor : step[u] # "keep" BY <1>2, <2>1, <2>3
    <3>2. sum'[t] = seen[t] BY <1>1, <1>2, <2>1, <2>2, <2>3, <3>1 DEF Alone
    <3> QED BY <1>2, <2>1, <2>3, <3>1, <3>2 DEF Alone, Ageing
  <2> QED BY <1>1, <2>1, <2>2, <2>3 DEF LifeInv, Ageing
<1>5. CASE StoreLife(t)
  <2>1. /\ step[t] = "store" /\ step'[t] = "keep" /\ life' = [life EXCEPT !.all = sum[t]]
        /\ \A u \in Actor \ {t} : step'[u] = step[u] /\ sum'[u] = sum[u]
        /\ seen' = seen
    BY <1>5 DEF StoreLife, StepFrom, Shape
  <2>2. /\ sum[t] \in Int /\ life'.all = sum[t] /\ life'.session = life.session
        /\ life' = [all |-> life'.all, session |-> life'.session]
    BY <2>1 DEF LifeInv
  <2>3. ~twice => Alone' BY <1>2, <2>1, <2>2 DEF Alone, Ageing
  <2> QED BY <1>1, <2>1, <2>2, <2>3 DEF LifeInv, Ageing
<1>6. CASE KeepSessionLife(t)
  <2>1. /\ step[t] = "keep" /\ step'[t] = "clock" /\ life' = [life EXCEPT !.session = seen[t]]
        /\ \A u \in Actor \ {t} : step'[u] = step[u] /\ seen'[u] = seen[u]
        /\ sum' = sum
    BY <1>6 DEF KeepSessionLife, StepFrom, Shape
  <2>2. /\ life'.all = life.all /\ life'.session = seen[t]
        /\ life' = [all |-> life'.all, session |-> life'.session]
    BY <2>1 DEF LifeInv
  <2>3. ~twice => Alone' BY <1>2, <2>1, <2>2 DEF Alone, Ageing
  <2> QED BY <1>1, <2>1, <2>2, <2>3 DEF LifeInv, Ageing
<1> QED BY <1>3, <1>4, <1>5, <1>6

LEMMA LifeInductive == Spec => []LifeInv
<1>1. Init => LifeInv
  <2> SUFFICES ASSUME Init PROVE LifeInv OBVIOUS
  <2>1. \A t \in Actor : step[t] = "clock" BY DEF Init, NoLocals
  <2> QED BY <2>1 DEF Init, LifeInv, Alone, Ageing
<1>2. ASSUME LifeInv, Shape, [Next]_dataVars PROVE LifeInv'
  <2>1. CASE UNCHANGED dataVars
    BY <1>2, <2>1, AsideKeepsLife DEF dataVars, lifeVars, histVars, LifeInv
  <2>2. ASSUME NEW t \in Task, \/ (\E d : Store(t, d)) \/ (\E arg : SetFanMode(t, arg))
                               \/ (\E conf : SetWifi(t, conf)) \/ AskLife(t)
        PROVE  LifeInv'
    <3>1. UNCHANGED <<life, clock, twice, seen, step, sum>>
      BY <2>2 DEF Store, SetFanMode, SetWifi, AskLife, Changes, lifeVars, histVars
    <3> QED BY <1>2, <3>1, AsideKeepsLife DEF LifeInv
  <2>3. ASSUME NEW t \in Actor, \/ Mark(t) \/ SetFanValue(t) \/ WriteBlob(t)
                                \/ ClearMark(t) \/ SaveCount(t) \/ SaveConfig(t)
        PROVE  LifeInv'
    <3>1. /\ UNCHANGED <<life, clock, twice, step, sum>> /\ ~Ageing(t)
          /\ \A u \in Actor \ {t} : seen'[u] = seen[u]
      BY <1>2, <2>3 DEF Mark, SetFanValue, WriteBlob, ClearMark, SaveCount, SaveConfig, Changes,
                        lifeVars, histVars, Shape, Ageing
    <3> QED BY <1>2, <3>1, AsideKeepsLife DEF LifeInv
  <2>4. CASE RestartBegins \/ SaveMemoryData
    <3>1. UNCHANGED <<life, clock, twice, seen, step, sum>>
      BY <2>4 DEF RestartBegins, SaveMemoryData, lifeVars, histVars
    <3> QED BY <1>2, <3>1, AsideKeepsLife DEF LifeInv
  <2>5. CASE Tick
    BY <1>2, <2>5, AsideKeepsLife DEF Tick, histVars, LifeInv
  <2>6. CASE Boot
    <3>1. /\ \A t \in Actor : step'[t] = "clock"
          /\ clock' = 0 /\ life' = [all |-> 0, session |-> 0]
      BY <2>6 DEF Boot, NoLocals
    <3> QED BY <3>1 DEF LifeInv, Alone, Ageing
  <2> QED BY <1>2, <2>1, <2>2, <2>3, <2>4, <2>5, <2>6, ReadKeepsLife, StepKeepsLife
          DEF Next, Begin, Continue, Surroundings, CalculateMaintenance, Actor
<1> QED BY <1>1, <1>2, ShapeInductive, PTL DEF Spec

\* For any number of tasks and any times: the device's life is counted exactly, until two
\* tasks bring it up to date at once.
THEOREM DataLifeCounted == Spec => []LifeCounted
<1>1. ASSUME LifeInv PROVE LifeCounted
  <2>1. (\A t \in Actor : ~Ageing(t)) => \A t \in Actor : step[t] # "keep" BY DEF Ageing
  <2> QED BY <1>1, <2>1 DEF LifeInv, Alone, LifeCounted
<1> QED BY <1>1, LifeInductive, PTL

-----------------------------------------------------------------------------
(* A restart.                                                              *)

InKept(d) == \A f \in Fields : d[f] \in kept[f]

\* At each place of a restart: the settings are among those it has seen, and once
\* it need not save any more, so are those in the flash.
RestartInv ==
    /\ at[Daemon] # "idle" => DOMAIN kept = Fields /\ InKept(data)
    /\ at[Daemon] \in {"clear", "pause"} /\ ~excused => InKept(Stored)
    /\ at[Daemon] = "test" /\ ~excused => needToSave \/ InKept(Stored)

LEMMA ChangeKeepsRestart ==
  ASSUME RestartInv, Shape, NEW t \in Actor, t # Daemon, NEW d, NEW place,
         Changes(d), Goto(t, place), DOMAIN d = Fields,
         UNCHANGED <<flash, needToSave>>
  PROVE  RestartInv'
<1>1. /\ at'[Daemon] = at[Daemon] /\ data' = d /\ excused' = excused
      /\ at[Daemon] # "idle" => kept' = [f \in Fields |-> kept[f] \cup {d[f]}]
  BY DEF Changes, Goto, Shape, Actor
<1>2. Stored' = Stored BY DEF Stored, LoadData
<1>3. ASSUME at[Daemon] # "idle"
      PROVE  DOMAIN kept' = Fields /\ InKept(data)' /\ (InKept(Stored) => InKept(Stored)')
  BY <1>1, <1>2, <1>3 DEF InKept
<1> QED BY <1>1, <1>3 DEF RestartInv

LEMMA AsideKeepsRestart ==
  ASSUME RestartInv, UNCHANGED <<data, needToSave, flash, kept, excused>>, at'[Daemon] = at[Daemon]
  PROVE  RestartInv'
<1>1. Stored' = Stored BY DEF Stored, LoadData
<1> QED BY <1>1 DEF RestartInv, InKept

LEMMA WriteKeepsRestart ==
  ASSUME RestartInv, Shape, NEW t \in Actor, WriteBlob(t) PROVE RestartInv'
<1>1. /\ data' = data /\ kept' = kept /\ needToSave' = needToSave
      /\ at[t] = "write" /\ at' = [at EXCEPT ![t] = "clear"] /\ t \in DOMAIN at
      /\ Daemon \in DOMAIN at
  BY DEF WriteBlob, Goto, ramVars, Shape, Actor
<1>2. at'[Daemon] # "idle" => DOMAIN kept = Fields /\ InKept(data)
  BY <1>1 DEF RestartInv
<1>3. CASE flash' = <<data>>
  <2>1. Stored' = data BY <1>3 DEF Stored, LoadData
  <2> QED BY <1>1, <1>2, <2>1 DEF RestartInv, InKept
<1>4. CASE excused' BY <1>1, <1>2, <1>4 DEF RestartInv, InKept
<1> QED BY <1>3, <1>4 DEF WriteBlob

LEMMA ClearKeepsRestart ==
  ASSUME RestartInv, SaveInv, Shape, NEW t \in Actor, ClearMark(t) PROVE RestartInv'
<1>1. /\ UNCHANGED <<data, flash, kept>> /\ at[t] = "clear"
      /\ at' = [at EXCEPT ![t] = IF t = Daemon THEN "pause" ELSE "idle"]
      /\ excused' = (excused \/ t \in hit) /\ t \in DOMAIN at /\ Daemon \in DOMAIN at
  BY DEF ClearMark, Goto, nvsVars, Shape, Actor
<1>2. Stored' = Stored BY <1>1 DEF Stored, LoadData
<1>3. at'[Daemon] # "idle" => DOMAIN kept = Fields /\ InKept(data)
  BY <1>1 DEF RestartInv
<1>4. ~excused' => ~excused /\ data = Stored
  BY <1>1 DEF SaveInv, WrittenIsStored
<1> QED BY <1>1, <1>2, <1>3, <1>4 DEF RestartInv, InKept

LEMMA RestartInductive == Spec => []RestartInv
<1>1. Init => RestartInv BY DEF Init, RestartInv, Actor
<1>2. ASSUME RestartInv, SaveInv, Shape, [Next]_dataVars PROVE RestartInv'
  <2> USE DEF Actor
  <2>1. CASE UNCHANGED dataVars
    BY <1>2, <2>1, AsideKeepsRestart DEF dataVars, ramVars, nvsVars, histVars
  <2>2. ASSUME NEW t \in Task, NEW d, Store(t, d) PROVE RestartInv'
    BY <1>2, <2>2, DataAssumption, StoreIsChange, ChangeKeepsRestart DEF Shape, nvsVars
  <2>3. ASSUME NEW t \in Task, NEW arg, SetFanMode(t, arg) PROVE RestartInv'
    <3>1. DOMAIN [data EXCEPT !.fan.mode = arg.mode] = Fields BY <1>2 DEF Shape
    <3> QED BY <1>2, <2>3, <3>1, DataAssumption, ChangeKeepsRestart DEF SetFanMode, nvsVars
  <2>4. ASSUME NEW t \in Actor, SetFanValue(t) PROVE RestartInv'
    <3>1. t # Daemon BY <1>2, <2>4 DEF SetFanValue, Shape
    <3> QED BY <1>2, <2>4, <3>1, FanValueIsChange, ChangeKeepsRestart DEF Shape, nvsVars
  <2>5. ASSUME NEW t \in Task, (\E conf : SetWifi(t, conf)) \/ AskLife(t) PROVE RestartInv'
    BY <1>2, <2>5, DataAssumption, AsideKeepsRestart
       DEF SetWifi, AskLife, Goto, Shape, ramVars, nvsVars, histVars
  <2>6. ASSUME NEW t \in Actor, Mark(t) PROVE RestartInv'
    <3>1. /\ UNCHANGED <<data, flash, kept, excused>> /\ needToSave' /\ at[t] = "mark"
          /\ at' = [at EXCEPT ![t] = IF t = Daemon THEN "test" ELSE "idle"]
      BY <2>6 DEF Mark, Goto, nvsVars, histVars
    <3>2. Stored' = Stored BY <3>1 DEF Stored, LoadData
    <3> QED BY <1>2, <3>1, <3>2 DEF RestartInv, InKept, Shape
  <2>7. ASSUME NEW t \in Actor, CalculateMaintenance(t) PROVE RestartInv'
    <3>1. /\ UNCHANGED <<data, needToSave, flash, kept, excused>>
          /\ at[t] \in {"age", "info"}
          /\ at' = at \/ at' = [at EXCEPT ![t] = IF at[t] = "age" THEN "write" ELSE "idle"]
      BY <2>7, AgeingStep
    <3>2. Stored' = Stored BY <3>1 DEF Stored, LoadData
    <3> QED BY <1>2, <3>1, <3>2 DEF RestartInv, InKept, Shape
  <2>8. ASSUME NEW t \in Actor, SaveConfig(t) \/ SaveCount(t) PROVE RestartInv'
    <3>1. t # Daemon BY <1>2, <2>8 DEF SaveConfig, SaveCount, Shape
    <3> QED BY <1>2, <2>8, <3>1, AsideKeepsRestart
            DEF SaveConfig, SaveCount, Goto, Shape, ramVars, nvsVars, histVars
  <2>9. CASE RestartBegins
    <3>1. DOMAIN kept' = Fields /\ data' = data /\ InKept(data)' /\ at'[Daemon] = "mark"
      BY <1>2, <2>9 DEF RestartBegins, Goto, Shape, InKept, ramVars
    <3> QED BY <3>1 DEF RestartInv
  <2>10. CASE SaveMemoryData
    <3>1. /\ UNCHANGED <<data, needToSave, flash, kept, excused>> /\ at[Daemon] = "test"
          /\ at'[Daemon] = IF needToSave THEN "age" ELSE "pause"
      BY <1>2, <2>10 DEF SaveMemoryData, Goto, Shape, ramVars, nvsVars, histVars
    <3>2. Stored' = Stored BY <3>1 DEF Stored, LoadData
    <3> QED BY <1>2, <3>1, <3>2 DEF RestartInv, InKept
  <2>11. CASE Tick
    BY <1>2, <2>11, AsideKeepsRestart DEF Tick, ramVars, nvsVars, histVars
  <2>12. CASE Boot BY <2>12 DEF Boot, RestartInv
  <2> QED BY <1>2, <2>1, <2>2, <2>3, <2>4, <2>5, <2>6, <2>7, <2>8, <2>9, <2>10, <2>11, <2>12,
             WriteKeepsRestart, ClearKeepsRestart DEF Next, Begin, Continue, Surroundings
<1> QED BY <1>1, <1>2, SaveInductive, ShapeInductive, PTL DEF Spec

\* For any number of tasks and commands: an orderly restart takes no setting back to
\* a value older than those it had when the restart began.
THEOREM DataRestartKeeps == Spec => RestartKeeps
<1> DEFINE Keeps == boots' # boots /\ at[Daemon] = "pause" /\ ~excused /\ fails' = fails
                      => \A f \in DOMAIN data : data'[f] \in kept[f]
<1>1. ASSUME RestartInv, Shape, [Next]_dataVars PROVE [Keeps]_dataVars
  <2>1. CASE Boot
    <3>1. fails' = fails => data' = Stored BY <1>1, <2>1, BootLoads
    <3> QED BY <1>1, <3>1 DEF RestartInv, InKept, Shape
  <2>2. ASSUME NEW t \in Task, Begin(t) PROVE boots' = boots
    BY <2>2 DEF Begin, Store, SetFanMode, SetWifi, AskLife, countVars
  <2>3. ASSUME NEW t \in Actor, Continue(t) PROVE boots' = boots
    BY <2>3, AgeingStep
       DEF Continue, Mark, SetFanValue, WriteBlob, ClearMark, SaveConfig, SaveCount, countVars
  <2>4. CASE RestartBegins \/ SaveMemoryData \/ Tick
    BY <2>4 DEF RestartBegins, SaveMemoryData, Tick, countVars
  <2> QED BY <1>1, <2>1, <2>2, <2>3, <2>4 DEF Next, Surroundings
<1>2. Spec => [][Keeps]_dataVars
  BY <1>1, RestartInductive, ShapeInductive, PTL DEF Spec
<1> QED BY <1>2 DEF RestartKeeps
-----------------------------------------------------------------------------
(* Types: of the settings, of their copy in the flash, and of the tokens    *)
(* among them, which keep one place each.                                  *)

FanValues == [mode : FanModes, thr : Threshold, min : Threshold]

Typed(d) ==
    /\ DOMAIN d = Fields
    /\ d.deploy \in DeployModes /\ d.name \in Name /\ d.alert \in Alert
    /\ d.pn \in BOOLEAN /\ d.sound \in BOOLEAN /\ d.fan \in FanValues
    /\ d.tokens \in Rings /\ Distinct(d.tokens)

Places == {"idle", "mark", "fan", "age", "write", "clear", "info", "wifi", "counting",
           "test", "pause"}

\* The save count a task has read is one until the task has stored the next.
DataTyped ==
    /\ Typed(data) /\ (flash # <<>> => Typed(flash[1]))
    /\ needToSave \in BOOLEAN
    /\ wifiFlash.count \in 0 .. Counts - 1
    /\ at \in [Actor -> Places] /\ hit \subseteq Actor
    /\ fanArg \in [Task -> FanValues]
    /\ \A t \in Actor : at[t] = "counting" => seen[t] \in Nat

LEMMA DefaultTyped == Typed(Default)
<1>1. NoTokens \in Rings /\ Distinct(NoTokens)
  <2>1. Empty \in Entries BY DEF Empty, Entries
  <2>2. NoTokens \in Rings BY <2>1, TokenCountAssumption DEF NoTokens, Rings
  <2>3. NoTokens.count = 0 BY DEF NoTokens
  <2> QED BY <2>2, <2>3 DEF Distinct
<1> QED BY <1>1, DefaultShape, DefaultsAssumption
        DEF Typed, Default, DeployModes, FanValues, FanModes

LEMMA SettersTyped ==
  ASSUME Typed(data), NEW d \in IfChanged \cup Always PROVE Typed(d)
<1> USE DEF Typed, Fields
<1>1. CASE d \in {SetDeployMode(m) : m \in DeployModes} BY <1>1 DEF SetDeployMode
<1>2. CASE d \in {SetAlertPnEnabled(b) : b \in BOOLEAN} BY <1>2 DEF SetAlertPnEnabled
<1>3. CASE d \in {SetAlertSoundEnabled(b) : b \in BOOLEAN} BY <1>3 DEF SetAlertSoundEnabled
<1>4. CASE d \in {SetDeviceName(n) : n \in Name} BY <1>4 DEF SetDeviceName
<1>5. CASE d \in {SetAlert(a) : a \in Alert} BY <1>5 DEF SetAlert
<1>6. ASSUME NEW b \in BOOLEAN, NEW os \in Os, NEW t \in Token PROVE Typed(SetPnToken(b, os, t))
  <2>1. SetToken(data.tokens, b, os, t) \in Rings /\ Distinct(SetToken(data.tokens, b, os, t))
    BY SetKeepsRing
  <2> QED BY <2>1 DEF SetPnToken
<1> QED BY <1>1, <1>2, <1>3, <1>4, <1>5, <1>6 DEF IfChanged, Always

\* The two steps of a change of the fan mode.
LEMMA FanTyped ==
  ASSUME Typed(data), fanArg \in [Task -> FanValues], NEW t \in Task, NEW arg \in FanArgs
  PROVE  /\ arg \in FanValues /\ Typed([data EXCEPT !.fan.mode = arg.mode])
         /\ Typed(FanChanged(t))
<1>1. arg \in FanValues BY DefaultsAssumption DEF FanArgs, FanValues, FanModes
<1>2. DOMAIN data = Fields /\ data.fan \in FanValues BY DEF Typed
<1>3. fanArg[t] \in FanValues OBVIOUS
<1>4. [data.fan EXCEPT !.mode = arg.mode] \in FanValues BY <1>1, <1>2 DEF FanValues
<1>5. Typed([data EXCEPT !.fan.mode = arg.mode])
  <2>1. [data EXCEPT !.fan.mode = arg.mode] = [data EXCEPT !.fan = [data.fan EXCEPT !.mode = arg.mode]]
    OBVIOUS
  <2> QED BY <1>2, <1>4, <2>1 DEF Typed, Fields
<1>6. Typed(FanChanged(t))
  <2> DEFINE thr == IF fanArg[t].mode = "auto" THEN fanArg[t].thr ELSE data.fan.thr
             min == IF fanArg[t].mode = "delay" THEN fanArg[t].min ELSE data.fan.min
  <2>1. thr \in Threshold /\ min \in Threshold BY <1>2, <1>3 DEF FanValues
  <2>2. /\ DOMAIN FanChanged(t) = Fields
        /\ \A f \in Fields \ {"fan"} : FanChanged(t)[f] = data[f]
        /\ FanChanged(t).fan = [data.fan EXCEPT !.thr = thr, !.min = min]
    BY <1>2 DEF FanChanged, Fields
  <2> HIDE DEF thr, min
  <2>3. [data.fan EXCEPT !.thr = thr, !.min = min] \in FanValues
    BY <1>2, <2>1 DEF FanValues
  <2> QED BY <2>2, <2>3 DEF Typed, Fields
<1> QED BY <1>1, <1>5, <1>6

\* What a boot loads has its type.
LEMMA BootTyped ==
  ASSUME Shape, DataTyped, Boot
  PROVE  /\ Typed(data') /\ (flash' # <<>> => Typed(flash'[1]))
         /\ wifiFlash'.count \in 0 .. Counts - 1
<1>1. Typed(Stored) BY DefaultTyped DEF Stored, LoadData, DataTyped
<1>2. PICK failed, erased \in BOOLEAN : LoadAll(failed, erased) /\ LoadConfig(failed, erased)
  BY DEF Boot
<1>3. Typed(data') BY <1>1, <1>2, DefaultTyped DEF LoadAll
<1>4. flash' # <<>> => Typed(flash'[1]) BY <1>2 DEF LoadAll, NvsInit, DataTyped
<1>5. \A n \in Nat : NextCount(n) \in 0 .. Counts - 1 BY DataAssumption DEF NextCount
<1>6. wifiFlash.count \in Nat /\ 0 \in Nat BY DataAssumption DEF DataTyped
<1>7. wifiFlash'.count \in 0 .. Counts - 1
  BY <1>2, <1>5, <1>6 DEF LoadConfig, DataTyped
<1> QED BY <1>3, <1>4, <1>7

\* A change of the settings to typed ones, by a task that goes on to its next place.
LEMMA ChangeKeepsTypes ==
  ASSUME DataTyped, Shape, NEW t \in Actor, NEW d, Typed(d), NEW place \in Places \ {"counting"},
         Changes(d), Goto(t, place), UNCHANGED <<needToSave, nvsVars, seen>>,
         fanArg' \in [Task -> FanValues]
  PROVE  DataTyped'
<1>1. at' \in [Actor -> Places] /\ hit' \subseteq Actor
  BY DEF DataTyped, Goto, Changes
<1>2. \A u \in Actor : at'[u] = "counting" => seen'[u] \in Nat
  BY DEF DataTyped, Goto
<1>3. flash' = flash /\ wifiFlash' = wifiFlash /\ data' = d BY DEF nvsVars, Changes
<1> QED BY <1>1, <1>2, <1>3 DEF DataTyped

\* A step that leaves the settings and the flash alone.
LEMMA AsideKeepsTypes ==
  ASSUME DataTyped, UNCHANGED <<data, flash, fanArg>>, needToSave' \in BOOLEAN,
         wifiFlash'.count \in 0 .. Counts - 1, hit' \subseteq Actor,
         NEW t \in Actor, NEW place \in Places, Goto(t, place),
         place = "counting" => seen'[t] \in Nat, \A u \in Actor \ {t} : seen'[u] = seen[u]
  PROVE  DataTyped'
<1>1. at' = [at EXCEPT ![t] = place] /\ at \in [Actor -> Places] BY DEF DataTyped, Goto
<1>2. at' \in [Actor -> Places] BY <1>1
<1>3. ASSUME NEW u \in Actor, at'[u] = "counting" PROVE seen'[u] \in Nat
  <2>1. CASE u = t BY <1>1, <1>3, <2>1
  <2>2. CASE u # t BY <1>1, <1>3, <2>2 DEF DataTyped
  <2> QED BY <2>1, <2>2
<1> QED BY <1>2, <1>3 DEF DataTyped

LEMMA TypesInductive == Spec => []DataTyped
<1>1. Init => DataTyped
  <2> SUFFICES ASSUME Init PROVE DataTyped OBVIOUS
  <2>1. Typed(data) /\ flash = <<>> BY DefaultTyped DEF Init
  <2>2. wifiFlash.count \in 0 .. Counts - 1 BY DataAssumption DEF Init
  <2>3. Default.fan \in FanValues BY DefaultTyped DEF Typed
  <2>4. fanArg \in [Task -> FanValues] BY <2>3 DEF Init, NoLocals
  <2>5. at \in [Actor -> Places] /\ hit \subseteq Actor /\ needToSave \in BOOLEAN
        /\ \A t \in Actor : at[t] = "idle"
    BY DEF Init, Places
  <2> QED BY <2>1, <2>2, <2>4, <2>5 DEF DataTyped
<1>2. ASSUME DataTyped, Shape, [Next]_dataVars PROVE DataTyped'
  <2> USE DEF Actor
  <2>1. CASE UNCHANGED dataVars
    BY <1>2, <2>1 DEF dataVars, ramVars, nvsVars, histVars, DataTyped
  <2>2. ASSUME NEW t \in Task, NEW d \in IfChanged \cup Always, Store(t, d) PROVE DataTyped'
    <3>1. Typed(d) BY <1>2, SettersTyped DEF DataTyped
    <3>2. fanArg' \in [Task -> FanValues] BY <1>2, <2>2 DEF Store, DataTyped
    <3> QED BY <1>2, <2>2, <3>1, <3>2, ChangeKeepsTypes DEF Store, Places
  <2>3. ASSUME NEW t \in Task, NEW arg \in FanArgs, SetFanMode(t, arg) PROVE DataTyped'
    <3>1. arg \in FanValues /\ Typed([data EXCEPT !.fan.mode = arg.mode])
      BY <1>2, FanTyped DEF DataTyped
    <3>2. fanArg' \in [Task -> FanValues] BY <1>2, <2>3, <3>1 DEF SetFanMode, DataTyped
    <3>3. "fan" \in Places \ {"counting"} BY DEF Places
    <3>4. /\ Changes([data EXCEPT !.fan.mode = arg.mode]) /\ Goto(t, "fan")
          /\ UNCHANGED <<needToSave, nvsVars, seen>>
      BY <2>3 DEF SetFanMode
    <3> QED BY <1>2, <3>1, <3>2, <3>3, <3>4, ChangeKeepsTypes
  <2>4. ASSUME NEW t \in Actor, SetFanValue(t) PROVE DataTyped'
    <3>1. t \in Task BY <1>2, <2>4 DEF SetFanValue, Shape
    <3>2. Typed(FanChanged(t))
      <4>1. [mode |-> "on", thr |-> DefaultThreshold, min |-> DefaultThreshold] \in FanArgs
        BY DEF FanArgs
      <4> QED BY <1>2, <3>1, <4>1, FanTyped DEF DataTyped
    <3>3. Default.fan \in FanValues BY DefaultTyped DEF Typed
    <3>4. fanArg' \in [Task -> FanValues] BY <1>2, <2>4, <3>3 DEF SetFanValue, DataTyped
    <3>5. /\ "age" \in Places \ {"counting"} /\ Changes(FanChanged(t)) /\ Goto(t, "age")
          /\ UNCHANGED <<needToSave, nvsVars, seen>>
      BY <2>4 DEF SetFanValue, Places
    <3> QED BY <1>2, <3>2, <3>4, <3>5, ChangeKeepsTypes
  <2>5. ASSUME NEW t \in Task, (\E conf \in Conf : SetWifi(t, conf)) \/ AskLife(t)
        PROVE  DataTyped'
    BY <1>2, <2>5, AsideKeepsTypes
       DEF SetWifi, AskLife, ramVars, nvsVars, histVars, DataTyped, Places
  <2>6. ASSUME NEW t \in Actor, Mark(t) \/ ClearMark(t) PROVE DataTyped'
    BY <1>2, <2>6, AsideKeepsTypes
       DEF Mark, ClearMark, nvsVars, histVars, DataTyped, Places
  <2>7. ASSUME NEW t \in Actor, CalculateMaintenance(t) PROVE DataTyped'
    <3>1. \A u \in Actor \ {t} : seen'[u] = seen[u]
      BY <1>2, <2>7, AgeingStep DEF Shape
    <3>2. at[t] \in {"age", "info"} /\ at[t] \in Places BY <2>7, AgeingStep DEF Places
    <3>3. at' = at \/ at' = [at EXCEPT ![t] = IF at[t] = "age" THEN "write" ELSE "idle"]
      BY <2>7, AgeingStep
    <3>4. \E place \in Places \ {"counting"} : at' = [at EXCEPT ![t] = place]
      <4>1. CASE at' = at
        <5>1. at' = [at EXCEPT ![t] = at[t]] BY <1>2, <4>1 DEF DataTyped
        <5> QED BY <3>2, <5>1
      <4>2. CASE at' = [at EXCEPT ![t] = IF at[t] = "age" THEN "write" ELSE "idle"]
        <5>1. CASE at[t] = "age"
          <6>1. at' = [at EXCEPT ![t] = "write"] BY <4>2, <5>1
          <6> QED BY <6>1 DEF Places
        <5>2. CASE at[t] # "age"
          <6>1. at' = [at EXCEPT ![t] = "idle"] BY <4>2, <5>2
          <6> QED BY <6>1 DEF Places
        <5> QED BY <5>1, <5>2
      <4> QED BY <3>3, <4>1, <4>2
    <3>5. UNCHANGED <<data, flash, fanArg, needToSave, wifiFlash, hit>>
      BY <2>7, AgeingStep
    <3> HIDE <3>2, <3>3
    <3> QED BY <1>2, <3>1, <3>4, <3>5, AsideKeepsTypes DEF DataTyped, Goto
  <2>8. ASSUME NEW t \in Actor, WriteBlob(t) PROVE DataTyped'
    <3>1. at' = [at EXCEPT ![t] = "clear"] /\ UNCHANGED <<data, needToSave, wifiFlash, fanArg, seen, hit>>
      BY <2>8 DEF WriteBlob, Goto, ramVars
    <3>2. at' \in [Actor -> Places] /\ \A u \in Actor : at'[u] = "counting" => seen'[u] \in Nat
      BY <1>2, <3>1 DEF DataTyped, Places
    <3>3. flash' = <<data>> \/ flash' = flash BY <2>8 DEF WriteBlob
    <3> QED BY <1>2, <3>1, <3>2, <3>3 DEF DataTyped
  <2>9. ASSUME NEW t \in Actor, SaveConfig(t) PROVE DataTyped'
    <3>1. /\ UNCHANGED <<data, flash, fanArg, needToSave, hit>> /\ wifiFlash'.count = wifiFlash.count
          /\ \A u \in Actor \ {t} : seen'[u] = seen[u]
      BY <1>2, <2>9 DEF SaveConfig, ramVars, Shape
    <3>2. wifiFlash.count \in Nat BY <1>2, DataAssumption DEF DataTyped
    <3>3. \/ Goto(t, "counting") /\ seen'[t] \in Nat
          \/ Goto(t, "idle")
      BY <1>2, <2>9, <3>2 DEF SaveConfig, Shape
    <3> QED BY <1>2, <3>1, <3>3, AsideKeepsTypes DEF DataTyped, Places
  <2>10. ASSUME NEW t \in Actor, SaveCount(t) PROVE DataTyped'
    <3>1. seen[t] \in Nat BY <1>2, <2>10 DEF SaveCount, DataTyped
    <3>2. NextCount(seen[t]) \in 0 .. Counts - 1 BY <3>1, DataAssumption DEF NextCount
    <3>3. wifiFlash'.count \in 0 .. Counts - 1 BY <1>2, <2>10, <3>2 DEF SaveCount, Shape
    <3>4. /\ UNCHANGED <<data, flash, fanArg, needToSave, hit>> /\ Goto(t, "idle")
          /\ \A u \in Actor \ {t} : seen'[u] = seen[u]
      BY <1>2, <2>10 DEF SaveCount, ramVars, histVars, Shape
    <3> QED BY <1>2, <3>3, <3>4, AsideKeepsTypes DEF DataTyped, Places
  <2>11. CASE RestartBegins \/ SaveMemoryData
    <3>1. /\ \E place \in Places \ {"counting"} : Goto(Daemon, place)
          /\ UNCHANGED <<data, flash, fanArg, needToSave, wifiFlash, hit, seen>>
      BY <2>11 DEF RestartBegins, SaveMemoryData, ramVars, nvsVars, histVars, Places
    <3> QED BY <1>2, <3>1, AsideKeepsTypes DEF DataTyped
  <2>12. CASE Tick
    BY <1>2, <2>12 DEF Tick, ramVars, nvsVars, histVars, DataTyped
  <2>13. CASE Boot
    <3>1. Default.fan \in FanValues BY DefaultTyped DEF Typed
    <3>2. /\ at' = [t \in Actor |-> "idle"] /\ hit' = {} /\ needToSave' = FALSE
          /\ fanArg' = [t \in Task |-> Default.fan]
      BY <2>13 DEF Boot, NoLocals
    <3>3. at' \in [Actor -> Places] /\ hit' \subseteq Actor /\ fanArg' \in [Task -> FanValues]
          /\ \A t \in Actor : at'[t] # "counting"
      BY <3>1, <3>2 DEF Places
    <3> QED BY <1>2, <2>13, <3>2, <3>3, BootTyped DEF DataTyped
  <2> QED BY <1>2, <2>1, <2>2, <2>3, <2>4, <2>5, <2>6, <2>7, <2>8, <2>9, <2>10, <2>11, <2>12,
             <2>13 DEF Next, Begin, Continue, Surroundings
<1> QED BY <1>1, <1>2, ShapeInductive, PTL DEF Spec

\* For any number of tasks and of saves: settings, configuration and save count keep their
\* types, and the ring of tokens its indices, through changes, saves, failures and boots.
THEOREM DataTypeCorrect == Spec => []TypeOK
<1>1. DataTyped /\ Shape => TypeOK
  <2> SUFFICES ASSUME DataTyped, Shape PROVE TypeOK OBVIOUS
  <2>1. /\ data.tokens.head \in 0 .. TokenCount - 1 /\ data.tokens.count \in 0 .. TokenCount
    BY DEF DataTyped, Typed, Rings
  <2> QED BY <2>1, DefaultShape DEF DataTyped, Typed, Shape, TypeOK, Places, Steps, FanValues
<1> QED BY <1>1, TypesInductive, ShapeInductive, PTL

\* No token ever has two places in the ring, in RAM or in the flash, so that what the user
\* switches off for a phone stays off (setToken looks for the first place only).
THEOREM DataTokensDistinct ==
  Spec => [](Distinct(data.tokens) /\ (flash # <<>> => Distinct(flash[1].tokens)))
<1>1. DataTyped => Distinct(data.tokens) /\ (flash # <<>> => Distinct(flash[1].tokens))
  BY DEF DataTyped, Typed
<1> QED BY <1>1, TypesInductive, PTL
=============================================================================
