------------------------- MODULE Conversions_proofs -------------------------
(***************************************************************************)
(* For inputs of any length, of any bytes, and for any width of int64_t:   *)
(* proofs about Conversions.  First what keeps the types and the numbers   *)
(* in range, and base64 there and back; then a section for each function   *)
(* and what it computes.                                                   *)
(***************************************************************************)
EXTENDS Conversions, SequenceTheorems, FiniteSetTheorems, WellFoundedInduction, TLAPS

\* What the range tests rest on: a number inside parse_uint()'s loop has been
\* scaled for a digit that is still to be added.
ParseInv ==
    /\ num =< MaxInt
    /\ stage = "scaled" => i < Len(in) /\ IsDigit(in[i + 1])

\* Every "%" that encodeURIComponent() has written is followed by two digits.
Digits16 == 48..57 \cup 97..102
WellEscaped ==
    \A k \in DOMAIN out :
        out[k] = Percent => k + 2 =< Len(out) /\ out[k + 1] \in Digits16 /\ out[k + 2] \in Digits16

\* The four sextets of group q of the input; a byte beyond its end is 0.
Sextets(q) ==
    LET a == ByteAt(in, 3 * q)
        b == ByteAt(in, (3 * q) + 1)
        c == ByteAt(in, (3 * q) + 2)
    IN  <<a \div 4, ((a % 4) * 16) + (b \div 16), ((b % 16) * 4) + (c \div 64), c % 64>>

\* What decode() reads in the first n groups of characters.  "=" counts as 0,
\* so this stays true when the padding is written.
Reads(n) == \A q \in 0..n - 1, j \in 1..4 : Index(out[(4 * q) + j]) = Sextets(q)[j]

\* Base64 is written, and read back, by whole groups.
Written(n) == i = 3 * n /\ Len(out) = 4 * n /\ 3 * n < Len(in) + 3 /\ Reads(n)
Closed(n) ==
    /\ Len(out) = 4 * n /\ 3 * n = Len(in) + Padding /\ Reads(n)
    /\ \A k \in 1..Len(out) : out[k] = Pad <=> k > Len(out) - Padding
ReadBack(m) ==
    i = 4 * m /\ Len(back) = 3 * m /\ \A k \in 1..3 * m : back[k] = ByteAt(in, k - 1)

\* What DecodeStrip makes of what was read.
Decoded ==
    job = "base64" /\ stage = "done" =>
        back = in \o (IF Len(in) % 3 = 2 THEN <<0>> ELSE <<>>)

Base64Inv ==
    /\ Len(in) > 0
    /\ stage = "run" => (\E n \in Nat : Written(n)) /\ \A k \in DOMAIN out : out[k] # Pad
    /\ stage = "run" => back = <<>>
    /\ stage = "back" => \E n, m \in Nat : Closed(n) /\ ReadBack(m) /\ m =< n
    /\ Decoded

TypeInv ==
    /\ TypeOK
    /\ job = "parse_uint" => ParseInv
    /\ job = "URIComponent" => WellEscaped
    /\ job = "base64" => Base64Inv
    /\ job = "selectH2" => num \in 1..3
    /\ stage = "scaled" => job = "parse_uint"
    /\ stage = "back" => job \in {"URIComponent", "base64"}

\* A character of an input is a byte.
LEMMA NextIsByte == ASSUME TypeOK, More PROVE Next1 \in Byte /\ i + 1 \in 1..Len(in)
  BY DEF TypeOK, More, Next1

\* Induction over the numbers up to n, by the least of those at which a fact
\* would fail.
LessThan == {m \in Nat \X Nat : m[1] < m[2]}
LEMMA LeastExists ==
  ASSUME NEW T, T \subseteq Nat, T # {}
  PROVE  \E m \in T : \A n \in T : m =< n
<1>1. IsWellFoundedOn(LessThan, Nat)
  BY NatLessThanWellFounded DEF OpToRel, LessThan
<1>2. PICK m \in T : \A n \in T : ~(<<n, m>> \in LessThan)
  BY <1>1, WFMin, Zenon
<1>3. ASSUME NEW n \in T PROVE m =< n
  <2>1. <<n, m>> \notin LessThan /\ n \in Nat /\ m \in Nat
    BY <1>2
  <2> QED
    BY <2>1 DEF LessThan
<1> QED
  BY <1>3

\* So a set that has 0, and the next of each of its members that is below n, has
\* every number up to n.
LEMMA UpToInduction ==
  ASSUME NEW n \in Nat, NEW S, 0 \in S, \A k \in 0..n - 1 : k \in S => k + 1 \in S
  PROVE  0..n \subseteq S
<1> DEFINE T == {k \in 0..n : k \notin S}
<1> SUFFICES ASSUME T # {} PROVE FALSE
  OBVIOUS
<1>1. T \subseteq Nat
  OBVIOUS
<1>2. PICK m \in T : \A k \in T : m =< k
  <2> HIDE DEF T
  <2> QED
    BY <1>1, LeastExists, Zenon
<1>3. m \in 1..n /\ m - 1 \in 0..n - 1 /\ m - 1 \notin T
  BY <1>2
<1> QED
  BY <1>3

\* The lists of no more than k entries, for each k up to m.
OffersUpTo(g, m) ==
    /\ g = [k \in 0..m |-> g[k]] /\ g[0] = {<<>>}
    /\ \A k \in 1..m : g[k] = g[k - 1] \cup Longer(g[k - 1])

LEMMA OffersExist == \E g : OffersUpTo(g, MaxOffers)
<1> DEFINE S == {m \in 0..MaxOffers : \E g : OffersUpTo(g, m)}
<1>1. MaxOffers \in Nat
  BY ConversionsAssumption
<1>2. 0 \in S
  <2>1. OffersUpTo([k \in 0..0 |-> {<<>>}], 0)
    BY DEF OffersUpTo
  <2> QED
    BY <1>1, <2>1
<1>3. ASSUME NEW m \in 0..MaxOffers - 1, m \in S PROVE m + 1 \in S
  <2>1. PICK g : OffersUpTo(g, m)
    BY <1>3
  <2> DEFINE h == [k \in 0..m + 1 |-> IF k = m + 1 THEN g[m] \cup Longer(g[m]) ELSE g[k]]
  <2>2. h = [k \in 0..m + 1 |-> h[k]]
    OBVIOUS
  <2>3. h[m + 1] = g[m] \cup Longer(g[m]) /\ \A k \in 0..m : h[k] = g[k]
    OBVIOUS
  <2> HIDE DEF h
  <2>4. ASSUME NEW k \in 1..m + 1 PROVE h[k] = h[k - 1] \cup Longer(h[k - 1])
    <3>1. CASE k = m + 1
      <4>1. k - 1 = m /\ m \in 0..m
        BY <3>1
      <4>2. h[k - 1] = g[m]
        BY <2>3, <4>1
      <4> QED
        BY <2>3, <3>1, <4>2
    <3>2. CASE k # m + 1
      <4>1. k \in 1..m /\ k \in 0..m /\ k - 1 \in 0..m
        BY <3>2
      <4>2. g[k] = g[k - 1] \cup Longer(g[k - 1])
        BY <2>1, <4>1 DEF OffersUpTo
      <4>3. h[k] = g[k] /\ h[k - 1] = g[k - 1]
        BY <2>3, <4>1
      <4> QED
        BY <4>2, <4>3
    <3> QED
      BY <3>1, <3>2
  <2>5. h[0] = {<<>>}
    <3>1. 0 \in 0..m
      OBVIOUS
    <3> QED
      BY <2>1, <2>3, <3>1 DEF OffersUpTo
  <2>6. OffersUpTo(h, m + 1)
    BY <2>2, <2>4, <2>5 DEF OffersUpTo
  <2> QED
    BY <1>1, <2>6
<1>4. MaxOffers \in S
  <2>1. \A k \in 0..MaxOffers - 1 : k \in S => k + 1 \in S
    BY <1>3
  <2> HIDE DEF S
  <2>2. 0..MaxOffers \subseteq S
    BY <1>1, <1>2, <2>1, UpToInduction
  <2> QED
    BY <1>1, <2>2
<1> QED
  BY <1>4

\* A list is made of bytes, however many protocols it offers.
LEMMA OffersAreBytes == Offers \subseteq Seq(Byte)
<1>1. ASSUME NEW k \in 1..MaxName, NEW name \in [1..k -> NameBytes]
      PROVE  name \in Seq(Byte) /\ Len(name) \in Byte
  <2>1. k \in Nat /\ k =< 255 /\ NameBytes \subseteq Byte
    BY ConversionsAssumption
  <2>2. name \in [1..k -> Byte]
    BY <2>1
  <2>3. name \in Seq(Byte)
    BY <2>1, <2>2
  <2>4. Len(name) = k
    BY <2>1, <2>2, <2>3, LenProperties
  <2> QED
    BY <2>1, <2>3, <2>4 DEF Byte
<1>2. ASSUME NEW k \in 1..3 PROVE Wanted[k] \in Seq(Byte) /\ Len(Wanted[k]) \in Byte
  <2>1. /\ <<104, 50>> \in Seq(Byte)
        /\ <<104, 50, 45, 49, 54>> \in Seq(Byte)
        /\ <<104, 50, 45, 49, 52>> \in Seq(Byte)
    BY DEF Byte
  <2>2. /\ Len(<<104, 50>>) = 2
        /\ Len(<<104, 50, 45, 49, 54>>) = 5
        /\ Len(<<104, 50, 45, 49, 52>>) = 5
    OBVIOUS
  <2>3. CASE k = 1
    BY <2>1, <2>2, <2>3 DEF Wanted, Byte
  <2>4. CASE k = 2
    BY <2>1, <2>2, <2>4 DEF Wanted, Byte
  <2>5. CASE k = 3
    BY <2>1, <2>2, <2>5 DEF Wanted, Byte
  <2> QED
    BY <2>3, <2>4, <2>5
<1>3. ASSUME NEW name \in Names PROVE name \in Seq(Byte) /\ Len(name) \in Byte
  <2>1. CASE name \in OtherNames
    <3>1. PICK k \in 1..MaxName : name \in [1..k -> NameBytes]
      BY <2>1 DEF OtherNames
    <3> QED
      BY <1>1, <3>1
  <2>2. CASE name \in {Wanted[1], Wanted[2], Wanted[3]}
    BY <1>2, <2>2
  <2> QED
    BY <2>1, <2>2 DEF Names
<1>4. \A name \in Names : Entry(name) \in Seq(Byte)
  BY <1>3 DEF Entry
<1>5. Entries \subseteq Seq(Byte)
  BY <1>4 DEF Entries
<1>6. ASSUME NEW lists, lists \subseteq Seq(Byte) PROVE Longer(lists) \subseteq Seq(Byte)
  <2>1. \A p \in lists \X Entries : p[1] \o p[2] \in Seq(Byte)
    BY <1>5, <1>6
  <2> QED
    BY <2>1 DEF Longer
<1> DEFINE n == MaxOffers
           Eq(f) == f = [k \in 0..n |-> IF k = 0 THEN {<<>>} ELSE f[k - 1] \cup Longer(f[k - 1])]
           U == CHOOSE f : Eq(f)
<1>7. n \in Nat
  BY ConversionsAssumption
<1>8. Offers = U[n]
  BY DEF Offers
<1>9. Eq(U)
  <2>1. PICK g : OffersUpTo(g, n)
    BY OffersExist
  <2>2. Eq(g)
    <3>1. g = [k \in 0..n |-> g[k]] /\ g[0] = {<<>>}
      BY <2>1 DEF OffersUpTo
    <3>2. ASSUME NEW k \in 0..n
          PROVE  g[k] = IF k = 0 THEN {<<>>} ELSE g[k - 1] \cup Longer(g[k - 1])
      <4>1. CASE k = 0
        BY <3>1, <4>1
      <4>2. CASE k # 0
        <5>1. k \in 1..n
          BY <1>7, <4>2
        <5> QED
          BY <2>1, <4>2, <5>1 DEF OffersUpTo
      <4> QED
        BY <4>1, <4>2
    <3> QED
      BY <3>1, <3>2
  <2> HIDE DEF Eq
  <2> QED
    BY <2>2
<1> HIDE DEF n, U
<1>10. U[0] = {<<>>} /\ \A k \in 1..n : U[k] = U[k - 1] \cup Longer(U[k - 1])
  <2>1. U[0] = {<<>>}
    BY <1>7, <1>9
  <2>2. ASSUME NEW k \in 1..n PROVE U[k] = U[k - 1] \cup Longer(U[k - 1])
    <3>1. k \in 0..n /\ k # 0
      BY <1>7
    <3> QED
      BY <1>9, <3>1
  <2> QED
    BY <2>1, <2>2
<1> HIDE DEF Eq
<1> DEFINE S == {k \in 0..n : U[k] \subseteq Seq(Byte)}
<1>11. 0 \in S
  <2>1. <<>> \in Seq(Byte) /\ 0 \in 0..n
    BY <1>7
  <2> QED
    BY <1>10, <2>1
<1>12. ASSUME NEW k \in 0..n - 1, k \in S PROVE k + 1 \in S
  <2>1. k + 1 \in 1..n /\ k + 1 \in 0..n /\ (k + 1) - 1 = k
    BY <1>7
  <2>2. U[k + 1] = U[k] \cup Longer(U[k])
    BY <1>10, <2>1
  <2>3. Longer(U[k]) \subseteq Seq(Byte)
    BY <1>6, <1>12
  <2> QED
    BY <1>12, <2>1, <2>2, <2>3
<1>13. n \in S
  <2>1. \A k \in 0..n - 1 : k \in S => k + 1 \in S
    BY <1>12
  <2> HIDE DEF S
  <2>2. 0..n \subseteq S
    BY <1>7, <1>11, <2>1, UpToInduction
  <2> QED
    BY <1>7, <2>2
<1> QED
  BY <1>8, <1>13

LEMMA InitTypes == Init => TypeInv
<1> SUFFICES ASSUME Init PROVE TypeInv
  OBVIOUS
<1>1. in \in Seq(Byte)
  <2>1. CASE job = "selectH2"
    BY <2>1, OffersAreBytes DEF Init
  <2>2. CASE job = "utos"
    BY <2>2 DEF Init
  <2>3. CASE job \notin {"selectH2", "utos"}
    BY <2>3, ConversionsAssumption DEF Init
  <2> QED
    BY <2>1, <2>2, <2>3
<1>2. i \in Nat /\ num \in Nat
  <2>1. CASE job = "utos"
    BY <2>1, ConversionsAssumption DEF Init
  <2>2. CASE job # "utos"
    BY <2>2 DEF Init
  <2> QED
    BY <2>1, <2>2
<1>3. TypeOK
  BY <1>1, <1>2, ConversionsAssumption DEF Init, TypeOK
<1>4. job = "parse_uint" => ParseInv
  BY <1>3, ConversionsAssumption DEF Init, ParseInv
<1>5. job = "URIComponent" => WellEscaped
  BY DEF Init, WellEscaped
<1>6. job = "base64" => Base64Inv
  <2> SUFFICES ASSUME job = "base64" PROVE Base64Inv
    OBVIOUS
  <2>1. stage = "run" /\ out = <<>> /\ back = <<>> /\ i = 0 /\ Len(in) > 0
    BY <1>1 DEF Init
  <2>2. Written(0)
    BY <1>1, <2>1 DEF Written, Reads
  <2> QED
    BY <2>1, <2>2 DEF Base64Inv, Decoded
<1> QED
  BY <1>3, <1>4, <1>5, <1>6 DEF TypeInv, Init

\* parse_uint(): the tests keep the number within MaxInt.
LEMMA ParseKeeps ==
  ASSUME TypeInv, ParseScale \/ ParseAdd \/ ParseEnd
  PROVE  TypeInv'
<1> USE DEF TypeInv, ParseInv
<1>1. job = "parse_uint" /\ num \in Nat /\ num =< MaxInt /\ i \in Nat
  BY DEF ParseScale, ParseAdd, ParseEnd, TypeOK
<1>2. ASSUME ParseScale PROVE num' \in Nat /\ num' =< MaxInt
  <2>1. CASE num > MaxInt \div 10
    BY <1>1, <1>2, <2>1 DEF ParseScale, TooLargeToScale, End
  <2>2. CASE ~(num > MaxInt \div 10)
    <3>1. num' = num * 10
      BY <1>2, <2>2 DEF ParseScale, TooLargeToScale
    <3> QED
      BY <1>1, <2>2, <3>1, ConversionsAssumption
  <2> QED
    BY <2>1, <2>2
<1>3. ASSUME ParseAdd PROVE num' \in Nat /\ num' =< MaxInt
  <2>1. Next1 - 48 \in 0..9
    BY <1>1, <1>3 DEF ParseAdd, Next1, IsDigit
  <2>2. CASE num > MaxInt - (Next1 - 48)
    BY <1>1, <1>3, <2>2 DEF ParseAdd, TooLargeToAdd, End
  <2>3. CASE ~(num > MaxInt - (Next1 - 48))
    <3>1. num' = num + (Next1 - 48)
      BY <1>3, <2>3 DEF ParseAdd, TooLargeToAdd
    <3>2. PICK d \in 0..9 : d = Next1 - 48
      BY <2>1
    <3>3. num' = num + d /\ ~(num > MaxInt - d)
      BY <2>3, <3>1, <3>2
    <3>4. num \in Nat /\ MaxInt \in Nat
      BY <1>1, ConversionsAssumption
    <3> QED
      BY <3>3, <3>4
  <2> QED
    BY <2>2, <2>3
<1>4. ASSUME ParseEnd PROVE num' \in Nat /\ num' =< MaxInt
  BY <1>1, <1>4 DEF ParseEnd, End
<1>5. /\ job' = job /\ in' = in /\ out' = out /\ back' = back
      /\ i' \in Nat
      /\ stage' \in {"run", "scaled", "done", "refused"}
  BY <1>1 DEF ParseScale, ParseAdd, ParseEnd, End
<1>6. ASSUME stage' = "scaled" PROVE i' < Len(in) /\ IsDigit(in[i' + 1])
  <2>1. CASE ParseScale
    BY <1>1, <1>6, <2>1 DEF ParseScale, More, Next1, End
  <2>2. CASE ParseAdd
    BY <1>1, <1>6, <2>2 DEF ParseAdd, End
  <2>3. CASE ParseEnd
    BY <1>1, <1>6, <2>3 DEF ParseEnd, End
  <2> QED
    BY <2>1, <2>2, <2>3
<1>7. num' \in Nat /\ num' =< MaxInt
  BY <1>2, <1>3, <1>4
<1>8. TypeOK'
  BY <1>5, <1>7 DEF TypeOK
<1> QED
  BY <1>1, <1>5, <1>6, <1>7, <1>8 DEF IsDigit

\* utos(), percent_decode() and selectH2() write bytes.
LEMMA WriteKeeps ==
  ASSUME TypeInv, WriteDigit \/ WriteEnd
  PROVE  TypeInv'
<1>1. job = "utos" /\ job' = job /\ in' = in /\ back' = back /\ num' = num
  BY DEF WriteDigit, WriteEnd, End
<1>2. i' \in Nat
  BY DEF WriteDigit, WriteEnd, End, TypeInv, TypeOK
<1>3. out' \in Seq(Byte)
  <2>1. 48 + (i % 10) \in Byte
    BY DEF TypeInv, TypeOK, Byte
  <2>2. out \in Seq(Byte)
    BY DEF TypeInv, TypeOK
  <2>3. CASE WriteDigit
    <3>1. out' = <<48 + (i % 10)>> \o out
      BY <2>3 DEF WriteDigit, PrintDigit
    <3>2. <<48 + (i % 10)>> \in Seq(Byte)
      BY <2>1
    <3> QED
      BY <2>2, <3>1, <3>2
  <2>4. CASE WriteEnd
    BY <2>2, <2>4 DEF WriteEnd, End
  <2> QED
    BY <2>3, <2>4
<1>4. stage' \in {"run", "done"}
  BY DEF WriteDigit, WriteEnd, End
<1> QED
  BY <1>1, <1>2, <1>3, <1>4 DEF TypeInv, TypeOK

\* Two hexadecimal digits are a byte.
LEMMA HexIsByte ==
  ASSUME NEW h, NEW l, IsHexDigit(h), IsHexDigit(l)
  PROVE  FromHex(h, l) \in Byte
<1>1. ASSUME NEW c, IsHexDigit(c) PROVE HexToUint(c) \in 0..15
  <2>1. c \in 48..57 \/ c \in 65..70 \/ c \in 97..102
    BY <1>1 DEF IsHexDigit
  <2> QED
    BY <2>1 DEF HexToUint
<1>2. HexToUint(h) \in 0..15 /\ HexToUint(l) \in 0..15
  BY <1>1
<1> QED
  BY <1>2 DEF FromHex, Byte

LEMMA PercentKeeps ==
  ASSUME TypeInv, PercentDecode \/ PercentEnd
  PROVE  TypeInv'
<1>1. /\ job = "percent_decode" /\ job' = job /\ in' = in /\ back' = back /\ num' = num
      /\ stage' \in {"run", "done"}
  BY DEF PercentDecode, PercentEnd, End
<1>2. i' \in Nat
  BY DEF PercentDecode, PercentEnd, End, TypeInv, TypeOK
<1>3. out' \in Seq(Byte)
  <2>1. out \in Seq(Byte)
    BY DEF TypeInv, TypeOK
  <2>2. ASSUME PercentDecode PROVE \E c \in Byte : out' = Append(out, c)
    <3>1. Next1 \in Byte
      BY <2>2, NextIsByte DEF PercentDecode, TypeInv
    <3>2. EscapeAt(in, i) => FromHex(in[i + 2], in[i + 3]) \in Byte
      BY HexIsByte DEF EscapeAt
    <3> QED
      BY <2>2, <3>1, <3>2 DEF PercentDecode
  <2>3. CASE PercentDecode
    <3>1. PICK c \in Byte : out' = Append(out, c)
      BY <2>2, <2>3
    <3> QED
      BY <2>1, <3>1, AppendProperties
  <2>4. CASE PercentEnd
    BY <2>1, <2>4 DEF PercentEnd, End
  <2> QED
    BY <2>3, <2>4
<1> QED
  BY <1>1, <1>2, <1>3 DEF TypeInv, TypeOK

\* The protocols looked for, as they stand in a list.
LEMMA WantedEntries ==
  ASSUME NEW k \in 1..3
  PROVE  /\ Entry(Wanted[k]) \in Seq(Byte)
         /\ Len(Entry(Wanted[k])) = Len(Wanted[k]) + 1
         /\ Entry(Wanted[k])[1] = Len(Wanted[k])
         /\ Len(Wanted[k]) \in 1..255
<1>0. k = 1 \/ k = 2 \/ k = 3
  OBVIOUS
<1>1. CASE k = 1
  BY <1>1 DEF Wanted, Entry, Byte
<1>2. CASE k = 2
  BY <1>2 DEF Wanted, Entry, Byte
<1>3. CASE k = 3
  BY <1>3 DEF Wanted, Entry, Byte
<1> QED
  BY <1>0, <1>1, <1>2, <1>3

LEMMA SelectKeeps ==
  ASSUME TypeInv, Select \/ SelectNext \/ SelectOther
  PROVE  TypeInv'
<1>1. /\ job = "selectH2" /\ job' = job /\ in' = in /\ back' = back
      /\ stage' \in {"run", "done", "refused"}
  BY DEF Select, SelectNext, SelectOther
<1>2. num \in 1..3 /\ i \in Nat /\ in \in Seq(Byte) /\ out \in Seq(Byte)
  BY <1>1 DEF TypeInv, TypeOK
<1>3. num' \in 1..3
  <2>1. CASE num' = num
    BY <1>2, <2>1
  <2>2. CASE num' # num
    <3>1. num < Len(Wanted) /\ num' = num + 1
      BY <2>2 DEF Select, SelectNext, SelectOther
    <3>2. Len(Wanted) = 3
      BY DEF Wanted
    <3> QED
      BY <1>2, <3>1, <3>2
  <2> QED
    BY <2>1, <2>2
<1>4. i' \in Nat /\ out' \in Seq(Byte)
  <2> DEFINE entry == Entry(Wanted[num])
  <2>1. /\ Len(entry) = Len(Wanted[num]) + 1 /\ entry[1] = Len(Wanted[num])
        /\ Len(Wanted[num]) \in 1..255
    BY <1>2, WantedEntries
  <2> HIDE DEF entry
  <2>2. CASE Select
    <3>1. i + Len(entry) =< Len(in) /\ SubSeq(in, i + 1, i + Len(entry)) = entry
      BY <2>2 DEF Select, Fits, Here, entry
    <3>2. Next1 = Len(Wanted[num])
      <4> DEFINE l == i + 1
                 h == i + Len(entry)
      <4>1. l \in Int /\ h \in Int /\ 1 \in 1..h - l + 1 /\ l + 1 - 1 = l
        BY <1>2, <2>1
      <4>2. \A k \in l..h : in[k] \in Byte
        <5>1. h =< Len(in)
          BY <3>1
        <5>2. Len(in) \in Nat /\ l >= 1 /\ \A k \in 1..Len(in) : in[k] \in Byte
          BY <1>2
        <5> HIDE DEF l, h
        <5> QED
          BY <4>1, <5>1, <5>2
      <4> HIDE DEF l, h
      <4>3. SubSeq(in, l, h)[1] = in[l + 1 - 1]
        BY <4>1, <4>2, SubSeqProperties
      <4>4. entry[1] = in[l]
        BY <3>1, <4>1, <4>3 DEF l, h
      <4> QED
        BY <2>1, <4>4 DEF Next1, l
    <3>6. i + 1 + Next1 =< Len(in) /\ Next1 \in 1..255
      <4>1. i + Len(entry) =< Len(in)
        BY <3>1
      <4>2. Len(in) \in Nat
        BY <1>2
      <4> DEFINE n == Len(Wanted[num])
      <4>3. n \in 1..255 /\ Next1 = n /\ i + (n + 1) =< Len(in)
        BY <2>1, <3>2, <4>1
      <4> HIDE DEF n
      <4> QED
        BY <1>2, <4>2, <4>3
    <3>3. \A k \in i + 2..i + 1 + Next1 : in[k] \in Byte
      BY <1>2, <3>6
    <3>4. i + 2 \in Int /\ i + 1 + Next1 \in Int
      BY <1>2, <3>6
    <3>5. SubSeq(in, i + 2, i + 1 + Next1) \in Seq(Byte)
      BY <3>3, <3>4, SubSeqProperties
    <3> QED
      BY <1>2, <2>2, <3>5 DEF Select
  <2>3. CASE SelectNext
    <3>1. i + Len(entry) =< Len(in)
      BY <2>3 DEF SelectNext, Fits, entry
    <3>2. Next1 \in Byte
      BY <1>2, <2>1, <3>1 DEF Next1
    <3> QED
      BY <1>2, <2>3, <3>2 DEF SelectNext, SkipEntry, Byte
  <2>4. CASE SelectOther
    BY <1>2, <2>4 DEF SelectOther
  <2> QED
    BY <2>2, <2>3, <2>4
<1> QED
  BY <1>1, <1>2, <1>3, <1>4 DEF TypeInv, TypeOK

\* A character of a URI component is written as itself, as "+", or as "%" and
\* two digits that say it.
LEMMA EscapedForms ==
  ASSUME NEW c \in Byte
  PROVE  \/ Escaped(c) = <<c>> /\ c \notin {Percent, Plus}
         \/ Escaped(c) = <<Plus>> /\ c = Space
         \/ \E h, l \in Digits16 : Escaped(c) = <<Percent, h, l>> /\ FromHex(h, l) = c
<1>1. CASE c \in Unreserved
  BY <1>1 DEF Escaped, Unreserved, Percent, Plus
<1>2. CASE c = Space
  <2>1. c \notin Unreserved
    BY <1>2 DEF Unreserved, Space
  <2> QED
    BY <1>2, <2>1 DEF Escaped
<1>3. CASE c \notin Unreserved /\ c # Space
  <2>1. c \div 16 \in 0..15 /\ c % 16 \in 0..15 /\ (c \div 16) * 16 + (c % 16) = c
    BY DEF Byte
  <2>2. ASSUME NEW d \in 0..15 PROVE HexChar(d) \in Digits16 /\ HexToUint(HexChar(d)) = d
    BY DEF HexChar, Digits16, HexToUint
  <2>3. /\ HexChar(c \div 16) \in Digits16 /\ HexToUint(HexChar(c \div 16)) = c \div 16
        /\ HexChar(c % 16) \in Digits16 /\ HexToUint(HexChar(c % 16)) = c % 16
    BY <2>1, <2>2
  <2>4. FromHex(HexChar(c \div 16), HexChar(c % 16)) = c
    BY <2>1, <2>3 DEF FromHex
  <2>5. Escaped(c) = <<Percent, HexChar(c \div 16), HexChar(c % 16)>>
    BY <1>3 DEF Escaped, Escape
  <2> QED
    BY <2>3, <2>4, <2>5
<1> QED
  BY <1>1, <1>2, <1>3

\* What follows from it: every "%" has its digits.
LEMMA EscapedShape ==
  ASSUME NEW c \in Byte
  PROVE  /\ Escaped(c) \in Seq(Byte)
         /\ Len(Escaped(c)) >= 1
         /\ \A k \in 1..Len(Escaped(c)) : Escaped(c)[k] = Percent =>
              /\ k + 2 =< Len(Escaped(c))
              /\ Escaped(c)[k + 1] \in Digits16 /\ Escaped(c)[k + 2] \in Digits16
<1>1. CASE Escaped(c) = <<c>> /\ c \notin {Percent, Plus}
  BY <1>1
<1>2. CASE Escaped(c) = <<Plus>> /\ c = Space
  BY <1>2 DEF Plus, Percent, Byte
<1>3. ASSUME NEW h \in Digits16, NEW l \in Digits16, Escaped(c) = <<Percent, h, l>>
      PROVE  /\ Escaped(c) \in Seq(Byte)
             /\ Len(Escaped(c)) >= 1
             /\ \A k \in 1..Len(Escaped(c)) : Escaped(c)[k] = Percent =>
                  /\ k + 2 =< Len(Escaped(c))
                  /\ Escaped(c)[k + 1] \in Digits16 /\ Escaped(c)[k + 2] \in Digits16
  <2>1. h \in Byte /\ l \in Byte /\ Percent \in Byte /\ h # Percent /\ l # Percent
    BY DEF Digits16, Byte, Percent
  <2>2. <<Percent, h, l>> \in Seq(Byte) /\ Len(<<Percent, h, l>>) = 3
    BY <2>1
  <2>3. ASSUME NEW k \in 1..3, <<Percent, h, l>>[k] = Percent PROVE k = 1
    BY <2>1, <2>3
  <2> QED
    BY <1>3, <2>2, <2>3
<1> QED
  BY <1>1, <1>2, <1>3, EscapedForms

LEMMA ComponentKeeps ==
  ASSUME TypeInv, EncodeComponent \/ StartBack \/ DecodeComponent \/ ComponentEnd
  PROVE  TypeInv'
<1>1. /\ job = "URIComponent" /\ job' = job /\ in' = in /\ num' = num
      /\ stage' \in {"run", "back", "done"}
  BY DEF EncodeComponent, StartBack, DecodeComponent, ComponentEnd, End
<1>2. /\ i \in Nat /\ in \in Seq(Byte) /\ out \in Seq(Byte) /\ back \in Seq(Byte)
      /\ num \in Nat /\ WellEscaped
  BY <1>1 DEF TypeInv, TypeOK
<1>3. CASE EncodeComponent
  <2> DEFINE e == Escaped(Next1)
  <2>1. /\ e \in Seq(Byte) /\ Len(e) >= 1
        /\ \A k \in 1..Len(e) : e[k] = Percent =>
              k + 2 =< Len(e) /\ e[k + 1] \in Digits16 /\ e[k + 2] \in Digits16
    BY <1>3, NextIsByte, EscapedShape DEF EncodeComponent, TypeInv
  <2>2. out' = out \o e /\ i' = i + 1 /\ back' = back /\ stage' = stage
    BY <1>3 DEF EncodeComponent
  <2> HIDE DEF e
  <2>3. /\ out' \in Seq(Byte) /\ Len(out') = Len(out) + Len(e)
        /\ \A k \in 1..Len(out) : out'[k] = out[k]
        /\ \A k \in 1..Len(e) : out'[Len(out) + k] = e[k]
    BY <1>2, <2>1, <2>2, ConcatProperties
  <2>4. ASSUME NEW k \in DOMAIN out', out'[k] = Percent
        PROVE  /\ k + 2 =< Len(out')
               /\ out'[k + 1] \in Digits16 /\ out'[k + 2] \in Digits16
    <3>1. CASE k \in 1..Len(out)
      <4>1. k + 2 =< Len(out) /\ out[k + 1] \in Digits16 /\ out[k + 2] \in Digits16
        BY <1>2, <2>3, <2>4, <3>1 DEF WellEscaped
      <4>2. Len(out) \in Nat /\ Len(e) \in Nat
        BY <1>2, <2>1
      <4>3. k + 1 \in 1..Len(out) /\ k + 2 \in 1..Len(out) /\ k + 2 =< Len(out')
        BY <2>3, <3>1, <4>1, <4>2
      <4>4. out'[k + 1] = out[k + 1] /\ out'[k + 2] = out[k + 2]
        BY <2>3, <4>3
      <4> QED
        BY <4>1, <4>3, <4>4
    <3>2. CASE k \notin 1..Len(out)
      <4> DEFINE j == k - Len(out)
      <4>1. j \in 1..Len(e) /\ k = Len(out) + j
        BY <1>2, <2>1, <2>3, <3>2
      <4> HIDE DEF j
      <4>2. j + 2 =< Len(e) /\ e[j + 1] \in Digits16 /\ e[j + 2] \in Digits16
        BY <2>1, <2>3, <2>4, <4>1
      <4>3. Len(out) \in Nat /\ Len(e) \in Nat
        BY <1>2, <2>1
      <4>4. /\ j + 1 \in 1..Len(e) /\ j + 2 \in 1..Len(e) /\ k + 2 =< Len(out')
            /\ k + 1 = Len(out) + (j + 1) /\ k + 2 = Len(out) + (j + 2)
        BY <2>3, <4>1, <4>2, <4>3
      <4>5. out'[k + 1] = e[j + 1] /\ out'[k + 2] = e[j + 2]
        BY <2>3, <4>4
      <4> QED
        BY <4>2, <4>4, <4>5
    <3> QED
      BY <3>1, <3>2
  <2>5. WellEscaped'
    BY <2>4 DEF WellEscaped
  <2>6. stage' = "run"
    BY <1>3 DEF EncodeComponent
  <2> QED
    BY <1>1, <1>2, <2>2, <2>3, <2>5, <2>6 DEF TypeInv, TypeOK
<1>4. CASE DecodeComponent
  <2>1. /\ stage' = stage /\ stage = "back" /\ out' = out /\ i < Len(out)
    BY <1>4 DEF DecodeComponent
  <2>2. \E c \in Byte : back' = Append(back, c) /\ i' \in Nat
    <3>1. CASE out[i + 1] = Percent
      <4>1. i + 1 \in DOMAIN out /\ i + 1 + 1 = i + 2 /\ i + 1 + 2 = i + 3
        BY <1>2, <2>1
      <4>2. out[i + 2] \in Digits16 /\ out[i + 3] \in Digits16
        BY <1>2, <3>1, <4>1 DEF WellEscaped
      <4>3. IsHexDigit(out[i + 2]) /\ IsHexDigit(out[i + 3])
        BY <4>2 DEF Digits16, IsHexDigit
      <4> QED
        BY <1>2, <1>4, <3>1, <4>3, HexIsByte DEF DecodeComponent
    <3>2. CASE out[i + 1] # Percent
      <4>1. i + 1 \in 1..Len(out)
        BY <1>2, <2>1
      <4>2. out[i + 1] \in Byte
        BY <1>2, <4>1
      <4>3. Space \in Byte
        BY DEF Space, Byte
      <4> QED
        BY <1>2, <1>4, <3>2, <4>2, <4>3 DEF DecodeComponent
    <3> QED
      BY <3>1, <3>2
  <2>3. back' \in Seq(Byte) /\ i' \in Nat
    BY <1>2, <2>2, AppendProperties
  <2>4. WellEscaped'
    BY <1>2, <2>1 DEF WellEscaped
  <2> QED
    BY <1>1, <1>2, <2>1, <2>3, <2>4 DEF TypeInv, TypeOK
<1>5. CASE StartBack \/ ComponentEnd
  <2>1. out' = out /\ back' = back /\ i' \in Nat /\ stage' \in {"back", "done"}
    BY <1>2, <1>5 DEF StartBack, ComponentEnd, End
  <2>2. WellEscaped'
    BY <1>2, <2>1 DEF WellEscaped
  <2> QED
    BY <1>1, <1>2, <2>1, <2>2 DEF TypeInv, TypeOK
<1> QED
  BY <1>3, <1>4, <1>5

\* The bits of three bytes survive the way there and back.
LEMMA UngroupsSextets ==
  ASSUME NEW a \in Byte, NEW b \in Byte, NEW c \in Byte
  PROVE  Ungroup(a \div 4, ((a % 4) * 16) + (b \div 16),
                 ((b % 16) * 4) + (c \div 64), c % 64) = <<a, b, c>>
<1>1. (((a \div 4) * 4) + ((((a % 4) * 16) + (b \div 16)) \div 16)) % 256 = a
  BY DEF Byte
<1>2. (((((a % 4) * 16) + (b \div 16)) % 16) * 16) + ((((b % 16) * 4) + (c \div 64)) \div 4) = b
  BY DEF Byte
<1>3. (((((b % 16) * 4) + (c \div 64)) % 4) * 64) + ((c % 64) % 64) = c
  BY DEF Byte
<1> QED
  BY <1>1, <1>2, <1>3 DEF Ungroup

\* decode()'s table undoes uriCharset, and "=" is none of its characters.
LEMMA CharsetIndex ==
  ASSUME NEW v \in 0..63
  PROVE  Charset(v) \in Byte /\ Charset(v) # Pad /\ Index(Charset(v)) = v
<1>1. CASE v < 26
  BY <1>1 DEF Charset, Index, Byte, Pad
<1>2. CASE v >= 26 /\ v < 52
  BY <1>2 DEF Charset, Index, Byte, Pad
<1>3. CASE v >= 52 /\ v < 62
  BY <1>3 DEF Charset, Index, Byte, Pad
<1>4. CASE v >= 62
  BY <1>4 DEF Charset, Index, Byte, Pad
<1> QED
  BY <1>1, <1>2, <1>3, <1>4

LEMMA SextetTypes ==
  ASSUME NEW a \in Byte, NEW b \in Byte, NEW c \in Byte
  PROVE  /\ a \div 4 \in 0..63
         /\ ((a % 4) * 16) + (b \div 16) \in 0..63
         /\ ((b % 16) * 4) + (c \div 64) \in 0..63
         /\ c % 64 \in 0..63
  BY DEF Byte

LEMMA ByteAtType ==
  ASSUME in \in Seq(Byte), NEW k \in Nat
  PROVE  ByteAt(in, k) \in Byte /\ (k >= Len(in) => ByteAt(in, k) = 0)
<1>1. CASE k < Len(in)
  <2>1. k + 1 \in 1..Len(in)
    BY <1>1
  <2> QED
    BY <1>1, <2>1 DEF ByteAt
<1>2. CASE ~(k < Len(in))
  BY <1>2 DEF ByteAt, Byte
<1> QED
  BY <1>1, <1>2

LEMMA EncodeGroupKeeps ==
  ASSUME TypeInv, EncodeGroup
  PROVE  TypeInv'
<1>1. /\ job = "base64" /\ job' = job /\ in' = in /\ back' = back /\ num' = num
      /\ stage = "run" /\ stage' = stage /\ i < Len(in) /\ i' = i + 3
      /\ out' = out \o Group(ByteAt(in, i), ByteAt(in, i + 1), ByteAt(in, i + 2))
  BY DEF EncodeGroup, More
<1>2. in \in Seq(Byte) /\ out \in Seq(Byte) /\ back = <<>> /\ num \in Nat /\ Base64Inv
  BY <1>1 DEF TypeInv, TypeOK, Base64Inv
<1>3. PICK n \in Nat : Written(n)
  BY <1>1, <1>2 DEF Base64Inv
<1> DEFINE a == ByteAt(in, 3 * n)
           b == ByteAt(in, (3 * n) + 1)
           c == ByteAt(in, (3 * n) + 2)
           g == Group(a, b, c)
<1>4. i = 3 * n /\ Len(out) = 4 * n /\ Reads(n)
  BY <1>3 DEF Written
<1>5. a \in Byte /\ b \in Byte /\ c \in Byte
  BY <1>2, ByteAtType
<1>6. out' = out \o g
  BY <1>1, <1>4
<1>7. Sextets(n) = <<a \div 4, ((a % 4) * 16) + (b \div 16), ((b % 16) * 4) + (c \div 64), c % 64>>
  BY DEF Sextets
<1>8. /\ g \in Seq(Byte) /\ Len(g) = 4
      /\ \A j \in 1..4 : g[j] # Pad /\ Index(g[j]) = Sextets(n)[j]
  <2> HIDE DEF a, b, c
  <2> DEFINE p == a \div 4
             q == ((a % 4) * 16) + (b \div 16)
             r == ((b % 16) * 4) + (c \div 64)
             t == c % 64
  <2>1. p \in 0..63 /\ q \in 0..63 /\ r \in 0..63 /\ t \in 0..63
    BY <1>5, SextetTypes
  <2>2. g = <<Charset(p), Charset(q), Charset(r), Charset(t)>> /\ Sextets(n) = <<p, q, r, t>>
    BY <1>7 DEF Group
  <2> HIDE DEF p, q, r, t, g
  <2>3. /\ Charset(p) \in Byte /\ Charset(p) # Pad /\ Index(Charset(p)) = p
        /\ Charset(q) \in Byte /\ Charset(q) # Pad /\ Index(Charset(q)) = q
        /\ Charset(r) \in Byte /\ Charset(r) # Pad /\ Index(Charset(r)) = r
        /\ Charset(t) \in Byte /\ Charset(t) # Pad /\ Index(Charset(t)) = t
    BY <2>1, CharsetIndex
  <2>4. g \in Seq(Byte) /\ Len(g) = 4
    BY <2>2, <2>3
  <2>5. ASSUME NEW j \in 1..4 PROVE g[j] # Pad /\ Index(g[j]) = Sextets(n)[j]
    <3>1. j = 1 \/ j = 2 \/ j = 3 \/ j = 4
      OBVIOUS
    <3>2. /\ g[1] = Charset(p) /\ g[2] = Charset(q) /\ g[3] = Charset(r) /\ g[4] = Charset(t)
          /\ Sextets(n)[1] = p /\ Sextets(n)[2] = q /\ Sextets(n)[3] = r /\ Sextets(n)[4] = t
      BY <2>2
    <3> QED
      BY <2>3, <3>1, <3>2
  <2> QED
    BY <2>4, <2>5
<1> HIDE DEF a, b, c, g
<1>9. /\ out' \in Seq(Byte) /\ Len(out') = (4 * n) + 4
      /\ \A k \in 1..4 * n : out'[k] = out[k]
      /\ \A j \in 1..4 : out'[(4 * n) + j] = g[j]
  <2>1. out \in Seq(Byte) /\ g \in Seq(Byte) /\ Len(out) = 4 * n /\ Len(g) = 4
    BY <1>2, <1>4, <1>8
  <2>2. /\ out \o g \in Seq(Byte) /\ Len(out \o g) = (4 * n) + 4
        /\ \A k \in 1..4 * n : (out \o g)[k] = out[k]
        /\ \A j \in 1..4 : (out \o g)[(4 * n) + j] = g[j]
    <3> DEFINE l == 4 * n
    <3>1. l \in Nat /\ Len(out) = l
      BY <2>1
    <3> HIDE DEF l
    <3>2. /\ out \o g \in Seq(Byte) /\ Len(out \o g) = l + 4
          /\ \A k \in 1..l + 4 : (out \o g)[k] = IF k =< l THEN out[k] ELSE g[k - l]
      <4>1. /\ out \o g \in Seq(Byte) /\ Len(out \o g) = Len(out) + Len(g)
            /\ \A k \in 1..Len(out) + Len(g) :
                 (out \o g)[k] = IF k =< Len(out) THEN out[k] ELSE g[k - Len(out)]
        BY <2>1, ConcatProperties, Zenon
      <4>2. Len(out) = l /\ Len(g) = 4
        BY <2>1, <3>1
      <4> QED
        BY <4>1, <4>2, Zenon
    <3>3. \A k \in 1..l : (out \o g)[k] = out[k]
      BY <3>1, <3>2
    <3>4. \A j \in 1..4 : (out \o g)[l + j] = g[j]
      <4>1. ASSUME NEW j \in 1..4 PROVE (out \o g)[l + j] = g[j]
        <5>1. l + j \in 1..l + 4 /\ ~(l + j =< l) /\ (l + j) - l = j
          BY <3>1
        <5> QED
          BY <3>2, <5>1
      <4> QED
        BY <4>1
    <3> QED
      BY <3>2, <3>3, <3>4 DEF l
  <2> QED
    BY <1>6, <2>2
<1>10. \A q : Sextets(q)' = Sextets(q)
  BY <1>1 DEF Sextets
<1>11. Reads(n + 1)'
  <2>1. ASSUME NEW q \in 0..n, NEW j \in 1..4
        PROVE  Index(out'[(4 * q) + j]) = Sextets(q)[j]
    <3>1. CASE q = n
      BY <1>8, <1>9, <3>1
    <3>2. CASE q # n
      <4>1. q \in 0..n - 1 /\ (4 * q) + j \in 1..4 * n
        BY <3>2
      <4>2. Index(out[(4 * q) + j]) = Sextets(q)[j]
        BY <1>4, <4>1 DEF Reads
      <4> QED
        BY <1>9, <4>1, <4>2
    <3> QED
      BY <3>1, <3>2
  <2>2. (n + 1) - 1 = n
    OBVIOUS
  <2> QED
    BY <1>10, <2>1, <2>2 DEF Reads
<1>12. Written(n + 1)'
  <2>1. i' = 3 * (n + 1) /\ Len(out') = 4 * (n + 1) /\ 3 * (n + 1) < Len(in') + 3
    BY <1>1, <1>2, <1>4, <1>9
  <2> QED
    BY <1>11, <2>1 DEF Written
<1>13. \A k \in DOMAIN out' : out'[k] # Pad
  <2>1. ASSUME NEW k \in 1..(4 * n) + 4 PROVE out'[k] # Pad
    <3>1. CASE k =< 4 * n
      <4>1. k \in 1..4 * n
        BY <3>1
      <4>2. k \in DOMAIN out
        BY <1>2, <1>4, <4>1
      <4>3. out[k] # Pad
        BY <1>1, <1>2, <4>2 DEF Base64Inv
      <4> QED
        BY <1>9, <4>1, <4>3
    <3>2. CASE k > 4 * n
      <4> DEFINE j == k - (4 * n)
      <4>1. j \in 1..4 /\ k = (4 * n) + j
        BY <3>2
      <4> HIDE DEF j
      <4>2. g[j] # Pad /\ out'[(4 * n) + j] = g[j]
        BY <1>8, <1>9, <4>1
      <4> QED
        BY <4>1, <4>2
    <3> QED
      BY <3>1, <3>2
  <2> QED
    BY <1>9, <2>1
<1>14. Base64Inv'
  BY <1>1, <1>2, <1>12, <1>13 DEF Base64Inv, Decoded
<1> QED
  BY <1>1, <1>2, <1>4, <1>9, <1>14 DEF TypeInv, TypeOK

\* Padding fills the last group.
LEMMA PaddingFills ==
  ASSUME in \in Seq(Byte), NEW n \in Nat, Len(in) =< 3 * n, 3 * n < Len(in) + 3
  PROVE  Padding \in 0..2 /\ 3 * n = Len(in) + Padding
<1> DEFINE l == Len(in)
<1>1. l \in Nat
  OBVIOUS
<1> HIDE DEF l
<1>2. (3 - (l % 3)) % 3 \in 0..2 /\ 3 * n = l + ((3 - (l % 3)) % 3)
  BY <1>1 DEF l
<1> QED
  BY <1>2 DEF Padding, l

LEMMA EncodePadKeeps ==
  ASSUME TypeInv, EncodePad
  PROVE  TypeInv'
<1>1. /\ job = "base64" /\ job' = job /\ in' = in /\ back' = back /\ num' = num
      /\ stage = "run" /\ stage' = "back" /\ i' = 0 /\ ~(i < Len(in))
      /\ out' = Padded(out)
  BY DEF EncodePad, More
<1>2. /\ in \in Seq(Byte) /\ out \in Seq(Byte) /\ back = <<>> /\ num \in Nat /\ Base64Inv
      /\ Len(in) > 0 /\ \A k \in DOMAIN out : out[k] # Pad
  BY <1>1 DEF TypeInv, TypeOK, Base64Inv
<1>3. PICK n \in Nat : Written(n)
  BY <1>1, <1>2 DEF Base64Inv
<1>4. i = 3 * n /\ Len(out) = 4 * n /\ Reads(n) /\ Len(in) =< 3 * n /\ 3 * n < Len(in) + 3
  BY <1>1, <1>2, <1>3 DEF Written
<1> DEFINE p == Padding
           kept == SubSeq(out, 1, (4 * n) - p)
           pads == [k \in 1..p |-> Pad]
<1>5. p \in 0..2 /\ 3 * n = Len(in) + p /\ n >= 1
  <2>1. p \in 0..2 /\ 3 * n = Len(in) + p
    BY <1>2, <1>4, PaddingFills
  <2> QED
    BY <1>2, <2>1
<1>6. out' = kept \o pads
  BY <1>1, <1>4 DEF Padded
<1> HIDE DEF p
<1>7. /\ kept \in Seq(Byte) /\ Len(kept) = (4 * n) - p
      /\ \A k \in 1..(4 * n) - p : kept[k] = out[k]
  <2>1. 1 \in Int /\ (4 * n) - p \in Int /\ 1 =< (4 * n) - p /\ (4 * n) - p =< 4 * n
    BY <1>5
  <2>2. \A k \in 1..(4 * n) - p : out[k] \in Byte
    BY <1>2, <1>4, <2>1
  <2>3. /\ kept \in Seq(Byte)
        /\ Len(kept) = IF 1 =< (4 * n) - p THEN ((4 * n) - p) - 1 + 1 ELSE 0
        /\ \A k \in 1..((4 * n) - p) - 1 + 1 : kept[k] = out[1 + k - 1]
    BY <2>1, <2>2, SubSeqProperties
  <2> QED
    BY <1>5, <2>1, <2>3
<1>8. pads \in Seq(Byte) /\ Len(pads) = p /\ \A k \in 1..p : pads[k] = Pad
  BY <1>5 DEF Pad, Byte
<1> HIDE DEF kept, pads
<1>9. /\ out' \in Seq(Byte) /\ Len(out') = 4 * n
      /\ \A k \in 1..4 * n : out'[k] = IF k =< (4 * n) - p THEN out[k] ELSE Pad
  <2> DEFINE l == (4 * n) - p
  <2>1. l \in Nat /\ l + p = 4 * n
    BY <1>5
  <2>2. /\ out' \in Seq(Byte) /\ Len(out') = Len(kept) + Len(pads)
        /\ \A k \in 1..Len(kept) + Len(pads) :
             out'[k] = IF k =< Len(kept) THEN kept[k] ELSE pads[k - Len(kept)]
    BY <1>6, <1>7, <1>8, ConcatProperties, Zenon
  <2>3. Len(kept) = l /\ Len(pads) = p
    BY <1>7, <1>8
  <2>4. \A k \in 1..l : kept[k] = out[k]
    BY <1>7
  <2> HIDE DEF l
  <2>5. /\ out' \in Seq(Byte) /\ Len(out') = l + p
        /\ \A k \in 1..l + p : out'[k] = IF k =< l THEN kept[k] ELSE pads[k - l]
    BY <2>2, <2>3, Zenon
  <2>6. ASSUME NEW k \in 1..l + p PROVE out'[k] = IF k =< l THEN out[k] ELSE Pad
    <3>1. CASE k =< l
      BY <2>1, <2>4, <2>5, <3>1
    <3>2. CASE ~(k =< l)
      <4>1. k - l \in 1..p
        BY <1>5, <2>1, <3>2
      <4> QED
        BY <1>8, <2>5, <3>2, <4>1
    <3> QED
      BY <3>1, <3>2
  <2> QED
    BY <2>1, <2>5, <2>6 DEF l
<1>10. \A q : Sextets(q)' = Sextets(q)
  BY <1>1 DEF Sextets
<1>11. Padding' = p
  BY <1>1 DEF Padding, p
<1>12. ASSUME NEW j \in 1..4, j > 4 - p PROVE Sextets(n - 1)[j] = 0
  <2> DEFINE a == ByteAt(in, 3 * (n - 1))
             b == ByteAt(in, (3 * (n - 1)) + 1)
             c == ByteAt(in, (3 * (n - 1)) + 2)
  <2>1. /\ (3 * (n - 1)) + 1 \in Nat /\ (3 * (n - 1)) + 2 \in Nat
        /\ p >= 1 => (3 * (n - 1)) + 2 >= Len(in)
        /\ p = 2 => (3 * (n - 1)) + 1 >= Len(in)
    BY <1>2, <1>5
  <2>2. (p >= 1 => c = 0) /\ (p = 2 => b = 0)
    BY <1>2, <2>1, ByteAtType
  <2>3. Sextets(n - 1) = <<a \div 4, ((a % 4) * 16) + (b \div 16), ((b % 16) * 4) + (c \div 64), c % 64>>
    BY DEF Sextets
  <2> HIDE DEF a, b, c
  <2>4. Sextets(n - 1)[3] = ((b % 16) * 4) + (c \div 64) /\ Sextets(n - 1)[4] = c % 64
    BY <2>3
  <2>5. CASE j = 4
    BY <1>5, <1>12, <2>2, <2>4, <2>5
  <2>6. CASE j = 3
    BY <1>5, <1>12, <2>2, <2>4, <2>6
  <2> QED
    BY <1>5, <1>12, <2>5, <2>6
<1>13. Reads(n)'
  <2>1. ASSUME NEW q \in 0..n - 1, NEW j \in 1..4
        PROVE  Index(out'[(4 * q) + j]) = Sextets(q)[j]
    <3>1. (4 * q) + j \in 1..4 * n
      BY <1>5
    <3>2. Index(out[(4 * q) + j]) = Sextets(q)[j]
      BY <1>4 DEF Reads
    <3>3. CASE (4 * q) + j =< (4 * n) - p
      BY <1>9, <3>1, <3>2, <3>3
    <3>4. CASE ~((4 * q) + j =< (4 * n) - p)
      <4>1. q = n - 1 /\ j > 4 - p
        BY <1>5, <3>4
      <4>2. Sextets(q)[j] = 0
        BY <1>12, <4>1
      <4>3. out'[(4 * q) + j] = Pad
        BY <1>9, <3>1, <3>4
      <4> QED
        BY <4>2, <4>3 DEF Index, Pad
    <3> QED
      BY <3>3, <3>4
  <2> QED
    BY <1>10, <2>1 DEF Reads
<1>14. Closed(n)'
  <2>1. ASSUME NEW k \in 1..4 * n PROVE out'[k] = Pad <=> k > (4 * n) - p
    <3>1. k \in DOMAIN out
      BY <1>2, <1>4
    <3>2. out[k] # Pad
      BY <1>2, <3>1
    <3> QED
      BY <1>5, <1>9, <3>2
  <2>2. Len(out') = 4 * n /\ 3 * n = Len(in') + Padding'
    BY <1>1, <1>5, <1>9, <1>11
  <2> QED
    BY <1>9, <1>11, <1>13, <2>1, <2>2 DEF Closed
<1>15. ReadBack(0)'
  BY <1>1, <1>2 DEF ReadBack
<1>16. Base64Inv'
  BY <1>1, <1>2, <1>14, <1>15 DEF Base64Inv, Decoded
<1> QED
  BY <1>1, <1>2, <1>9, <1>16 DEF TypeInv, TypeOK

LEMMA DecodeGroupKeeps ==
  ASSUME TypeInv, DecodeGroup
  PROVE  TypeInv'
<1>1. /\ job = "base64" /\ job' = job /\ in' = in /\ out' = out /\ num' = num
      /\ stage = "back" /\ stage' = stage /\ i < Len(out) /\ i' = i + 4
      /\ back' = back \o Ungroup(Index(out[i + 1]), Index(out[i + 2]),
                                 Index(out[i + 3]), Index(out[i + 4]))
  BY DEF DecodeGroup
<1>2. /\ in \in Seq(Byte) /\ out \in Seq(Byte) /\ back \in Seq(Byte) /\ num \in Nat
      /\ Base64Inv /\ Len(in) > 0
  BY <1>1 DEF TypeInv, TypeOK, Base64Inv
<1>3. PICK n \in Nat, m \in Nat : Closed(n) /\ ReadBack(m) /\ m =< n
  BY <1>1, <1>2 DEF Base64Inv
<1>4. /\ Len(out) = 4 * n /\ Reads(n) /\ i = 4 * m /\ Len(back) = 3 * m
      /\ \A k \in 1..3 * m : back[k] = ByteAt(in, k - 1)
  BY <1>3 DEF Closed, ReadBack
<1>5. m < n
  BY <1>1, <1>4
<1> DEFINE a == ByteAt(in, 3 * m)
           b == ByteAt(in, (3 * m) + 1)
           c == ByteAt(in, (3 * m) + 2)
<1>6. a \in Byte /\ b \in Byte /\ c \in Byte
  BY <1>2, ByteAtType
<1>7. Sextets(m) = <<a \div 4, ((a % 4) * 16) + (b \div 16), ((b % 16) * 4) + (c \div 64), c % 64>>
  BY DEF Sextets
<1> HIDE DEF a, b, c
<1>8. \A j \in 1..4 : Index(out[(4 * m) + j]) = Sextets(m)[j]
  <2>1. m \in 0..n - 1
    BY <1>5
  <2> QED
    BY <1>4, <2>1 DEF Reads
<1>9. /\ Index(out[i + 1]) = a \div 4
      /\ Index(out[i + 2]) = ((a % 4) * 16) + (b \div 16)
      /\ Index(out[i + 3]) = ((b % 16) * 4) + (c \div 64)
      /\ Index(out[i + 4]) = c % 64
  <2>1. /\ Sextets(m)[1] = a \div 4
        /\ Sextets(m)[2] = ((a % 4) * 16) + (b \div 16)
        /\ Sextets(m)[3] = ((b % 16) * 4) + (c \div 64)
        /\ Sextets(m)[4] = c % 64
    BY <1>7
  <2> QED
    BY <1>4, <1>8, <2>1
<1>10. back' = back \o <<a, b, c>>
  <2>1. Ungroup(a \div 4, ((a % 4) * 16) + (b \div 16),
                ((b % 16) * 4) + (c \div 64), c % 64) = <<a, b, c>>
    BY <1>6, UngroupsSextets
  <2> QED
    BY <1>1, <1>9, <2>1, Zenon
<1>11. /\ back' \in Seq(Byte) /\ Len(back') = (3 * m) + 3
       /\ \A k \in 1..(3 * m) + 3 : back'[k] = ByteAt(in, k - 1)
  <2> DEFINE l == 3 * m
  <2>1. l \in Nat /\ Len(back) = l /\ \A k \in 1..l : back[k] = ByteAt(in, k - 1)
    BY <1>4
  <2>2. <<a, b, c>> \in Seq(Byte) /\ Len(<<a, b, c>>) = 3
    BY <1>6
  <2>3. /\ a = ByteAt(in, l) /\ b = ByteAt(in, l + 1) /\ c = ByteAt(in, l + 2)
    BY DEF a, b, c
  <2> HIDE DEF l
  <2>4. /\ back' \in Seq(Byte) /\ Len(back') = l + 3
        /\ \A k \in 1..l + 3 : back'[k] = IF k =< l THEN back[k] ELSE <<a, b, c>>[k - l]
    <3>1. /\ back' \in Seq(Byte) /\ Len(back') = Len(back) + Len(<<a, b, c>>)
          /\ \A k \in 1..Len(back) + Len(<<a, b, c>>) :
               back'[k] = IF k =< Len(back) THEN back[k] ELSE <<a, b, c>>[k - Len(back)]
      BY <1>2, <1>10, <2>2, ConcatProperties, Zenon
    <3>2. Len(back) = l /\ Len(<<a, b, c>>) = 3
      BY <2>1, <2>2
    <3> QED
      BY <3>1, <3>2, Zenon
  <2>5. ASSUME NEW k \in 1..l + 3 PROVE back'[k] = ByteAt(in, k - 1)
    <3>1. CASE k =< l
      BY <2>1, <2>4, <3>1
    <3>2. CASE k = l + 1
      BY <2>1, <2>3, <2>4, <3>2
    <3>3. CASE k = l + 2
      BY <2>1, <2>3, <2>4, <3>3
    <3>4. CASE k = l + 3
      BY <2>1, <2>3, <2>4, <3>4
    <3> QED
      BY <2>1, <3>1, <3>2, <3>3, <3>4
  <2> QED
    BY <2>4, <2>5 DEF l
<1>12. ReadBack(m + 1)'
  <2>1. i' = 4 * (m + 1) /\ Len(back') = 3 * (m + 1) /\ 3 * (m + 1) = (3 * m) + 3
    BY <1>1, <1>4, <1>11
  <2> QED
    BY <1>1, <1>11, <2>1 DEF ReadBack
<1>13. Closed(n)'
  BY <1>1, <1>3 DEF Closed, Reads, Sextets, Padding
<1>14. m + 1 \in Nat /\ m + 1 =< n
  BY <1>5
<1>15. Base64Inv'
  BY <1>1, <1>2, <1>12, <1>13, <1>14 DEF Base64Inv, Decoded
<1> QED
  BY <1>1, <1>2, <1>4, <1>11, <1>15 DEF TypeInv, TypeOK

\* decode()'s end: "==" stands for the two bytes that are taken off, and a
\* single "=" for one that is not.
LEMMA DecodeStripKeeps ==
  ASSUME TypeInv, DecodeStrip
  PROVE  TypeInv'
<1>1. /\ job = "base64" /\ job' = job /\ in' = in /\ out' = out /\ num' = num /\ i' = i
      /\ stage = "back" /\ stage' = "done" /\ i >= Len(out)
      /\ back' = Strip(back)
  BY DEF DecodeStrip
<1>2. /\ in \in Seq(Byte) /\ out \in Seq(Byte) /\ back \in Seq(Byte) /\ num \in Nat /\ i \in Nat
      /\ Base64Inv /\ Len(in) > 0
  BY <1>1 DEF TypeInv, TypeOK, Base64Inv
<1>3. PICK n \in Nat, m \in Nat : Closed(n) /\ ReadBack(m) /\ m =< n
  BY <1>1, <1>2 DEF Base64Inv
<1> DEFINE p == Padding
           l == Len(in)
<1>4. /\ Len(out) = 4 * n /\ 3 * n = l + p /\ i = 4 * m /\ Len(back) = 3 * m
      /\ \A k \in 1..4 * n : out[k] = Pad <=> k > (4 * n) - p
      /\ \A k \in 1..3 * m : back[k] = ByteAt(in, k - 1)
  BY <1>3 DEF Closed, ReadBack
<1>5. m = n
  BY <1>1, <1>3, <1>4
<1>6. l \in Nat /\ l > 0 /\ p \in 0..2 /\ (l % 3 = 2 <=> p = 1)
  <2>1. l \in Nat /\ l > 0
    BY <1>2
  <2> HIDE DEF l
  <2>2. (3 - (l % 3)) % 3 \in 0..2 /\ (l % 3 = 2 <=> (3 - (l % 3)) % 3 = 1)
    BY <2>1
  <2> QED
    BY <2>1, <2>2 DEF Padding, l
<1> HIDE DEF p, l
<1>7. n >= 1 /\ Len(back) = l + p
  BY <1>4, <1>5, <1>6
<1>8. \A k \in 1..l : back[k] = in[k]
  <2>1. ASSUME NEW k \in 1..l PROVE back[k] = in[k]
    <3>1. k \in 1..3 * m /\ k - 1 \in Nat /\ k - 1 < Len(in) /\ (k - 1) + 1 = k
      <4>1. l \in Nat /\ 3 * m = l + p /\ p \in 0..2
        BY <1>4, <1>5, <1>6
      <4>2. k \in 1..3 * m /\ k - 1 \in Nat /\ k - 1 < l /\ (k - 1) + 1 = k
        BY <4>1
      <4> QED
        BY <4>2 DEF l
    <3> QED
      BY <1>4, <3>1 DEF ByteAt
  <2> QED
    BY <2>1
<1>9. p = 1 => back[l + 1] = 0
  <2> SUFFICES ASSUME p = 1 PROVE back[l + 1] = 0
    OBVIOUS
  <2>1. l + 1 \in 1..3 * m /\ (l + 1) - 1 = l
    BY <1>4, <1>5, <1>6
  <2>2. ByteAt(in, l) = 0
    <3>1. l \in Nat /\ l >= Len(in)
      BY <1>6 DEF l
    <3> QED
      BY <1>2, <3>1, ByteAtType
  <2> QED
    BY <1>4, <2>1, <2>2
<1>10. back' = IF p = 2 THEN SubSeq(back, 1, Len(back) - 2) ELSE back
  <2>1. 4 * n \in 1..4 * n /\ (4 * n) - 1 \in 1..4 * n
    BY <1>7
  <2>2. (out[4 * n] = Pad <=> p >= 1) /\ (out[(4 * n) - 1] = Pad <=> p = 2)
    BY <1>4, <1>6, <2>1
  <2>3. CASE p = 2
    BY <1>1, <1>4, <2>2, <2>3 DEF Strip
  <2>4. CASE p # 2
    BY <1>1, <1>4, <2>2, <2>4 DEF Strip
  <2> QED
    BY <2>3, <2>4
<1>11. CASE p = 2
  <2>1. Len(back) - 2 = l /\ back' = SubSeq(back, 1, l)
    BY <1>6, <1>7, <1>10, <1>11
  <2>2. \A k \in 1..l : back[k] \in Byte
    BY <1>2, <1>6, <1>7, <1>11
  <2>3. /\ back' \in Seq(Byte) /\ Len(back') = l
        /\ \A k \in 1..l : back'[k] = back[k]
    <3>1. 1 \in Int /\ l \in Int /\ 1 =< l /\ l - 1 + 1 = l
      BY <1>6
    <3>2. /\ back' \in Seq(Byte)
          /\ Len(back') = IF 1 =< l THEN l - 1 + 1 ELSE 0
          /\ \A k \in 1..l - 1 + 1 : back'[k] = back[1 + k - 1]
      BY <2>1, <2>2, <3>1, SubSeqProperties
    <3> QED
      BY <3>1, <3>2
  <2>4. back' = in
    BY <1>2, <1>8, <2>3, SeqEqual DEF l
  <2>5. l % 3 # 2
    BY <1>6, <1>11
  <2>6. in \o <<>> = in
    BY <1>2
  <2>7. Decoded'
    BY <1>1, <2>4, <2>5, <2>6 DEF Decoded, l
  <2> QED
    BY <1>1, <1>2, <2>3, <2>7 DEF TypeInv, TypeOK, Base64Inv
<1>12. CASE p = 1
  <2>1. back' = back /\ Len(back) = l + 1 /\ l % 3 = 2
    BY <1>6, <1>7, <1>10, <1>12
  <2>2. /\ in \o <<0>> \in Seq(Byte) /\ Len(in \o <<0>>) = l + 1
        /\ \A k \in 1..l : (in \o <<0>>)[k] = in[k]
        /\ (in \o <<0>>)[l + 1] = 0
    <3>1. <<0>> \in Seq(Byte) /\ Len(<<0>>) = 1 /\ <<0>>[1] = 0
      BY DEF Byte
    <3>2. Len(in) = l /\ l \in Nat /\ l + 1 \in 1..l + 1 /\ ~(l + 1 =< l) /\ (l + 1) - l = 1
          /\ \A k \in 1..l : k \in 1..l + 1 /\ k =< l
      BY <1>6 DEF l
    <3> DEFINE z == <<0>>
    <3> HIDE DEF z
    <3>3. /\ in \o z \in Seq(Byte) /\ Len(in \o z) = Len(in) + Len(z)
          /\ \A k \in 1..Len(in) + Len(z) :
               (in \o z)[k] = IF k =< Len(in) THEN in[k] ELSE z[k - Len(in)]
      BY <1>2, <3>1, ConcatProperties DEF z
    <3>4. Len(z) = 1 /\ z[1] = 0
      BY <3>1 DEF z
    <3>5. /\ in \o z \in Seq(Byte) /\ Len(in \o z) = l + 1
          /\ \A k \in 1..l + 1 : (in \o z)[k] = IF k =< l THEN in[k] ELSE z[k - l]
      BY <3>2, <3>3, <3>4
    <3>6. (in \o z)[l + 1] = 0 /\ \A k \in 1..l : (in \o z)[k] = in[k]
      BY <3>2, <3>4, <3>5
    <3> QED
      BY <3>5, <3>6 DEF z
  <2>3. \A k \in 1..l + 1 : back[k] = (in \o <<0>>)[k]
    BY <1>6, <1>8, <1>9, <1>12, <2>2
  <2>4. back = in \o <<0>>
    BY <1>2, <2>1, <2>2, <2>3, SeqEqual
  <2>5. Decoded'
    BY <1>1, <2>1, <2>4 DEF Decoded, l
  <2> QED
    BY <1>1, <1>2, <2>1, <2>5 DEF TypeInv, TypeOK, Base64Inv
<1>13. CASE p = 0
  <2>1. back' = back /\ Len(back) = l /\ l % 3 # 2
    BY <1>6, <1>7, <1>10, <1>13
  <2>2. back = in /\ in \o <<>> = in
    BY <1>2, <1>8, <2>1, SeqEqual DEF l
  <2>3. Decoded'
    BY <1>1, <2>1, <2>2 DEF Decoded, l
  <2> QED
    BY <1>1, <1>2, <2>1, <2>3 DEF TypeInv, TypeOK, Base64Inv
<1> QED
  BY <1>6, <1>11, <1>12, <1>13

LEMMA NextKeeps == TypeInv /\ [Next]_vars => TypeInv'
<1> SUFFICES ASSUME TypeInv, [Next]_vars PROVE TypeInv'
  OBVIOUS
<1>1. CASE UNCHANGED vars
  <2>1. /\ job' = job /\ in' = in /\ i' = i /\ out' = out /\ back' = back
        /\ num' = num /\ stage' = stage
    BY <1>1 DEF vars
  <2>2. TypeOK' <=> TypeOK
    BY <2>1 DEF TypeOK
  <2>3. ParseInv' <=> ParseInv
    BY <2>1 DEF ParseInv
  <2>4. WellEscaped' <=> WellEscaped
    BY <2>1 DEF WellEscaped
  <2>5. Base64Inv' <=> Base64Inv
    BY <2>1 DEF Base64Inv, Decoded, Written, Closed, ReadBack, Reads, Sextets, Padding
  <2> QED
    BY <2>1, <2>2, <2>3, <2>4, <2>5 DEF TypeInv
<1>2. CASE ParseScale \/ ParseAdd \/ ParseEnd
  BY <1>2, ParseKeeps
<1>3. CASE WriteDigit \/ WriteEnd
  BY <1>3, WriteKeeps
<1>4. CASE PercentDecode \/ PercentEnd
  BY <1>4, PercentKeeps
<1>5. CASE EncodeComponent \/ StartBack \/ DecodeComponent \/ ComponentEnd
  BY <1>5, ComponentKeeps
<1>6. CASE EncodeGroup
  BY <1>6, EncodeGroupKeeps
<1>7. CASE EncodePad
  BY <1>7, EncodePadKeeps
<1>8. CASE DecodeGroup
  BY <1>8, DecodeGroupKeeps
<1>9. CASE DecodeStrip
  BY <1>9, DecodeStripKeeps
<1>10. CASE Select \/ SelectNext \/ SelectOther
  BY <1>10, SelectKeeps
<1> QED
  BY <1>1, <1>2, <1>3, <1>4, <1>5, <1>6, <1>7, <1>8, <1>9, <1>10 DEF Next

\* TypeOK for every input: in particular every character that percent_decode()
\* and the decoders read is there, and every character they write is a byte.
THEOREM TypesKept == Spec => []TypeOK
<1>1. TypeInv => TypeOK
  BY DEF TypeInv
<1> QED
  BY <1>1, InitTypes, NextKeeps, PTL DEF Spec

\* parse_uint() never computes a number beyond MaxInt, whatever MaxInt is and
\* however long its input: the tests before n *= 10 and n += digit are exact.
THEOREM NumbersFit == Spec => []NoOverflow
<1>1. TypeInv => NoOverflow
  BY DEF TypeInv, ParseInv, NoOverflow
<1> QED
  BY <1>1, InitTypes, NextKeeps, PTL DEF Spec

\* decode() gives back, in its place, every byte that encodeFromArray() was given,
\* for arrays of any length, and nothing after them but a zero where the text ends
\* in a single "=".
THEOREM BytesReturn == Spec => []Base64Returns
<1>1. TypeOK => in \o <<>> = in
  BY DEF TypeOK
<1>2. TypeInv => Base64Returns
  BY <1>1 DEF TypeInv, Base64Inv, Decoded, Base64Returns
<1> QED
  BY <1>2, InitTypes, NextKeeps, PTL DEF Spec

(***************************************************************************)
(* encodeURIComponent() and back                                           *)
(***************************************************************************)

\* The escapes of the first n characters lie one after the other in the output,
\* the k-th one behind its first p[k - 1] characters.
Laid(p, n) ==
    /\ p[0] = 0 /\ p[n] = Len(out)
    /\ \A k \in 0..n - 1 :
         /\ p[k + 1] = p[k] + Len(Escaped(in[k + 1])) /\ p[k + 1] =< Len(out)
         /\ \A j \in 1..Len(Escaped(in[k + 1])) : out[p[k] + j] = Escaped(in[k + 1])[j]

\* The decoder stands between two of them, and has written what is behind it.
Between(p) ==
    \E k \in 0..Len(in) : i = p[k] /\ Len(back) = k /\ \A j \in 1..k : back[j] = in[j]

ComponentInv ==
    job = "URIComponent" =>
        /\ stage = "run" =>
             i =< Len(in) /\ back = <<>> /\ \E p \in [0..i -> Nat] : Laid(p, i)
        /\ stage = "back" => \E p \in [0..Len(in) -> Nat] : Laid(p, Len(in)) /\ Between(p)
        /\ ComponentReturns

LEMMA InitComponent == Init => ComponentInv
<1> SUFFICES ASSUME Init, job = "URIComponent" PROVE ComponentInv
  BY DEF ComponentInv
<1>1. in \in Seq(Byte) /\ i = 0 /\ out = <<>> /\ back = <<>> /\ stage = "run"
  BY InitTypes DEF Init, TypeInv, TypeOK
<1> DEFINE p == [k \in 0..0 |-> 0]
<1>2. p \in [0..0 -> Nat] /\ p[0] = 0 /\ Len(out) = 0
  BY <1>1
<1> HIDE DEF p
<1>3. Laid(p, 0)
  BY <1>2 DEF Laid
<1>4. \E q \in [0..i -> Nat] : Laid(q, i)
  BY <1>1, <1>2, <1>3
<1> QED
  BY <1>1, <1>4 DEF ComponentInv, ComponentReturns

\* One more character is escaped.
LEMMA EncodeLays ==
  ASSUME TypeInv, ComponentInv, EncodeComponent
  PROVE  ComponentInv'
<1> DEFINE e == Escaped(in[i + 1])
           L == Len(out)
           d == Len(e)
<1>1. /\ job = "URIComponent" /\ stage = "run" /\ i < Len(in)
      /\ job' = job /\ in' = in /\ stage' = stage /\ back' = back
      /\ out' = out \o e /\ i' = i + 1
  BY DEF EncodeComponent, More, Next1
<1>2. /\ in \in Seq(Byte) /\ out \in Seq(Byte) /\ i \in Nat /\ back = <<>>
  BY <1>1 DEF TypeInv, TypeOK, ComponentInv
<1>3. e \in Seq(Byte) /\ d \in Nat /\ L \in Nat
  <2>1. in[i + 1] \in Byte
    BY <1>1, <1>2
  <2>2. e \in Seq(Byte)
    BY <2>1, EscapedShape
  <2> HIDE DEF e
  <2> QED
    BY <1>2, <2>2
<1>4. PICK m \in [0..i -> Nat] : Laid(m, i)
  BY <1>1 DEF ComponentInv
<1>5. /\ Len(out') = L + d
      /\ \A k \in 1..L : out'[k] = out[k]
      /\ \A k \in 1..d : out'[L + k] = e[k]
  <2> HIDE DEF e
  <2> QED
    BY <1>1, <1>2, <1>3, ConcatProperties
<1> DEFINE q == [k \in 0..i + 1 |-> IF k = i + 1 THEN L + d ELSE m[k]]
<1>6. q \in [0..i + 1 -> Nat] /\ q[i + 1] = L + d /\ \A k \in 0..i : q[k] = m[k]
  <2> HIDE DEF L, d
  <2> QED
    BY <1>2, <1>3, <1>4
<1> HIDE DEF q
<1>7. ASSUME NEW k \in 0..i
      PROVE  /\ q[k + 1] = q[k] + Len(Escaped(in[k + 1])) /\ q[k + 1] =< Len(out')
             /\ \A j \in 1..Len(Escaped(in[k + 1])) : out'[q[k] + j] = Escaped(in[k + 1])[j]
  <2>1. CASE k < i
    <3> DEFINE f == Escaped(in[k + 1])
    <3>1. k \in 0..i - 1 /\ k \in 0..i /\ k + 1 \in 0..i
      BY <1>2, <2>1
    <3>2. /\ m[k + 1] = m[k] + Len(f) /\ m[k + 1] =< L
          /\ \A j \in 1..Len(f) : out[m[k] + j] = f[j]
      BY <1>4, <3>1 DEF Laid
    <3>3. in[k + 1] \in Byte
      BY <1>1, <1>2, <3>1
    <3>4. f \in Seq(Byte)
      BY <3>3, EscapedShape
    <3> HIDE DEF f, L, d, e
    <3>5. m[k] \in Nat /\ m[k + 1] \in Nat /\ Len(f) \in Nat
      BY <1>4, <3>1, <3>4
    <3>6. ASSUME NEW j \in 1..Len(f) PROVE out'[q[k] + j] = f[j]
      <4>1. m[k] + j \in 1..L
        BY <1>3, <3>2, <3>5
      <4> QED
        BY <1>5, <1>6, <3>1, <3>2, <4>1
    <3>7. q[k + 1] = q[k] + Len(f) /\ q[k + 1] =< Len(out')
      BY <1>3, <1>5, <1>6, <3>1, <3>2, <3>5
    <3> QED
      BY <3>6, <3>7 DEF f
  <2>2. CASE k = i
    <3>1. m[i] = L
      BY <1>4 DEF Laid
    <3>2. q[k] = L /\ q[k + 1] = L + d
      BY <1>2, <1>6, <2>2, <3>1
    <3> HIDE DEF L, d
    <3>3. q[k + 1] =< Len(out')
      BY <1>3, <1>5, <3>2
    <3>4. \A j \in 1..d : out'[q[k] + j] = e[j]
      BY <1>5, <3>2
    <3> QED
      BY <2>2, <3>2, <3>3, <3>4 DEF d
  <2> QED
    BY <1>2, <2>1, <2>2
<1>8. /\ q[0] = 0 /\ q[i'] = Len(out')
      /\ \A k \in 0..i' - 1 :
           /\ q[k + 1] = q[k] + Len(Escaped(in'[k + 1])) /\ q[k + 1] =< Len(out')
           /\ \A j \in 1..Len(Escaped(in'[k + 1])) : out'[q[k] + j] = Escaped(in'[k + 1])[j]
  <2>1. q[0] = 0
    BY <1>2, <1>4, <1>6 DEF Laid
  <2>2. q[i + 1] = Len(out')
    BY <1>5, <1>6
  <2>3. (i + 1) - 1 = i
    BY <1>2
  <2> QED
    BY <1>1, <1>7, <2>1, <2>2, <2>3
<1>9. (\E p \in [0..i -> Nat] : Laid(p, i))'
  <2>1. q \in [0..i' -> Nat]
    BY <1>1, <1>6
  <2>2. \E r \in [0..i' -> Nat] :
          /\ r[0] = 0 /\ r[i'] = Len(out')
          /\ \A k \in 0..i' - 1 :
               /\ r[k + 1] = r[k] + Len(Escaped(in'[k + 1])) /\ r[k + 1] =< Len(out')
               /\ \A j \in 1..Len(Escaped(in'[k + 1])) : out'[r[k] + j] = Escaped(in'[k + 1])[j]
    BY <1>8, <2>1, Zenon
  <2> QED
    BY <2>2 DEF Laid
<1>10. stage' # "back" /\ stage' # "done"
  BY <1>1
<1> QED
  <2>1. i' =< Len(in') /\ back' = <<>>
    BY <1>1, <1>2
  <2> HIDE DEF L, d, e
  <2> QED
    BY <1>9, <1>10, <2>1 DEF ComponentInv, ComponentReturns

\* The decoder starts before the first escape.
LEMMA StartsBetween ==
  ASSUME TypeInv, ComponentInv, StartBack
  PROVE  ComponentInv'
<1>1. /\ job = "URIComponent" /\ stage = "run" /\ ~(i < Len(in))
      /\ job' = job /\ in' = in /\ out' = out /\ back' = back /\ stage' = "back" /\ i' = 0
  BY DEF StartBack, More
<1>2. in \in Seq(Byte) /\ i \in Nat /\ i =< Len(in) /\ back = <<>>
  BY <1>1 DEF TypeInv, TypeOK, ComponentInv
<1>3. i = Len(in)
  BY <1>1, <1>2
<1>4. PICK p \in [0..i -> Nat] : Laid(p, i)
  BY <1>1 DEF ComponentInv
<1>5. p \in [0..Len(in) -> Nat] /\ Laid(p, Len(in))
  BY <1>3, <1>4
<1>6. Laid(p, Len(in))'
  BY <1>1, <1>5 DEF Laid
<1>7. Between(p)'
  <2>1. p[0] = 0 /\ 0 \in 0..Len(in) /\ Len(back) = 0
    BY <1>2, <1>5 DEF Laid
  <2>2. i' = p[0] /\ Len(back') = 0 /\ 0 \in 0..Len(in') /\ \A j \in 1..0 : back'[j] = in'[j]
    BY <1>1, <2>1
  <2> QED
    BY <2>2 DEF Between
<1> QED
  BY <1>1, <1>5, <1>6, <1>7 DEF ComponentInv, ComponentReturns

\* What the decoder makes of the escape that follows k characters: all of it,
\* and the character it stands for.
LEMMA DecodesOne ==
  ASSUME TypeInv, job = "URIComponent", stage = "back",
         NEW p \in [0..Len(in) -> Nat], Laid(p, Len(in)),
         NEW k \in 0..Len(in) - 1, i = p[k], DecodeComponent
  PROVE  i' = p[k + 1] /\ back' = Append(back, in[k + 1])
<1> DEFINE c == in[k + 1]
<1>1. in \in Seq(Byte) /\ k + 1 \in 1..Len(in) /\ i \in Nat
  BY DEF TypeInv, TypeOK
<1>2. c \in Byte
  BY <1>1
<1>3. /\ p[k + 1] = i + Len(Escaped(c))
      /\ \A j \in 1..Len(Escaped(c)) : out[i + j] = Escaped(c)[j]
  BY DEF Laid
<1>4. IF out[i + 1] = Percent
      THEN back' = Append(back, FromHex(out[i + 2], out[i + 3])) /\ i' = i + 3
      ELSE back' = Append(back, IF out[i + 1] = Plus THEN Space ELSE out[i + 1]) /\ i' = i + 1
  BY DEF DecodeComponent
<1> HIDE DEF c
<1>5. CASE Escaped(c) = <<c>> /\ c \notin {Percent, Plus}
  <2>1. Len(<<c>>) = 1 /\ <<c>>[1] = c
    OBVIOUS
  <2>2. p[k + 1] = i + 1 /\ out[i + 1] = c
    BY <1>3, <1>5, <2>1
  <2> QED
    BY <1>4, <1>5, <2>2 DEF c
<1>6. CASE Escaped(c) = <<Plus>> /\ c = Space
  <2>1. Len(<<Plus>>) = 1 /\ <<Plus>>[1] = Plus /\ Plus # Percent
    BY DEF Plus, Percent
  <2>2. p[k + 1] = i + 1 /\ out[i + 1] = Plus
    BY <1>3, <1>6, <2>1
  <2> QED
    BY <1>4, <1>6, <2>1, <2>2 DEF c
<1>7. CASE \E h, l \in Digits16 : Escaped(c) = <<Percent, h, l>> /\ FromHex(h, l) = c
  <2>1. PICK h, l \in Digits16 : Escaped(c) = <<Percent, h, l>> /\ FromHex(h, l) = c
    BY <1>7
  <2>2. /\ Len(<<Percent, h, l>>) = 3 /\ <<Percent, h, l>>[1] = Percent
        /\ <<Percent, h, l>>[2] = h /\ <<Percent, h, l>>[3] = l
    OBVIOUS
  <2>3. p[k + 1] = i + 3 /\ out[i + 1] = Percent /\ out[i + 2] = h /\ out[i + 3] = l
    BY <1>3, <2>1, <2>2
  <2> QED
    BY <1>4, <2>1, <2>3 DEF c
<1> QED
  BY <1>2, <1>5, <1>6, <1>7, EscapedForms

\* A decoder that has not read everything stands before an escape, one that has
\* stands behind the last.
LEMMA WhereBetween ==
  ASSUME TypeInv, NEW p \in [0..Len(in) -> Nat], Laid(p, Len(in)), NEW k \in 0..Len(in), i = p[k]
  PROVE  i < Len(out) <=> k < Len(in)
<1>1. in \in Seq(Byte) /\ i \in Nat /\ out \in Seq(Byte) /\ p[Len(in)] = Len(out)
  BY DEF TypeInv, TypeOK, Laid
<1>2. CASE k < Len(in)
  <2>1. k \in 0..Len(in) - 1 /\ k + 1 \in 1..Len(in)
    BY <1>1, <1>2
  <2>2. p[k + 1] = i + Len(Escaped(in[k + 1])) /\ p[k + 1] =< Len(out)
    BY <2>1 DEF Laid
  <2>3. Escaped(in[k + 1]) \in Seq(Byte) /\ Len(Escaped(in[k + 1])) >= 1
    <3>1. in[k + 1] \in Byte
      BY <1>1, <2>1
    <3> QED
      BY <3>1, EscapedShape
  <2> DEFINE d == Len(Escaped(in[k + 1]))
  <2>4. d \in Nat /\ d >= 1
    BY <2>3
  <2> HIDE DEF d
  <2>5. i + d =< Len(out)
    BY <2>2 DEF d
  <2> QED
    BY <1>1, <1>2, <2>4, <2>5
<1>3. CASE k = Len(in)
  BY <1>1, <1>3
<1> QED
  BY <1>1, <1>2, <1>3

LEMMA DecodesBetween ==
  ASSUME TypeInv, ComponentInv, DecodeComponent \/ ComponentEnd
  PROVE  ComponentInv'
<1>1. /\ job = "URIComponent" /\ stage = "back"
      /\ job' = job /\ in' = in /\ out' = out
  BY DEF DecodeComponent, ComponentEnd, End
<1>2. PICK p \in [0..Len(in) -> Nat] : Laid(p, Len(in)) /\ Between(p)
  BY <1>1 DEF ComponentInv
<1>3. PICK k \in 0..Len(in) : i = p[k] /\ Len(back) = k /\ \A j \in 1..k : back[j] = in[j]
  BY <1>2 DEF Between
<1>4. in \in Seq(Byte) /\ i \in Nat /\ out \in Seq(Byte) /\ back \in Seq(Byte)
  BY DEF TypeInv, TypeOK
<1>5. i < Len(out) <=> k < Len(in)
  BY <1>2, <1>3, WhereBetween
<1>6. Laid(p, Len(in))'
  BY <1>1, <1>2 DEF Laid
<1>7. CASE DecodeComponent
  <2>1. k \in 0..Len(in) - 1 /\ k + 1 \in 1..Len(in) /\ stage' = stage
    BY <1>3, <1>4, <1>5, <1>7 DEF DecodeComponent
  <2>2. i' = p[k + 1] /\ back' = Append(back, in[k + 1])
    BY <1>1, <1>2, <1>3, <1>7, <2>1, DecodesOne
  <2>3. in[k + 1] \in Byte
    BY <1>4, <2>1
  <2>4. /\ Len(back') = k + 1 /\ back'[k + 1] = in[k + 1]
        /\ \A j \in 1..k : back'[j] = back[j]
    BY <1>3, <1>4, <2>2, <2>3, AppendProperties
  <2>5. \A j \in 1..k + 1 : back'[j] = in[j]
    BY <1>3, <2>1, <2>4
  <2>6. Between(p)'
    <3>1. /\ k + 1 \in 0..Len(in') /\ i' = p[k + 1] /\ Len(back') = k + 1
          /\ \A j \in 1..k + 1 : back'[j] = in'[j]
      BY <1>1, <2>1, <2>2, <2>4, <2>5
    <3> QED
      BY <3>1 DEF Between
  <2> QED
    BY <1>1, <1>2, <1>6, <2>1, <2>6 DEF ComponentInv, ComponentReturns
<1>8. CASE ComponentEnd
  <2>1. i = Len(out) /\ stage' = "done" /\ back' = back
    BY <1>8 DEF ComponentEnd, End
  <2>2. k = Len(in)
    BY <1>3, <1>4, <1>5, <2>1
  <2>3. back = in
    BY <1>3, <1>4, <2>2, SeqEqual
  <2> QED
    BY <1>1, <2>1, <2>3 DEF ComponentInv, ComponentReturns
<1> QED
  BY <1>7, <1>8

LEMMA NextComponent == TypeInv /\ ComponentInv /\ [Next]_vars => ComponentInv'
<1> SUFFICES ASSUME TypeInv, ComponentInv, [Next]_vars PROVE ComponentInv'
  OBVIOUS
<1>1. CASE UNCHANGED vars
  <2>1. /\ job' = job /\ in' = in /\ i' = i /\ out' = out /\ back' = back /\ stage' = stage
    BY <1>1 DEF vars
  <2>2. \A p, n : Laid(p, n)' = Laid(p, n)
    BY <2>1 DEF Laid
  <2>3. \A p : Between(p)' = Between(p)
    BY <2>1 DEF Between
  <2> QED
    BY <2>1, <2>2, <2>3 DEF ComponentInv, ComponentReturns
<1>2. CASE EncodeComponent
  BY <1>2, EncodeLays
<1>3. CASE StartBack
  BY <1>3, StartsBetween
<1>4. CASE DecodeComponent \/ ComponentEnd
  BY <1>4, DecodesBetween
<1>5. ASSUME job' # "URIComponent" PROVE ComponentInv'
  BY <1>5 DEF ComponentInv
<1>6. ASSUME job # "URIComponent", job' = job PROVE ComponentInv'
  BY <1>5, <1>6
<1>7. CASE ParseScale \/ ParseAdd \/ ParseEnd
  BY <1>6, <1>7 DEF ParseScale, ParseAdd, ParseEnd, End
<1>8. CASE WriteDigit \/ WriteEnd \/ PercentDecode \/ PercentEnd
  BY <1>6, <1>8 DEF WriteDigit, WriteEnd, PercentDecode, PercentEnd, End
<1>9. CASE EncodeGroup \/ EncodePad \/ DecodeGroup \/ DecodeStrip
  BY <1>6, <1>9 DEF EncodeGroup, EncodePad, DecodeGroup, DecodeStrip
<1>10. CASE Select \/ SelectNext \/ SelectOther
  BY <1>6, <1>10 DEF Select, SelectNext, SelectOther
<1> QED
  BY <1>1, <1>2, <1>3, <1>4, <1>7, <1>8, <1>9, <1>10 DEF Next

\* decodeURIComponent() gives back every string of bytes, of any length, that
\* encodeURIComponent() was given: a "%" or a "+" of the string, and a space, too.
THEOREM StringsReturn == Spec => []ComponentReturns
<1>1. ComponentInv /\ TypeInv => ComponentReturns
  BY DEF ComponentInv, ComponentReturns
<1>2. Init => TypeInv /\ ComponentInv
  BY InitTypes, InitComponent
<1>3. TypeInv /\ ComponentInv /\ [Next]_vars => TypeInv' /\ ComponentInv'
  BY NextKeeps, NextComponent
<1> QED
  BY <1>1, <1>2, <1>3, PTL DEF Spec

\* Which steps each function takes; none changes the function, or its input.
LEMMA StepsOf ==
  ASSUME [Next]_vars
  PROVE  /\ job' = job /\ in' = in
         /\ \/ UNCHANGED vars
            \/ job = "parse_uint" /\ (ParseScale \/ ParseAdd \/ ParseEnd)
            \/ job = "utos" /\ (WriteDigit \/ WriteEnd)
            \/ job = "percent_decode" /\ (PercentDecode \/ PercentEnd)
            \/ job = "URIComponent"
            \/ job = "base64" /\ (EncodeGroup \/ EncodePad \/ DecodeGroup \/ DecodeStrip)
            \/ job = "selectH2" /\ (Select \/ SelectNext \/ SelectOther)
<1>1. CASE UNCHANGED vars
  BY <1>1 DEF vars
<1>2. CASE ParseScale \/ ParseAdd \/ ParseEnd
  BY <1>2 DEF ParseScale, ParseAdd, ParseEnd, End
<1>3. CASE WriteDigit \/ WriteEnd
  BY <1>3 DEF WriteDigit, WriteEnd, End
<1>4. CASE PercentDecode \/ PercentEnd
  BY <1>4 DEF PercentDecode, PercentEnd, End
<1>5. CASE EncodeComponent \/ StartBack \/ DecodeComponent \/ ComponentEnd
  BY <1>5 DEF EncodeComponent, StartBack, DecodeComponent, ComponentEnd, End
<1>6. CASE EncodeGroup \/ EncodePad \/ DecodeGroup \/ DecodeStrip
  BY <1>6 DEF EncodeGroup, EncodePad, DecodeGroup, DecodeStrip
<1>7. CASE Select \/ SelectNext \/ SelectOther
  BY <1>7 DEF Select, SelectNext, SelectOther
<1> QED
  BY <1>1, <1>2, <1>3, <1>4, <1>5, <1>6, <1>7 DEF Next

-----------------------------------------------------------------------------
(* The numbers that sequences of digits say                                *)

\* The numbers that the first m characters of s say.
Says(g, m, n, s) ==
    /\ g \in [0..m -> Int] /\ g[0] = n
    /\ \A k \in 1..m : g[k] = (g[k - 1] * 10) + (s[k] - 48)

\* They exist ...
LEMMA SaysExists ==
  ASSUME NEW n \in Int, NEW s \in Seq(Int)
  PROVE  \E g : Says(g, Len(s), n, s)
<1> DEFINE S == {m \in 0..Len(s) : \E g : Says(g, m, n, s)}
<1>0. Len(s) \in Nat
  OBVIOUS
<1>1. 0 \in S
  <2>1. Says([k \in 0..0 |-> n], 0, n, s)
    BY DEF Says
  <2> QED
    BY <2>1
<1>2. ASSUME NEW m \in 0..Len(s) - 1, m \in S PROVE m + 1 \in S
  <2>1. PICK g : Says(g, m, n, s)
    BY <1>2
  <2>2. s[m + 1] \in Int /\ g[m] \in Int
    BY <2>1 DEF Says
  <2> DEFINE h == [k \in 0..m + 1 |-> IF k = m + 1 THEN (g[m] * 10) + (s[m + 1] - 48) ELSE g[k]]
  <2>3. h \in [0..m + 1 -> Int]
    BY <2>1, <2>2 DEF Says
  <2>4. h[m + 1] = (g[m] * 10) + (s[m + 1] - 48) /\ \A k \in 0..m : h[k] = g[k]
    OBVIOUS
  <2> HIDE DEF h
  <2>5. \A k \in 1..m + 1 : h[k] = (h[k - 1] * 10) + (s[k] - 48)
    <3>1. ASSUME NEW k \in 1..m + 1 PROVE h[k] = (h[k - 1] * 10) + (s[k] - 48)
      <4>1. CASE k = m + 1
        <5>1. k - 1 = m /\ m \in 0..m
          BY <4>1
        <5> QED
          BY <2>4, <4>1, <5>1
      <4>2. CASE k # m + 1
        <5>1. k \in 1..m /\ k \in 0..m /\ k - 1 \in 0..m
          BY <4>2
        <5>2. g[k] = (g[k - 1] * 10) + (s[k] - 48)
          BY <2>1, <5>1 DEF Says
        <5> QED
          BY <2>4, <5>1, <5>2
      <4> QED
        BY <4>1, <4>2
    <3> QED
      BY <3>1
  <2>6. Says(h, m + 1, n, s)
    BY <2>1, <2>3, <2>4, <2>5 DEF Says
  <2> QED
    BY <2>6
<1>3. 0..Len(s) \subseteq S
  <2>1. \A k \in 0..Len(s) - 1 : k \in S => k + 1 \in S
    BY <1>2
  <2> HIDE DEF S
  <2> QED
    BY <1>0, <1>1, <2>1, UpToInduction
<1> HIDE DEF S
<1>4. Len(s) \in S
  BY <1>0, <1>3
<1> QED
  BY <1>4 DEF S

\* ... and Values() are these.
LEMMA ValuesAre ==
  ASSUME NEW n \in Int, NEW s \in Seq(Int)
  PROVE  Says(Values(n, s), Len(s), n, s)
<1>1. PICK g : Says(g, Len(s), n, s)
  BY SaysExists
<1> DEFINE Eq(f) == f = [k \in 0..Len(s) |-> IF k = 0 THEN n ELSE f[k - 1] * 10 + (s[k] - 48)]
           F == CHOOSE f : Eq(f)
<1>2. Eq(g)
  BY <1>1 DEF Says
<1>3. Values(n, s) = F
  BY DEF Values
<1>4. Eq(F)
  <2> HIDE DEF Eq
  <2> QED
    BY <1>2
<1> HIDE DEF F
<1>5. /\ F = [k \in 0..Len(s) |-> F[k]] /\ F[0] = n
      /\ \A k \in 1..Len(s) : F[k] = (F[k - 1] * 10) + (s[k] - 48)
  <2>1. 0 \in 0..Len(s) /\ \A k \in 1..Len(s) : k \in 0..Len(s) /\ k # 0
    BY LenProperties
  <2>2. F = [k \in 0..Len(s) |-> F[k]] /\ F[0] = n
    BY <1>4, <2>1
  <2>3. ASSUME NEW k \in 1..Len(s) PROVE F[k] = (F[k - 1] * 10) + (s[k] - 48)
    BY <1>4, <2>1
  <2> QED
    BY <2>2, <2>3
<1> DEFINE S == {k \in 0..Len(s) : F[k] = g[k]}
<1>6. 0 \in S
  BY <1>1, <1>5 DEF Says
<1>7. ASSUME NEW k \in 0..Len(s) - 1, k \in S PROVE k + 1 \in S
  <2>1. k + 1 \in 1..Len(s) /\ k + 1 \in 0..Len(s) /\ (k + 1) - 1 = k
    BY LenProperties
  <2>2. F[k + 1] = (F[k] * 10) + (s[k + 1] - 48)
    BY <1>5, <2>1
  <2>3. g[k + 1] = (g[k] * 10) + (s[k + 1] - 48)
    BY <1>1, <2>1 DEF Says
  <2> QED
    BY <1>7, <2>1, <2>2, <2>3
<1>8. 0..Len(s) \subseteq S
  <2>1. Len(s) \in Nat
    OBVIOUS
  <2> HIDE DEF S
  <2>2. \A k \in 0..Len(s) - 1 : k \in S => k + 1 \in S
    BY <1>7
  <2> QED
    BY <1>6, <2>1, <2>2, UpToInduction
<1>9. F = g
  BY <1>1, <1>5, <1>8 DEF S, Says
<1> QED
  BY <1>1, <1>3, <1>9

-----------------------------------------------------------------------------
(* parse_uint() reads what its input says                                  *)

\* What it has read, it has read right; inside the loop, scaled.
ReadInv ==
    job = "parse_uint" =>
        /\ stage \in {"run", "scaled"} =>
             /\ i =< Len(in)
             /\ \A k \in 1..i : IsDigit(in[k])
             /\ num = IF stage = "run" THEN Values(0, in)[i] ELSE Values(0, in)[i] * 10
        /\ ParsedExactly

LEMMA BytesAreInts == ASSUME NEW s \in Seq(Byte) PROVE s \in Seq(Int)
<1>1. Byte \subseteq Int
  BY DEF Byte
<1> QED
  BY <1>1, SeqMonotonic

\* More digits never say less.
LEMMA ValuesGrow ==
  ASSUME NEW s \in Seq(Int), \A k \in 1..Len(s) : IsDigit(s[k]),
         NEW m \in 0..Len(s)
  PROVE  \A k \in m..Len(s) : Values(0, s)[k] \in Nat /\ Values(0, s)[k] >= Values(0, s)[m]
<1> DEFINE v == Values(0, s)
           L == Len(s)
<1>1. /\ v \in [0..L -> Int] /\ v[0] = 0
      /\ \A k \in 1..L : v[k] = (v[k - 1] * 10) + (s[k] - 48)
  BY ValuesAre DEF Says
<1>2. L \in Nat
  OBVIOUS
<1>3. \A k \in 1..L : s[k] - 48 \in 0..9
  BY DEF IsDigit
<1> HIDE DEF v, L
<1>4. ASSUME NEW k \in 0..L - 1, v[k] \in Nat
      PROVE  v[k + 1] \in Nat /\ v[k + 1] >= v[k]
  <2>1. k + 1 \in 1..L /\ (k + 1) - 1 = k
    BY <1>2
  <2>2. v[k + 1] = (v[k] * 10) + (s[k + 1] - 48) /\ s[k + 1] - 48 \in 0..9
    BY <1>1, <1>3, <2>1
  <2>3. PICK d \in 0..9 : v[k + 1] = (v[k] * 10) + d
    BY <2>2
  <2> QED
    BY <1>4, <2>3
<1> DEFINE S == {k \in 0..L : v[k] \in Nat}
<1>5. 0..L \subseteq S
  <2>1. 0 \in S
    BY <1>1, <1>2
  <2>2. \A k \in 0..L - 1 : k \in S => k + 1 \in S
    BY <1>2, <1>4
  <2> HIDE DEF S
  <2> QED
    BY <1>2, <2>1, <2>2, UpToInduction
<1> DEFINE R == {k \in 0..L - m : v[m + k] >= v[m]}
<1>6. m \in 0..L /\ L - m \in Nat
  BY <1>2 DEF L
<1>7. 0..L - m \subseteq R
  <2>1. 0 \in R
    BY <1>1, <1>6
  <2>2. ASSUME NEW k \in 0..(L - m) - 1, k \in R PROVE k + 1 \in R
    <3>1. m + k \in 0..L - 1 /\ m + k \in 0..L /\ (m + k) + 1 = m + (k + 1)
      BY <1>2, <1>6
    <3>2. v[m + k] \in Nat
      BY <1>5, <3>1
    <3>3. v[m + (k + 1)] \in Nat /\ v[m + (k + 1)] >= v[m + k]
      BY <1>4, <3>1, <3>2
    <3>4. v[m + k] >= v[m] /\ v[m] \in Int
      BY <1>1, <1>6, <2>2
    <3> QED
      BY <1>2, <1>6, <3>2, <3>3, <3>4
  <2> HIDE DEF R
  <2> QED
    BY <1>6, <2>1, <2>2, UpToInduction
<1>8. ASSUME NEW k \in m..L PROVE v[k] \in Nat /\ v[k] >= v[m]
  <2>1. k - m \in 0..L - m /\ m + (k - m) = k /\ k \in 0..L
    BY <1>2, <1>6
  <2> QED
    BY <1>5, <1>7, <2>1
<1> QED
  BY <1>8 DEF v, L

\* A sequence of digits some of which already say too much is not readable.
LEMMA TooMuch ==
  ASSUME NEW s \in Seq(Byte), NEW m \in 0..Len(s), Values(0, s)[m] > MaxInt
  PROVE  ~Readable(s)
<1> SUFFICES ASSUME Readable(s) PROVE FALSE
  OBVIOUS
<1>1. s \in Seq(Int) /\ DOMAIN s = 1..Len(s) /\ Len(s) \in Nat
  BY BytesAreInts
<1>2. \A k \in 1..Len(s) : IsDigit(s[k])
  BY <1>1 DEF Readable
<1>3. \A k \in m..Len(s) : Values(0, s)[k] \in Nat /\ Values(0, s)[k] >= Values(0, s)[m]
  BY <1>1, <1>2, ValuesGrow
<1>4. Values(0, s)[m] \in Nat /\ Values(0, s)[Len(s)] \in Nat
      /\ Values(0, s)[Len(s)] >= Values(0, s)[m]
  BY <1>1, <1>3
<1>5. Values(0, s)[Len(s)] =< MaxInt
  BY DEF Readable, Value
<1> QED
  BY <1>4, <1>5, ConversionsAssumption

LEMMA InitRead == Init => ReadInv
<1> SUFFICES ASSUME Init, job = "parse_uint" PROVE ReadInv
  BY DEF ReadInv
<1>1. in \in Seq(Byte) /\ i = 0 /\ num = 0 /\ stage = "run"
  BY InitTypes DEF Init, TypeInv, TypeOK
<1>2. in \in Seq(Int) /\ Len(in) \in Nat
  BY <1>1, BytesAreInts
<1>3. Values(0, in)[0] = 0
  BY <1>2, ValuesAre DEF Says
<1> QED
  BY <1>1, <1>2, <1>3 DEF ReadInv, ParsedExactly

LEMMA ParseReads ==
  ASSUME TypeInv, ReadInv, ParseScale \/ ParseAdd \/ ParseEnd
  PROVE  ReadInv'
<1> DEFINE v == Values(0, in)
<1>1. /\ job = "parse_uint" /\ stage \in {"run", "scaled"} /\ job' = job /\ in' = in
      /\ in \in Seq(Byte) /\ i \in Nat /\ num \in Nat /\ MaxInt \in Nat
  BY ConversionsAssumption DEF ParseScale, ParseAdd, ParseEnd, End, TypeInv, TypeOK
<1>2. in \in Seq(Int) /\ Len(in) \in Nat /\ DOMAIN in = 1..Len(in)
  BY <1>1, BytesAreInts
<1>3. /\ v \in [0..Len(in) -> Int] /\ v[0] = 0
      /\ \A k \in 1..Len(in) : v[k] = (v[k - 1] * 10) + (in[k] - 48)
  <2>1. Says(v, Len(in), 0, in)
    BY <1>2, ValuesAre
  <2> HIDE DEF v
  <2> QED
    BY <2>1 DEF Says
<1>4. /\ i =< Len(in) /\ \A k \in 1..i : IsDigit(in[k])
      /\ num = IF stage = "run" THEN v[i] ELSE v[i] * 10
  BY <1>1 DEF ReadInv
<1>5. Values(0, in)' = v /\ Readable(in)' = Readable(in) /\ Value(in)' = v[Len(in)]
  BY <1>1 DEF Values, Value, Readable
<1> HIDE DEF v
<1>6. v[i] \in Int
  BY <1>1, <1>3, <1>4
<1>7. ASSUME i < Len(in)
      PROVE  i + 1 \in 1..Len(in) /\ v[i + 1] = (v[i] * 10) + (in[i + 1] - 48) /\ in[i + 1] \in Int
  <2>1. i + 1 \in 1..Len(in) /\ (i + 1) - 1 = i
    BY <1>1, <1>2, <1>7
  <2> QED
    BY <1>2, <1>3, <2>1
<1>8. ASSUME i < Len(in), v[i + 1] > MaxInt PROVE ~Readable(in)
  BY <1>1, <1>7, <1>8, TooMuch DEF v
<1>9. CASE ParseScale
  <2>1. stage = "run" /\ i < Len(in) /\ IsDigit(in[i + 1]) /\ num = v[i]
    BY <1>4, <1>9 DEF ParseScale, More, Next1
  <2>2. v[i + 1] = (num * 10) + (in[i + 1] - 48) /\ in[i + 1] - 48 \in 0..9
    BY <1>7, <2>1 DEF IsDigit
  <2>3. CASE TooLargeToScale(num)
    <3>0. PICK d \in 0..9 : v[i + 1] = (num * 10) + d
      BY <2>2
    <3>1. v[i + 1] > MaxInt
      BY <1>1, <2>3, <3>0 DEF TooLargeToScale
    <3>2. stage' = "refused" /\ ~Readable(in)
      BY <1>8, <1>9, <2>1, <2>3, <3>1 DEF ParseScale, End
    <3> QED
      BY <1>1, <1>5, <3>2 DEF ReadInv, ParsedExactly
  <2>4. CASE ~TooLargeToScale(num)
    <3>1. num' = num * 10 /\ stage' = "scaled" /\ i' = i
      BY <1>9, <2>4 DEF ParseScale
    <3> QED
      BY <1>1, <1>4, <1>5, <2>1, <3>1 DEF ReadInv, ParsedExactly, IsDigit
  <2> QED
    BY <2>3, <2>4
<1>10. CASE ParseAdd
  <2>1. stage = "scaled" /\ i < Len(in) /\ IsDigit(in[i + 1]) /\ num = v[i] * 10
    BY <1>1, <1>4, <1>10 DEF ParseAdd, TypeInv, ParseInv
  <2>2. v[i + 1] = num + (in[i + 1] - 48)
    BY <1>7, <2>1
  <2>3. CASE TooLargeToAdd(num, Next1 - 48)
    <3>0. PICK d \in 0..9 : d = in[i + 1] - 48
      BY <1>7, <2>1 DEF IsDigit
    <3>1. v[i + 1] > MaxInt
      BY <1>1, <2>2, <2>3, <3>0 DEF TooLargeToAdd, Next1
    <3>2. stage' = "refused" /\ ~Readable(in)
      BY <1>8, <1>10, <2>1, <2>3, <3>1 DEF ParseAdd, End
    <3> QED
      BY <1>1, <1>5, <3>2 DEF ReadInv, ParsedExactly
  <2>4. CASE ~TooLargeToAdd(num, Next1 - 48)
    <3>1. num' = v[i + 1] /\ stage' = "run" /\ i' = i + 1
      BY <1>10, <2>2, <2>4 DEF ParseAdd, Next1
    <3>2. \A k \in 1..i + 1 : IsDigit(in[k])
      <4>1. \A k \in 1..i + 1 : k \in 1..i \/ k = i + 1
        BY <1>1
      <4> QED
        BY <1>4, <2>1, <4>1
    <3>3. i + 1 =< Len(in)
      BY <1>1, <1>2, <2>1
    <3> QED
      BY <1>1, <1>5, <3>1, <3>2, <3>3 DEF ReadInv, ParsedExactly, IsDigit
  <2> QED
    BY <2>3, <2>4
<1>11. CASE ParseEnd
  <2>1. stage = "run" /\ num = v[i] /\ num' = num /\ ~(More /\ IsDigit(Next1))
        /\ stage' = IF AllDigits THEN "done" ELSE "refused"
    BY <1>4, <1>11 DEF ParseEnd, End
  <2>2. CASE AllDigits
    <3>0. i =< Len(in) /\ i > 0 /\ ~(i < Len(in))
      BY <1>4, <2>2 DEF AllDigits, More
    <3>1. i = Len(in) /\ i > 0
      <4>1. i \in Nat
        BY <1>1
      <4>2. Len(in) \in Nat
        BY <1>2
      <4> QED
        BY <3>0, <4>1, <4>2
    <3>2. num =< MaxInt
      BY <1>1 DEF TypeInv, ParseInv
    <3>3. in # <<>> /\ \A k \in DOMAIN in : IsDigit(in[k])
      BY <1>2, <1>4, <3>1
    <3>4. Readable(in) /\ num' = v[Len(in)]
      BY <2>1, <3>1, <3>2, <3>3 DEF Readable, Value, v
    <3> QED
      BY <1>1, <1>5, <2>1, <2>2, <3>4 DEF ReadInv, ParsedExactly
  <2>3. CASE ~AllDigits
    <3>1. ~Readable(in)
      <4>1. CASE More
        <5>1. i + 1 \in DOMAIN in /\ ~IsDigit(in[i + 1])
          BY <1>1, <1>2, <2>1, <4>1 DEF More, Next1
        <5> QED
          BY <5>1 DEF Readable
      <4>2. CASE ~More
        <5>1. Len(in) = 0
          BY <1>1, <1>2, <1>4, <2>3, <4>2 DEF More, AllDigits
        <5>2. in = <<>>
          BY <1>1, <5>1
        <5> QED
          BY <5>2 DEF Readable
      <4> QED
        BY <4>1, <4>2
    <3> QED
      BY <1>1, <1>5, <2>1, <2>3, <3>1 DEF ReadInv, ParsedExactly
  <2> QED
    BY <2>2, <2>3
<1> QED
  BY <1>9, <1>10, <1>11

LEMMA NextRead ==
  ASSUME TypeInv, ReadInv, [Next]_vars
  PROVE  ReadInv'
<1>1. CASE UNCHANGED vars
  BY <1>1 DEF vars, ReadInv, ParsedExactly, Readable, Value, Values, IsDigit
<1>2. CASE job # "parse_uint"
  BY <1>2, StepsOf DEF ReadInv
<1> QED
  BY <1>1, <1>2, StepsOf, ParseReads

\* parse_uint() takes the sequences of digits that an int64_t can hold, of any
\* length, returns the number they say, and refuses every other input.
THEOREM NumbersAreRead == Spec => []ParsedExactly
<1>1. Init => TypeInv /\ ReadInv
  BY InitTypes, InitRead
<1>2. TypeInv /\ ReadInv /\ [Next]_vars => TypeInv' /\ ReadInv'
  BY NextKeeps, NextRead
<1>3. ReadInv => ParsedExactly
  BY DEF ReadInv, ParsedExactly
<1> QED
  BY <1>1, <1>2, <1>3, PTL DEF Spec
-----------------------------------------------------------------------------
(* utos() prints its number                                                *)

\* What is left to print, followed by what is printed, says the number; and the
\* first digit written is no zero, unless it is the only one.
PrintInv ==
    job = "utos" =>
        /\ stage = "run" =>
             /\ Values(i, out)[Len(out)] = num
             /\ i = 0 /\ out # <<>> => (out[1] = 48 => Len(out) = 1)
        /\ PrintedExactly

\* A digit before s is read as a larger number before s.
LEMMA DigitBefore ==
  ASSUME NEW n \in Int, NEW d \in Int, NEW s \in Seq(Int)
  PROVE  Values(n, <<d>> \o s)[Len(<<d>> \o s)] = Values((n * 10) + (d - 48), s)[Len(s)]
<1> DEFINE t == <<d>> \o s
           m == (n * 10) + (d - 48)
           w == Values(n, t)
           v == Values(m, s)
           L == Len(s)
<1>1. /\ t \in Seq(Int) /\ Len(t) = L + 1 /\ L \in Nat /\ m \in Int
      /\ t[1] = d /\ \A k \in 1..L : t[k + 1] = s[k]
  OBVIOUS
<1>2. /\ w[0] = n /\ \A k \in 1..Len(t) : w[k] = (w[k - 1] * 10) + (t[k] - 48)
  <2> HIDE DEF t
  <2> QED
    BY <1>1, ValuesAre DEF Says
<1>3. /\ v[0] = m /\ \A k \in 1..L : v[k] = (v[k - 1] * 10) + (s[k] - 48)
  <2> HIDE DEF m
  <2> QED
    BY <1>1, ValuesAre DEF Says
<1>4. w[1] = m
  <2>1. 1 \in 1..Len(t) /\ 1 - 1 = 0
    BY <1>1
  <2> HIDE DEF t, w
  <2>2. w[1] = (w[0] * 10) + (t[1] - 48)
    BY <1>2, <2>1
  <2> QED
    BY <1>1, <1>2, <2>2
<1> HIDE DEF t, m, w, v, L
<1> DEFINE S == {k \in 0..L : w[k + 1] = v[k]}
<1>5. 0 \in S
  BY <1>1, <1>3, <1>4
<1>6. ASSUME NEW k \in 0..L - 1, k \in S PROVE k + 1 \in S
  <2>1. /\ k + 1 \in 1..L /\ k + 1 \in 0..L /\ (k + 1) + 1 \in 1..Len(t)
        /\ (k + 1) - 1 = k /\ ((k + 1) + 1) - 1 = k + 1
    BY <1>1
  <2>2. v[k + 1] = (v[k] * 10) + (s[k + 1] - 48)
    BY <1>3, <2>1
  <2>3. w[(k + 1) + 1] = (w[k + 1] * 10) + (t[(k + 1) + 1] - 48)
    BY <1>2, <2>1
  <2>4. t[(k + 1) + 1] = s[k + 1]
    BY <1>1, <2>1
  <2> QED
    BY <1>6, <2>1, <2>2, <2>3, <2>4
<1>7. 0..L \subseteq S
  <2>1. \A k \in 0..L - 1 : k \in S => k + 1 \in S
    BY <1>6
  <2> HIDE DEF S
  <2> QED
    BY <1>1, <1>5, <2>1, UpToInduction
<1>8. w[L + 1] = v[L]
  BY <1>1, <1>7
<1> QED
  BY <1>1, <1>8 DEF t, m, w, v, L

LEMMA InitPrint == Init => PrintInv
<1> SUFFICES ASSUME Init, job = "utos" PROVE PrintInv
  BY DEF PrintInv
<1>1. i = num /\ num \in Nat /\ out = <<>> /\ stage = "run"
  BY InitTypes DEF Init, TypeInv, TypeOK
<1>2. out \in Seq(Int) /\ Len(out) = 0 /\ i \in Int
  BY <1>1
<1>3. Values(i, out)[0] = i
  BY <1>2, ValuesAre DEF Says
<1> QED
  BY <1>1, <1>2, <1>3 DEF PrintInv, PrintedExactly

LEMMA NextPrint ==
  ASSUME TypeInv, PrintInv, [Next]_vars
  PROVE  PrintInv'
<1>1. CASE UNCHANGED vars
  BY <1>1 DEF vars, PrintInv, PrintedExactly, Value, Values
<1>2. ASSUME job # "utos" PROVE PrintInv'
  BY <1>2, StepsOf DEF PrintInv
<1>3. CASE job = "utos" /\ WriteDigit
  <2>1. /\ job' = job /\ num' = num /\ stage' = "run" /\ i' = i \div 10
        /\ out' = <<48 + (i % 10)>> \o out /\ stage = "run"
        /\ i > 0 \/ out = <<>>
    BY <1>3 DEF WriteDigit, PrintDigit
  <2>2. i \in Nat /\ out \in Seq(Byte)
    BY DEF TypeInv, TypeOK
  <2>3. out \in Seq(Int)
    BY <2>2, BytesAreInts
  <2> DEFINE n == i \div 10
             d == 48 + (i % 10)
  <2>4. n \in Nat /\ d \in 48..57 /\ (n * 10) + (d - 48) = i
    BY <2>2
  <2>5. Values(i, out)[Len(out)] = num
    BY <1>3, <2>1 DEF PrintInv
  <2> HIDE DEF n, d
  <2>6. Values(n, <<d>> \o out)[Len(<<d>> \o out)] = Values((n * 10) + (d - 48), out)[Len(out)]
    <3>1. n \in Int /\ d \in Int
      BY <2>4
    <3> QED
      BY <2>3, <3>1, DigitBefore
  <2>7. Values(n, <<d>> \o out)[Len(<<d>> \o out)] = num
    BY <2>4, <2>5, <2>6
  <2>8. i' = n /\ out' = <<d>> \o out
    BY <2>1 DEF n, d
  <2>9. Values(i, out)' = Values(n, <<d>> \o out)
    BY <2>8 DEF Values
  <2>10. Values(i, out)'[Len(out')] = num
    BY <2>7, <2>8, <2>9
  <2>11. ASSUME n = 0, d = 48 PROVE Len(<<d>> \o out) = 1
    <3>1. i = 0
      BY <2>4, <2>11
    <3>2. out = <<>>
      BY <2>1, <3>1
    <3> QED
      BY <3>2
  <2>12. (<<d>> \o out)[1] = d
    BY <2>3, <2>4
  <2> QED
    BY <2>1, <2>8, <2>10, <2>11, <2>12 DEF PrintInv, PrintedExactly
<1>4. CASE job = "utos" /\ WriteEnd
  <2>1. /\ job' = job /\ num' = num /\ out' = out /\ stage = "run" /\ i = 0 /\ out # <<>>
        /\ stage' = "done"
    BY <1>4 DEF WriteEnd, End
  <2>2. Values(0, out)[Len(out)] = num /\ (out[1] = 48 => Len(out) = 1)
    BY <1>4, <2>1 DEF PrintInv
  <2>3. Value(out)' = Value(out)
    BY <2>1 DEF Value, Values
  <2> QED
    BY <2>1, <2>2, <2>3 DEF PrintInv, PrintedExactly, Value
<1> QED
  BY <1>1, <1>2, <1>3, <1>4, StepsOf

\* utos() writes the digits of every number, of any size, and no zero before them.
THEOREM NumbersArePrinted == Spec => []PrintedExactly
<1>1. Init => TypeInv /\ PrintInv
  BY InitTypes, InitPrint
<1>2. TypeInv /\ PrintInv /\ [Next]_vars => TypeInv' /\ PrintInv'
  BY NextKeeps, NextPrint
<1>3. PrintInv => PrintedExactly
  BY DEF PrintInv, PrintedExactly
<1> QED
  BY <1>1, <1>2, <1>3, PTL DEF Spec
-----------------------------------------------------------------------------
(* percent_decode() decodes every escape                                   *)

\* The characters among the first m that stand for a byte, and the byte that
\* character k stands for.
KeptTo(m) == {j \in Kept : j =< m}
Meant(k) == IF EscapeAt(in, k - 1) THEN FromHex(in[k + 1], in[k + 2]) ELSE in[k]

\* What is written is what the characters read so far stand for, and the next
\* one is not inside an escape.
PercentInv ==
    job = "percent_decode" =>
        /\ stage = "run" =>
             /\ i =< Len(in) /\ ~Inside(i + 1)
             /\ Len(out) = Cardinality(KeptTo(i))
             /\ \A k \in Kept : k =< i => out[Cardinality(KeptTo(k))] = Meant(k)
        /\ PercentDecoded

LEMMA KeptFinite ==
  ASSUME TypeOK
  PROVE  /\ \A m \in Nat : IsFiniteSet(KeptTo(m)) /\ Cardinality(KeptTo(m)) \in Nat
         /\ \A m \in Nat, k \in Nat : k =< m => Cardinality(KeptTo(k)) =< Cardinality(KeptTo(m))
         /\ \A k \in Kept : k \in Nat /\ Cardinality(KeptTo(k)) >= 1
<1>1. Len(in) \in Nat /\ DOMAIN in = 1..Len(in)
  BY DEF TypeOK
<1>2. Kept \subseteq 1..Len(in)
  BY <1>1 DEF Kept
<1>3. IsFiniteSet(1..Len(in))
  BY <1>1, FS_Interval
<1>4. ASSUME NEW m \in Nat PROVE IsFiniteSet(KeptTo(m)) /\ Cardinality(KeptTo(m)) \in Nat
  <2>1. KeptTo(m) \subseteq 1..Len(in)
    BY <1>2 DEF KeptTo
  <2>2. IsFiniteSet(KeptTo(m))
    BY <1>3, <2>1, FS_Subset
  <2> QED
    BY <2>2, FS_CardinalityType
<1>5. ASSUME NEW m \in Nat, NEW k \in Nat, k =< m
      PROVE  Cardinality(KeptTo(k)) =< Cardinality(KeptTo(m))
  <2>1. \A j \in Kept : j =< k => j =< m
    BY <1>2, <1>5
  <2>2. KeptTo(k) \subseteq KeptTo(m)
    BY <2>1 DEF KeptTo
  <2> QED
    BY <1>4, <2>2, FS_Subset
<1>6. ASSUME NEW k \in Kept PROVE k \in Nat /\ Cardinality(KeptTo(k)) >= 1
  <2>1. k \in Nat
    BY <1>2
  <2>2. k \in KeptTo(k)
    BY <2>1 DEF KeptTo
  <2>3. Cardinality(KeptTo(k)) # 0
    BY <1>4, <2>1, <2>2, FS_EmptySet
  <2> QED
    BY <1>4, <2>1, <2>3
<1> QED
  BY <1>4, <1>5, <1>6

LEMMA InitPercent == Init => PercentInv
<1> SUFFICES ASSUME Init, job = "percent_decode" PROVE PercentInv
  BY DEF PercentInv
<1>1. in \in Seq(Byte) /\ i = 0 /\ out = <<>> /\ stage = "run"
  BY InitTypes DEF Init, TypeInv, TypeOK
<1>2. ~Inside(i + 1) /\ i =< Len(in)
  BY <1>1 DEF Inside
<1>3. \A k \in Kept : ~(k =< 0)
  BY <1>1 DEF Kept
<1>4. KeptTo(i) = {}
  BY <1>1, <1>3 DEF KeptTo
<1>5. Len(out) = Cardinality(KeptTo(i))
  BY <1>1, <1>4, FS_EmptySet
<1> QED
  BY <1>1, <1>2, <1>3, <1>5 DEF PercentInv, PercentDecoded

\* A step reads one character that stands for a byte, and the whole of it.
LEMMA DecodesEscape ==
  ASSUME TypeOK, i < Len(in), ~Inside(i + 1)
  PROVE  LET n == IF EscapeAt(in, i) THEN i + 3 ELSE i + 1
         IN  n =< Len(in) /\ ~Inside(n + 1) /\ i + 1 \in Kept /\ KeptTo(n) = KeptTo(i) \cup {i + 1}
<1>1. in \in Seq(Byte) /\ Len(in) \in Nat /\ DOMAIN in = 1..Len(in) /\ i \in Nat
  BY DEF TypeOK
<1>2. i + 1 \in Kept /\ \A j \in Kept : j \in Nat
  BY <1>1 DEF Kept
<1>3. CASE EscapeAt(in, i)
  <2>1. i + 3 =< Len(in) /\ in[i + 2] # Percent /\ in[i + 3] # Percent
    <3>1. i + 3 =< Len(in) /\ IsHexDigit(in[i + 2]) /\ IsHexDigit(in[i + 3])
      BY <1>3 DEF EscapeAt
    <3>2. \A c : IsHexDigit(c) => c # Percent
      BY DEF IsHexDigit, Percent
    <3> QED
      BY <3>1, <3>2
  <2>2. ~EscapeAt(in, i + 1) /\ ~EscapeAt(in, i + 2)
    <3>1. (i + 1) + 1 = i + 2 /\ (i + 2) + 1 = i + 3
      BY <1>1
    <3> QED
      BY <2>1, <3>1 DEF EscapeAt
  <2>3. ~Inside((i + 3) + 1)
    <3>1. ((i + 3) + 1) - 2 = i + 2 /\ ((i + 3) + 1) - 3 = i + 1
      BY <1>1
    <3> QED
      BY <2>2, <3>1 DEF Inside
  <2>4. Inside(i + 2) /\ Inside(i + 3)
    <3>1. (i + 2) - 2 = i /\ (i + 3) - 3 = i /\ i + 2 > 1 /\ i + 3 > 2
      BY <1>1
    <3> QED
      BY <1>3, <3>1 DEF Inside
  <2>5. i + 2 \notin Kept /\ i + 3 \notin Kept
    BY <2>4 DEF Kept
  <2>6. \A j \in Kept : j =< i + 3 <=> j =< i \/ j = i + 1
    <3>1. \A j \in Nat : j =< i + 3 <=> j =< i \/ j = i + 1 \/ j = i + 2 \/ j = i + 3
      BY <1>1
    <3> QED
      BY <1>2, <2>5, <3>1
  <2>7. KeptTo(i + 3) = KeptTo(i) \cup {i + 1}
    BY <1>2, <2>6 DEF KeptTo
  <2> QED
    BY <1>2, <1>3, <2>1, <2>3, <2>7
<1>4. CASE ~EscapeAt(in, i)
  <2>1. ~Inside((i + 1) + 1)
    <3>1. ((i + 1) + 1) - 2 = i /\ ((i + 1) + 1) - 3 = i - 1 /\ (i + 1) - 2 = i - 1
          /\ ((i + 1) + 1 > 2 => i + 1 > 1)
      BY <1>1
    <3> QED
      BY <1>4, <3>1 DEF Inside
  <2>2. \A j \in Kept : j =< i + 1 <=> j =< i \/ j = i + 1
    BY <1>1, <1>2
  <2>3. KeptTo(i + 1) = KeptTo(i) \cup {i + 1}
    BY <1>2, <2>2 DEF KeptTo
  <2>4. i + 1 =< Len(in)
    BY <1>1
  <2> QED
    BY <1>2, <1>4, <2>1, <2>3, <2>4
<1> QED
  BY <1>3, <1>4

LEMMA DecodesNext ==
  ASSUME TypeInv, PercentInv, PercentDecode
  PROVE  PercentInv'
<1> DEFINE n == IF EscapeAt(in, i) THEN i + 3 ELSE i + 1
<1>1. /\ TypeOK /\ job = "percent_decode" /\ stage = "run" /\ i < Len(in)
      /\ job' = job /\ in' = in /\ stage' = stage
      /\ out \in Seq(Byte) /\ Len(out) \in Nat /\ i \in Nat
  BY DEF PercentDecode, TypeInv, TypeOK, More
<1>2. /\ ~Inside(i + 1) /\ Len(out) = Cardinality(KeptTo(i))
      /\ \A k \in Kept : k =< i => out[Cardinality(KeptTo(k))] = Meant(k)
  BY <1>1 DEF PercentInv
<1>3. /\ n =< Len(in) /\ ~Inside(n + 1) /\ i + 1 \in Kept
      /\ KeptTo(n) = KeptTo(i) \cup {i + 1}
  BY <1>1, <1>2, DecodesEscape
<1>4. i' = n /\ out' = Append(out, Meant(i + 1))
  <2>1. (i + 1) - 1 = i /\ (i + 1) + 1 = i + 2 /\ (i + 1) + 2 = i + 3
    BY <1>1
  <2> QED
    BY <2>1 DEF PercentDecode, Meant, Next1
<1>5. n \in Nat /\ n >= i + 1
  BY <1>1
<1> HIDE DEF n
<1>6. i + 1 \notin KeptTo(i) /\ KeptTo(i + 1) = KeptTo(n)
  <2>1. \A j \in Kept : j =< i + 1 => j =< n
    BY <1>1, <1>5, KeptFinite
  <2>2. KeptTo(i + 1) \subseteq KeptTo(n)
    BY <2>1 DEF KeptTo
  <2>3. \A j \in Kept : j =< i => j =< i + 1
    BY <1>1, KeptFinite
  <2>4. KeptTo(i) \subseteq KeptTo(i + 1) /\ i + 1 \in KeptTo(i + 1)
    BY <1>1, <1>3, <2>3 DEF KeptTo
  <2>5. ~(i + 1 =< i)
    BY <1>1
  <2> QED
    BY <1>3, <2>2, <2>4, <2>5 DEF KeptTo
<1>7. Cardinality(KeptTo(n)) = Len(out) + 1
  <2>1. IsFiniteSet(KeptTo(i))
    BY <1>1, KeptFinite
  <2>2. Cardinality(KeptTo(i) \cup {i + 1}) = Cardinality(KeptTo(i)) + 1
    BY <1>6, <2>1, FS_AddElement
  <2> QED
    BY <1>2, <1>3, <2>2
<1>8. /\ Len(out') = Len(out) + 1 /\ out'[Len(out) + 1] = Meant(i + 1)
      /\ \A c \in 1..Len(out) : out'[c] = out[c]
  BY <1>1, <1>4
<1>9. ASSUME NEW k \in Kept, k =< n PROVE out'[Cardinality(KeptTo(k))] = Meant(k)
  <2>1. k =< i \/ k = i + 1
    <3>1. k \in KeptTo(n)
      BY <1>9 DEF KeptTo
    <3> QED
      BY <1>3, <3>1 DEF KeptTo
  <2>2. CASE k =< i
    <3>1. Cardinality(KeptTo(k)) \in 1..Len(out)
      BY <1>1, <1>2, <2>2, KeptFinite
    <3> QED
      BY <1>2, <1>8, <2>2, <3>1
  <2>3. CASE k = i + 1
    BY <1>6, <1>7, <1>8, <2>3
  <2> QED
    BY <2>1, <2>2, <2>3
<1>10. Kept' = Kept /\ \A m : KeptTo(m)' = KeptTo(m) /\ Meant(m)' = Meant(m)
  BY <1>1 DEF Kept, KeptTo, Meant, Inside, EscapeAt
<1>11. Len(out') = Cardinality(KeptTo(n))
  BY <1>7, <1>8
<1>12. /\ Inside(i + 1)' = Inside(n + 1) /\ KeptTo(i)' = KeptTo(n)
  BY <1>1, <1>4 DEF Inside, EscapeAt, KeptTo, Kept
<1>13. \A k \in Kept' : k =< i' => out'[Cardinality(KeptTo(k))'] = Meant(k)'
  BY <1>4, <1>9, <1>10
<1> QED
  BY <1>1, <1>3, <1>4, <1>11, <1>12, <1>13 DEF PercentInv, PercentDecoded

LEMMA NextPercent ==
  ASSUME TypeInv, PercentInv, [Next]_vars
  PROVE  PercentInv'
<1>1. CASE UNCHANGED vars
  BY <1>1 DEF vars, PercentInv, PercentDecoded, Kept, KeptTo, Meant, Inside
<1>2. CASE job # "percent_decode"
  BY <1>2, StepsOf DEF PercentInv
<1>3. CASE job = "percent_decode" /\ PercentDecode
  BY <1>3, DecodesNext
<1>4. CASE job = "percent_decode" /\ PercentEnd
  <2>1. /\ stage = "run" /\ ~(i < Len(in)) /\ stage' = "done"
        /\ job' = job /\ in' = in /\ out' = out
    BY <1>4 DEF PercentEnd, End, More
  <2>2. i \in Nat /\ Len(in) \in Nat /\ DOMAIN in = 1..Len(in)
    BY DEF TypeInv, TypeOK
  <2>3. /\ i =< Len(in) /\ Len(out) = Cardinality(KeptTo(i))
        /\ \A k \in Kept : k =< i => out[Cardinality(KeptTo(k))] = Meant(k)
    BY <1>4, <2>1 DEF PercentInv
  <2>4. \A k \in Kept : k =< i
    BY <2>1, <2>2, <2>3 DEF Kept
  <2>5. KeptTo(i) = Kept
    BY <2>4 DEF KeptTo
  <2>6. Kept' = Kept
    BY <2>1 DEF Kept, Inside
  <2> QED
    BY <2>1, <2>3, <2>4, <2>5, <2>6 DEF PercentInv, PercentDecoded, KeptTo, Meant
<1> QED
  BY <1>1, <1>2, <1>3, <1>4, StepsOf

\* percent_decode() gives the byte of each escape, and every other character as
\* it is, whatever the string: half an escape at its end too.
THEOREM EscapesDecoded == Spec => []PercentDecoded
<1>1. Init => TypeInv /\ PercentInv
  BY InitTypes, InitPercent
<1>2. TypeInv /\ PercentInv /\ [Next]_vars => TypeInv' /\ PercentInv'
  BY NextKeeps, NextPercent
<1>3. PercentInv => PercentDecoded
  BY DEF PercentInv, PercentDecoded
<1> QED
  BY <1>1, <1>2, <1>3, PTL DEF Spec
-----------------------------------------------------------------------------
(* selectH2() looks at the entries of the list, and takes the best          *)

\* The starts of entries among the first places of a list, for each number of
\* them.
StartsUpTo(list) ==
    CHOOSE f : f = [k \in 0..Len(list) |->
                      IF k = 0 THEN {0} ELSE f[k - 1] \cup ({k} \cap Following(list, f[k - 1]))]
Starts(g, m, list) ==
    /\ g = [k \in 0..m |-> g[k]] /\ g[0] = {0}
    /\ \A k \in 1..m : g[k] = g[k - 1] \cup ({k} \cap Following(list, g[k - 1]))

LEMMA StartsExist ==
  ASSUME NEW list \in Seq(Byte)
  PROVE  \E g : Starts(g, Len(list), list)
<1> DEFINE S == {m \in 0..Len(list) : \E g : Starts(g, m, list)}
<1>1. Len(list) \in Nat
  OBVIOUS
<1>2. 0 \in S
  <2>1. Starts([k \in 0..0 |-> {0}], 0, list)
    BY DEF Starts
  <2> QED
    BY <1>1, <2>1
<1>3. ASSUME NEW m \in 0..Len(list) - 1, m \in S PROVE m + 1 \in S
  <2>1. PICK g : Starts(g, m, list)
    BY <1>3
  <2> DEFINE h == [k \in 0..m + 1 |->
                     IF k = m + 1 THEN g[m] \cup ({m + 1} \cap Following(list, g[m])) ELSE g[k]]
  <2>2. h = [k \in 0..m + 1 |-> h[k]]
    OBVIOUS
  <2>3. /\ h[m + 1] = g[m] \cup ({m + 1} \cap Following(list, g[m]))
        /\ \A k \in 0..m : h[k] = g[k]
    OBVIOUS
  <2> HIDE DEF h
  <2>4. ASSUME NEW k \in 1..m + 1 PROVE h[k] = h[k - 1] \cup ({k} \cap Following(list, h[k - 1]))
    <3>1. CASE k = m + 1
      <4>1. k - 1 = m /\ m \in 0..m
        BY <3>1
      <4>2. h[k - 1] = g[m]
        BY <2>3, <4>1
      <4> QED
        BY <2>3, <3>1, <4>2
    <3>2. CASE k # m + 1
      <4>1. k \in 1..m /\ k \in 0..m /\ k - 1 \in 0..m
        BY <3>2
      <4>2. g[k] = g[k - 1] \cup ({k} \cap Following(list, g[k - 1]))
        BY <2>1, <4>1 DEF Starts
      <4>3. h[k] = g[k] /\ h[k - 1] = g[k - 1]
        BY <2>3, <4>1
      <4> QED
        BY <4>2, <4>3
    <3> QED
      BY <3>1, <3>2
  <2>5. h[0] = {0}
    <3>1. 0 \in 0..m
      OBVIOUS
    <3> QED
      BY <2>1, <2>3, <3>1 DEF Starts
  <2>6. Starts(h, m + 1, list)
    BY <2>2, <2>4, <2>5 DEF Starts
  <2> QED
    BY <1>1, <2>6
<1>4. 0..Len(list) \subseteq S
  <2>1. \A k \in 0..Len(list) - 1 : k \in S => k + 1 \in S
    BY <1>3
  <2> HIDE DEF S
  <2> QED
    BY <1>1, <1>2, <2>1, UpToInduction
<1>5. Len(list) \in S
  <2> HIDE DEF S
  <2> QED
    BY <1>1, <1>4
<1> QED
  BY <1>5

\* An entry starts at the beginning of the list, and where the one before it ends.
LEMMA WhereEntriesStart ==
  ASSUME NEW list \in Seq(Byte)
  PROVE  /\ EntryStarts(list) \subseteq 0..Len(list) /\ 0 \in EntryStarts(list)
         /\ \A k \in 1..Len(list) :
              k \in EntryStarts(list) <=>
                \E j \in EntryStarts(list) : j < k /\ k = j + list[j + 1] + 1
<1> DEFINE L == Len(list)
           U == StartsUpTo(list)
           E == EntryStarts(list)
<1>1. L \in Nat
  OBVIOUS
<1>2. E = U[L]
  BY DEF EntryStarts, StartsUpTo
<1>3. Starts(U, L, list)
  <2> DEFINE Eq(f) == f = [k \in 0..L |->
                             IF k = 0 THEN {0} ELSE f[k - 1] \cup ({k} \cap Following(list, f[k - 1]))]
  <2>1. PICK g : Starts(g, L, list)
    BY StartsExist
  <2>2. Eq(g)
    BY <2>1 DEF Starts
  <2>3. U = CHOOSE f : Eq(f)
    BY DEF StartsUpTo
  <2>4. Eq(U)
    <3> HIDE DEF Eq, U
    <3> QED
      BY <2>2, <2>3
  <2> HIDE DEF U
  <2> QED
    BY <2>4, <1>1 DEF Starts
<1> HIDE DEF L, U, E
<1>4. /\ U[0] = {0}
      /\ \A k \in 1..L : U[k] = U[k - 1] \cup ({k} \cap Following(list, U[k - 1]))
  BY <1>3 DEF Starts
<1> DEFINE S == {k \in 0..L : U[k] \subseteq 0..k}
<1>5. 0..L \subseteq S
  <2>1. 0 \in S
    BY <1>1, <1>4
  <2>2. ASSUME NEW k \in 0..L - 1, k \in S PROVE k + 1 \in S
    <3>1. k + 1 \in 1..L /\ k + 1 \in 0..L /\ (k + 1) - 1 = k /\ 0..k \subseteq 0..k + 1
          /\ k + 1 \in 0..k + 1
      BY <1>1
    <3>2. U[k + 1] \subseteq U[k] \cup {k + 1}
      BY <1>4, <3>1
    <3> QED
      BY <2>2, <3>1, <3>2
  <2>3. \A k \in 0..L - 1 : k \in S => k + 1 \in S
    BY <2>2
  <2> HIDE DEF S
  <2> QED
    BY <1>1, <2>1, <2>3, UpToInduction
<1>6. ASSUME NEW k \in 0..L, NEW j \in 0..k PROVE j \in E <=> j \in U[k]
  <2> DEFINE R == {d \in 0..L - k : j \in U[k + d] <=> j \in U[k]}
  <2>1. L - k \in Nat
    BY <1>1
  <2>2. 0 \in R
    BY <2>1
  <2>3. ASSUME NEW d \in 0..(L - k) - 1, d \in R PROVE d + 1 \in R
    <3>1. /\ d + 1 \in 0..L - k /\ k + (d + 1) \in 1..L /\ (k + (d + 1)) - 1 = k + d
          /\ j # k + (d + 1)
      BY <1>1, <2>1
    <3>2. U[k + (d + 1)] \subseteq U[k + d] \cup {k + (d + 1)} /\ U[k + d] \subseteq U[k + (d + 1)]
      BY <1>4, <3>1
    <3> QED
      BY <2>3, <3>1, <3>2
  <2>4. 0..L - k \subseteq R
    <3>1. \A d \in 0..(L - k) - 1 : d \in R => d + 1 \in R
      BY <2>3
    <3> HIDE DEF R
    <3> QED
      BY <2>1, <2>2, <3>1, UpToInduction
  <2>5. L - k \in R /\ k + (L - k) = L
    <3> HIDE DEF R
    <3> QED
      BY <1>1, <2>1, <2>4
  <2> QED
    BY <1>2, <2>5
<1>7. E \subseteq 0..L /\ 0 \in E
  <2>1. L \in S
    <3> HIDE DEF S
    <3> QED
      BY <1>1, <1>5
  <2>2. 0 \in U[0] /\ 0 \in 0..L /\ 0 \in 0..0
    BY <1>1, <1>4
  <2> QED
    BY <1>2, <1>6, <2>1, <2>2
<1>8. ASSUME NEW k \in 1..L
      PROVE  k \in E <=> \E j \in E : j < k /\ k = j + list[j + 1] + 1
  <2>1. k \in 0..L /\ k - 1 \in 0..L /\ k \in 0..k /\ ~(k \in 0..k - 1)
    BY <1>1
  <2>2. U[k - 1] \subseteq 0..k - 1
    <3>1. k - 1 \in S
      <4> HIDE DEF S
      <4> QED
        BY <1>5, <2>1
    <3> QED
      BY <3>1
  <2>3. k \in E <=> k \in Following(list, U[k - 1])
    BY <1>4, <1>6, <2>1, <2>2
  <2>4. \A j : j \in U[k - 1] <=> j \in E /\ j < k
    <3>1. \A j \in 0..k - 1 : j \in U[k - 1] <=> j \in E
      BY <1>6, <2>1
    <3>2. \A j \in E : j < k => j \in 0..k - 1
      BY <1>1, <1>7
    <3>3. \A j \in 0..k - 1 : j < k
      OBVIOUS
    <3> QED
      BY <2>2, <3>1, <3>2, <3>3
  <2> QED
    BY <2>3, <2>4 DEF Following
<1> QED
  BY <1>7, <1>8 DEF L, E

\* No entry starts inside another.
LEMMA EntriesApart ==
  ASSUME NEW list \in Seq(Byte),
         NEW a \in EntryStarts(list), NEW k \in EntryStarts(list), a < Len(list), a < k
  PROVE  k >= a + list[a + 1] + 1
<1> DEFINE L == Len(list)
           E == EntryStarts(list)
           T == {x \in E : \E y \in E : y < L /\ y < x /\ x < y + list[y + 1] + 1}
<1>1. L \in Nat /\ \A j \in 0..L - 1 : list[j + 1] \in Nat
  <2>1. L \in Nat /\ \A j \in 1..L : list[j] \in Byte
    OBVIOUS
  <2>2. \A j \in 0..L - 1 : j + 1 \in 1..L
    BY <2>1
  <2>3. Byte \subseteq Nat
    BY DEF Byte
  <2> QED
    BY <2>1, <2>2, <2>3
<1>2. /\ E \subseteq 0..L
      /\ \A x \in 1..L : x \in E => \E j \in E : j < x /\ x = j + list[j + 1] + 1
  BY WhereEntriesStart
<1> HIDE DEF L, E
<1>3. T = {}
  <2> SUFFICES ASSUME T # {} PROVE FALSE
    OBVIOUS
  <2>1. T \subseteq Nat
    <3>1. E \subseteq Nat
      BY <1>1, <1>2
    <3> QED
      BY <3>1
  <2>2. PICK x \in T : \A y \in T : x =< y
    <3> HIDE DEF T
    <3> QED
      BY <2>1, LeastExists, Zenon
  <2>3. PICK y \in E : y < L /\ y < x /\ x < y + list[y + 1] + 1
    OBVIOUS
  <2>4. x \in 1..L /\ x \in E /\ y \in 0..L - 1
    BY <1>1, <1>2, <2>3
  <2>5. PICK j \in E : j < x /\ x = j + list[j + 1] + 1
    BY <1>2, <2>4
  <2>6. j \in 0..L - 1 /\ list[j + 1] \in Nat /\ list[y + 1] \in Nat
    <3>1. j \in 0..L
      BY <1>2, <2>5
    <3>2. j \in 0..L - 1
      BY <1>1, <2>4, <2>5, <3>1
    <3> QED
      BY <1>1, <2>4, <3>2
  <2>7. CASE j = y
    BY <2>3, <2>4, <2>5, <2>6, <2>7
  <2>8. CASE j > y
    <3> DEFINE n == y + list[y + 1] + 1
    <3>1. n \in Nat /\ x < n
      <4>1. y \in Nat /\ list[y + 1] \in Nat
        BY <1>1, <2>4, <2>6
      <4>2. x < n
        BY <2>3
      <4> DEFINE z == list[y + 1]
      <4>3. z \in Nat /\ n = y + z + 1
        BY <4>1
      <4>4. y \in Nat
        BY <4>1
      <4> HIDE DEF z, n
      <4>5. n \in Nat
        BY <4>3, <4>4
      <4> QED
        BY <4>2, <4>5
    <3>2. j < n
      <4> HIDE DEF n
      <4>1. x \in Nat /\ j \in Nat /\ j < x
        BY <2>4, <2>5, <2>6
      <4> QED
        BY <3>1, <4>1
    <3>3. j \in T
      BY <2>3, <2>8, <3>2
    <3>4. x =< j
      BY <2>2, <3>3
    <3> QED
      BY <2>4, <2>5, <2>6, <3>4
  <2>9. CASE j < y
    <3>1. j < L /\ j < y /\ y < j + list[j + 1] + 1
      BY <1>1, <2>3, <2>5, <2>6, <2>9
    <3>2. y \in T
      BY <3>1
    <3> QED
      BY <2>2, <2>3, <2>4, <3>2
  <2> QED
    BY <2>4, <2>6, <2>7, <2>8, <2>9
<1>4. a < L /\ a \in E /\ k \in E /\ a < k
  BY DEF L, E
<1>5. k \in Nat /\ a \in 0..L - 1 /\ list[a + 1] \in Nat
  BY <1>1, <1>2, <1>4
<1>6. ~(k < a + list[a + 1] + 1)
  BY <1>3, <1>4
<1> QED
  BY <1>5, <1>6
\* The wanted protocol stands at k.
StandsAt(name, k) ==
    k + Len(name) < Len(in) /\ SubSeq(in, k + 1, k + 1 + Len(name)) = Entry(name)

\* selectProto() stands at the start of an entry, or beyond the end, and has seen
\* that no entry before is the wanted one; and no better one is offered.
SelectInv ==
    job = "selectH2" =>
        /\ stage = "run" =>
             /\ i \in EntryStarts(in) \/ i > Len(in)
             /\ \A k \in EntryStarts(in) : k < i => ~StandsAt(Wanted[num], k)
             /\ \A m \in 1..num - 1 : ~OfferedIn(Wanted[m], in)
        /\ BestIsChosen

LEMMA InitSelect == Init => SelectInv
<1> SUFFICES ASSUME Init, job = "selectH2" PROVE SelectInv
  BY DEF SelectInv
<1>1. in \in Seq(Byte) /\ i = 0 /\ num = 1 /\ stage = "run"
  BY InitTypes DEF Init, TypeInv, TypeOK
<1>2. 0 \in EntryStarts(in) /\ EntryStarts(in) \subseteq 0..Len(in)
  BY <1>1, WhereEntriesStart
<1>3. \A k \in EntryStarts(in) : ~(k < 0)
  BY <1>1, <1>2
<1> QED
  BY <1>1, <1>2, <1>3 DEF SelectInv, BestIsChosen

\* The wanted entry is here: its name is taken.
LEMMA TakesName ==
  ASSUME TypeOK, num \in 1..3, Fits(Entry(Wanted[num])), Here(Entry(Wanted[num]))
  PROVE  StandsAt(Wanted[num], i) /\ SubSeq(in, i + 2, i + 1 + Next1) = Wanted[num]
<1> DEFINE w == Wanted[num]
           n == Len(w)
           e == Entry(w)
           s == SubSeq(in, i + 1, i + Len(e))
<1>1. in \in Seq(Byte) /\ Len(in) \in Nat /\ i \in Nat
  BY DEF TypeOK
<1>2. /\ e \in Seq(Byte) /\ Len(e) = n + 1 /\ e[1] = n /\ n \in 1..255
  BY WantedEntries
<1>3. w \in Seq(Byte) /\ \A k \in 1..n : e[k + 1] = w[k]
  <2>1. CASE num = 1
    BY <2>1 DEF Wanted, Entry, Byte
  <2>2. CASE num = 2
    BY <2>2 DEF Wanted, Entry, Byte
  <2>3. CASE num = 3
    BY <2>3 DEF Wanted, Entry, Byte
  <2> QED
    BY <2>1, <2>2, <2>3
<1>4. i + Len(e) =< Len(in) /\ s = e
  BY DEF Fits, Here
<1> HIDE DEF w, n, e, s
<1>5. i + (n + 1) =< Len(in) /\ i + Len(e) = i + (n + 1)
  BY <1>1, <1>2, <1>4
<1>6. \A k \in 1..n + 1 : e[k] = in[i + k]
  <2>1. s = SubSeq(in, i + 1, i + (n + 1))
    BY <1>5 DEF s
  <2>2. \A k \in 1..n + 1 : s[k] = in[i + k]
    <3> DEFINE l == i + 1
               h == i + (n + 1)
    <3>1. /\ l \in Int /\ h \in Int
          /\ \A k \in 1..n + 1 : l + k - 1 = i + k /\ k \in 1..h - l + 1
      BY <1>1, <1>2
    <3>2. \A k \in l..h : in[k] \in Byte
      BY <1>1, <1>2, <1>5
    <3> HIDE DEF l, h
    <3>3. \A k \in 1..h - l + 1 : SubSeq(in, l, h)[k] = in[l + k - 1]
      BY <3>1, <3>2, SubSeqProperties
    <3>4. s = SubSeq(in, l, h)
      BY <2>1 DEF l, h
    <3> QED
      BY <3>1, <3>3, <3>4
  <2> QED
    BY <1>4, <2>2
<1>7. Next1 = n
  BY <1>2, <1>6 DEF Next1
<1>8. SubSeq(in, i + 2, i + 1 + n) = w
  <2> DEFINE t == SubSeq(in, i + 2, i + 1 + n)
  <2>1. /\ i + 2 \in Int /\ i + 1 + n \in Int /\ i + 2 =< (i + 1 + n) + 1
        /\ ((i + 1 + n) - (i + 2)) + 1 = n
        /\ \A k \in i + 2..i + 1 + n : in[k] \in Byte
    BY <1>1, <1>2, <1>5
  <2>2. t \in Seq(Byte) /\ Len(t) = n /\ \A k \in 1..n : t[k] = in[(i + 2) + k - 1]
    BY <1>2, <2>1, SubSeqProperties
  <2>3. \A k \in 1..n : t[k] = w[k]
    <3>1. \A k \in 1..n : (i + 2) + k - 1 = i + (k + 1) /\ k + 1 \in 1..n + 1
      BY <1>1, <1>2
    <3> HIDE DEF t
    <3> QED
      <4>1. ASSUME NEW k \in 1..n PROVE t[k] = w[k]
        <5>1. t[k] = in[i + (k + 1)]
          BY <2>2, <3>1
        <5>2. e[k + 1] = in[i + (k + 1)]
          BY <1>6, <3>1
        <5> QED
          BY <1>3, <5>1, <5>2
      <4> QED
        BY <4>1
  <2> HIDE DEF t
  <2>4. t = w
    <3>1. Len(w) = n
      BY DEF n
    <3> QED
      BY <1>3, <2>2, <2>3, <3>1
  <2> QED
    BY <2>4 DEF t
<1>9. StandsAt(w, i)
  <2>1. i + n < Len(in)
    BY <1>1, <1>2, <1>5
  <2>2. i + 1 + n = i + Len(e)
    BY <1>1, <1>2
  <2> QED
    BY <1>4, <2>1, <2>2 DEF StandsAt, n, s, e
<1> QED
  BY <1>7, <1>8, <1>9 DEF w

LEMMA SelectsBest ==
  ASSUME TypeInv, SelectInv, Select \/ SelectNext \/ SelectOther
  PROVE  SelectInv'
<1> DEFINE w == Wanted[num]
           n == Len(w)
<1>1. /\ TypeOK /\ job = "selectH2" /\ job' = job /\ in' = in /\ stage = "run" /\ num \in 1..3
  BY DEF Select, SelectNext, SelectOther, TypeInv
<1>2. in \in Seq(Byte) /\ Len(in) \in Nat /\ i \in Nat
  BY <1>1 DEF TypeOK
<1>3. /\ Entry(w) \in Seq(Byte) /\ Len(Entry(w)) = n + 1 /\ n \in 1..255
  BY <1>1, WantedEntries
<1>4. /\ i \in EntryStarts(in) \/ i > Len(in)
      /\ \A k \in EntryStarts(in) : k < i => ~StandsAt(w, k)
      /\ \A m \in 1..num - 1 : ~OfferedIn(Wanted[m], in)
  BY <1>1 DEF SelectInv
<1>5. EntryStarts(in) \subseteq 0..Len(in) /\ 0 \in EntryStarts(in)
  BY <1>2, WhereEntriesStart
<1>6. OfferedIn(w, in) <=> \E k \in EntryStarts(in) : StandsAt(w, k)
  BY DEF OfferedIn, StandsAt
<1> HIDE DEF w, n
<1>7. ASSUME Fits(Entry(w)) PROVE i < Len(in) /\ i \in EntryStarts(in)
  <2>1. i + (n + 1) =< Len(in)
    BY <1>3, <1>7 DEF Fits
  <2>2. i < Len(in)
    BY <1>2, <1>3, <2>1
  <2> QED
    BY <1>2, <1>4, <2>2
<1>8. CASE Select
  <2>1. Fits(Entry(w)) /\ Here(Entry(w)) /\ stage' = "done" /\ num' = num
        /\ out' = SubSeq(in, i + 2, i + 1 + Next1)
    BY <1>8 DEF Select, w
  <2>2. StandsAt(w, i) /\ out' = w
    BY <1>1, <2>1, TakesName DEF w
  <2>3. OfferedIn(w, in)
    BY <1>6, <1>7, <2>1, <2>2
  <2> QED
    BY <1>1, <1>4, <2>1, <2>2, <2>3 DEF SelectInv, BestIsChosen, w
<1>9. CASE SelectNext
  <2>1. /\ Fits(Entry(w)) /\ ~Here(Entry(w)) /\ stage' = "run" /\ num' = num
        /\ i' = i + in[i + 1] + 1
    BY <1>1, <1>9 DEF SelectNext, SkipEntry, Next1, w
  <2>2. i < Len(in) /\ i \in EntryStarts(in) /\ i + 1 \in 1..Len(in)
    BY <1>2, <1>7, <2>1
  <2>3. in[i + 1] \in Nat
    <3>1. in[i + 1] \in Byte
      BY <1>2, <2>2
    <3> QED
      BY <3>1 DEF Byte
  <2> DEFINE m == i + in[i + 1] + 1
  <2>4. m \in Nat /\ i < m
    BY <1>2, <2>3
  <2>5. ~StandsAt(w, i)
    <3>1. i + 1 + n = i + (n + 1)
      BY <1>2, <1>3
    <3> QED
      BY <1>3, <2>1, <3>1 DEF StandsAt, Here, n
  <2>6. m \in EntryStarts(in) \/ m > Len(in)
    <3> SUFFICES ASSUME ~(m > Len(in)) PROVE m \in EntryStarts(in)
      OBVIOUS
    <3>1. m \in 1..Len(in)
      BY <1>2, <2>4
    <3> QED
      BY <1>2, <2>2, <2>4, <3>1, WhereEntriesStart
  <2>7. ASSUME NEW k \in EntryStarts(in), k < m PROVE ~StandsAt(w, k)
    <3>1. CASE k < i
      BY <1>4, <3>1
    <3>2. CASE k = i
      BY <2>5, <3>2
    <3>3. CASE k > i
      <4>1. k >= m
        BY <1>2, <2>2, <3>3, EntriesApart
      <4>2. k \in Nat
        BY <1>2, <1>5
      <4> QED
        BY <2>4, <2>7, <4>1, <4>2
    <3>4. k \in Nat
      BY <1>2, <1>5
    <3> QED
      BY <1>2, <3>1, <3>2, <3>3, <3>4
  <2>8. \A k : StandsAt(w, k)' <=> StandsAt(w, k)
    BY <1>1, <2>1 DEF StandsAt, w
  <2>9. i' = m
    BY <2>1
  <2> HIDE DEF m
  <2> QED
    BY <1>1, <1>4, <2>1, <2>6, <2>7, <2>8, <2>9 DEF SelectInv, BestIsChosen, w
<1>10. CASE SelectOther
  <2>1. ~Fits(Entry(w)) /\ ~OfferedIn(w, in)
    <3>1. ~Fits(Entry(w))
      BY <1>10 DEF SelectOther, w
    <3>2. ~(i + (n + 1) =< Len(in))
      BY <1>3, <3>1 DEF Fits
    <3>3. ASSUME NEW k \in EntryStarts(in) PROVE ~StandsAt(w, k)
      <4>1. k \in Nat
        BY <1>2, <1>5
      <4>2. CASE k < i
        BY <1>4, <4>2
      <4>3. CASE ~(k < i)
        <5>1. ~(k + n < Len(in))
          BY <1>2, <1>3, <3>2, <4>1, <4>3
        <5> QED
          BY <5>1 DEF StandsAt, n
      <4> QED
        BY <4>2, <4>3
    <3> QED
      BY <1>6, <3>1, <3>3
  <2>2. \A m \in 1..num : ~OfferedIn(Wanted[m], in)
    <3>1. \A m \in 1..num : m \in 1..num - 1 \/ m = num
      BY <1>1
    <3> QED
      BY <1>4, <2>1, <3>1 DEF w
  <2>3. Len(Wanted) = 3 /\ DOMAIN Wanted = 1..3
    BY DEF Wanted
  <2>4. CASE num < Len(Wanted)
    <3>1. num' = num + 1 /\ i' = 0 /\ stage' = "run"
      BY <1>1, <1>10, <2>4 DEF SelectOther
    <3>2. \A k \in EntryStarts(in) : ~(k < 0)
      BY <1>2, <1>5
    <3>3. \A m \in 1..num' - 1 : m \in 1..num
      BY <1>1, <3>1
    <3> QED
      BY <1>1, <1>5, <2>2, <3>1, <3>2, <3>3 DEF SelectInv, BestIsChosen
  <2>5. CASE ~(num < Len(Wanted))
    <3>1. stage' = "refused" /\ num = 3
      BY <1>1, <1>10, <2>3, <2>5 DEF SelectOther
    <3> QED
      BY <1>1, <2>2, <2>3, <3>1 DEF SelectInv, BestIsChosen
  <2> QED
    BY <2>4, <2>5
<1> QED
  BY <1>8, <1>9, <1>10

LEMMA NextSelect ==
  ASSUME TypeInv, SelectInv, [Next]_vars
  PROVE  SelectInv'
<1>1. CASE UNCHANGED vars
  BY <1>1 DEF vars, SelectInv, BestIsChosen, StandsAt
<1>2. CASE job # "selectH2"
  BY <1>2, StepsOf DEF SelectInv
<1> QED
  BY <1>1, <1>2, StepsOf, SelectsBest

\* selectH2() takes the best of the three protocols that a server offers, and none
\* when it offers none, whatever the names of the others, and however many they are.
THEOREM BestIsTaken == Spec => []BestIsChosen
<1>1. Init => TypeInv /\ SelectInv
  BY InitTypes, InitSelect
<1>2. TypeInv /\ SelectInv /\ [Next]_vars => TypeInv' /\ SelectInv'
  BY NextKeeps, NextSelect
<1>3. SelectInv => BestIsChosen
  BY DEF SelectInv, BestIsChosen
<1> QED
  BY <1>1, <1>2, <1>3, PTL DEF Spec
-----------------------------------------------------------------------------
(* encodeFromArray() writes Base64                                          *)

\* The bits of a byte, put together again.
LEMMA BitsOfByte ==
  ASSUME NEW a \in Byte
  PROVE  LET b(w) == (a \div w) % 2
         IN  /\ a \div 4 = 32 * b(128) + 16 * b(64) + 8 * b(32) + 4 * b(16) + 2 * b(8) + b(4)
             /\ a % 4 = 2 * b(2) + b(1)
             /\ a \div 16 = 8 * b(128) + 4 * b(64) + 2 * b(32) + b(16)
             /\ a % 16 = 8 * b(8) + 4 * b(4) + 2 * b(2) + b(1)
             /\ a \div 64 = 2 * b(128) + b(64)
             /\ a % 64 = 32 * b(32) + 16 * b(16) + 8 * b(8) + 4 * b(4) + 2 * b(2) + b(1)
<1>1. a \in Nat /\ a =< 255
  BY DEF Byte
<1> DEFINE b(w) == (a \div w) % 2
           h(w) == a \div w
           m(w) == a % w
<1>2. h(1) = a /\ h(128) = b(128)
  BY <1>1
<1>3. /\ h(64) = 2 * h(128) + b(64) /\ h(32) = 2 * h(64) + b(32)
      /\ h(16) = 2 * h(32) + b(16) /\ h(8) = 2 * h(16) + b(8)
  BY <1>1
<1>4. /\ h(4) = 2 * h(8) + b(4) /\ h(2) = 2 * h(4) + b(2) /\ a = 2 * h(2) + b(1)
  BY <1>1, <1>2
<1>5. a = 4 * h(4) + m(4) /\ a = 16 * h(16) + m(16) /\ a = 64 * h(64) + m(64)
  BY <1>1
<1>6. /\ h(2) \in Int /\ h(4) \in Int /\ h(8) \in Int /\ h(16) \in Int /\ h(32) \in Int
      /\ h(64) \in Int /\ h(128) \in Int /\ m(4) \in Int /\ m(16) \in Int /\ m(64) \in Int
  BY <1>1
<1>7. /\ b(128) \in Int /\ b(64) \in Int /\ b(32) \in Int /\ b(16) \in Int
      /\ b(8) \in Int /\ b(4) \in Int /\ b(2) \in Int /\ b(1) \in Int
  BY <1>1, <1>2
<1> HIDE DEF b, h, m
<1>8. h(64) = 2 * b(128) + b(64)
  BY <1>2, <1>3, <1>6, <1>7
<1>9. h(16) = 8 * b(128) + 4 * b(64) + 2 * b(32) + b(16)
  BY <1>3, <1>6, <1>7, <1>8
<1>10. h(4) = 32 * b(128) + 16 * b(64) + 8 * b(32) + 4 * b(16) + 2 * b(8) + b(4)
  BY <1>3, <1>4, <1>6, <1>7, <1>9
<1>11. m(4) = 2 * b(2) + b(1)
  BY <1>1, <1>4, <1>5, <1>6, <1>7
<1>12. m(16) = 4 * (2 * b(8) + b(4)) + m(4)
  <2>1. h(4) = 4 * h(16) + 2 * b(8) + b(4)
    BY <1>3, <1>4, <1>6, <1>7
  <2>2. 4 * h(4) + m(4) = 16 * h(16) + m(16)
    BY <1>5
  <2> QED
    BY <1>6, <1>7, <2>1, <2>2
<1>13. m(64) = 16 * (2 * b(32) + b(16)) + m(16)
  BY <1>1, <1>3, <1>5, <1>6, <1>7
<1>14. m(16) = 8 * b(8) + 4 * b(4) + 2 * b(2) + b(1)
  BY <1>6, <1>7, <1>11, <1>12
<1>15. m(64) = 32 * b(32) + 16 * b(16) + 8 * b(8) + 4 * b(4) + 2 * b(2) + b(1)
  BY <1>6, <1>7, <1>13, <1>14
<1> QED
  BY <1>8, <1>9, <1>10, <1>11, <1>14, <1>15 DEF b, h, m

\* Bit c of group q.
LEMMA BitOfGroup ==
  ASSUME NEW q \in Nat, NEW c \in 0..23
  PROVE  Bit((24 * q) + c) = (ByteAt(in, (3 * q) + (c \div 8)) \div Weight[(c % 8) + 1]) % 2
<1>1. ((24 * q) + c) \div 8 = (3 * q) + (c \div 8) /\ ((24 * q) + c) % 8 = c % 8
  OBVIOUS
<1> QED
  BY <1>1 DEF Bit

\* A character says what its place in the group of four does.
LEMMA SextetOfGroup ==
  ASSUME in \in Seq(Byte), NEW q \in Nat, NEW j \in 1..4
  PROVE  Sextet((4 * q) + (j - 1)) = Sextets(q)[j]
<1> DEFINE a == ByteAt(in, 3 * q)
           b == ByteAt(in, (3 * q) + 1)
           c == ByteAt(in, (3 * q) + 2)
           d(x, w) == (x \div w) % 2
<1>1. a \in Byte /\ b \in Byte /\ c \in Byte
  BY ByteAtType
<1>2. Sextets(q) = <<a \div 4, ((a % 4) * 16) + (b \div 16), ((b % 16) * 4) + (c \div 64), c % 64>>
  BY DEF Sextets
<1>3. (3 * q) + 0 = 3 * q
  OBVIOUS
<1>4. /\ Bit((24 * q) + 0) = d(a, 128)
      /\ Bit((24 * q) + 1) = d(a, 64)
      /\ Bit((24 * q) + 2) = d(a, 32)
      /\ Bit((24 * q) + 3) = d(a, 16)
      /\ Bit((24 * q) + 4) = d(a, 8)
      /\ Bit((24 * q) + 5) = d(a, 4)
      /\ Bit((24 * q) + 6) = d(a, 2)
      /\ Bit((24 * q) + 7) = d(a, 1)
  <2>1. 0 \div 8 = 0 /\ 1 \div 8 = 0 /\ 2 \div 8 = 0 /\ 3 \div 8 = 0
    OBVIOUS
  <2>2. 4 \div 8 = 0 /\ 5 \div 8 = 0 /\ 6 \div 8 = 0 /\ 7 \div 8 = 0
    OBVIOUS
  <2>3. 0 % 8 = 0 /\ 1 % 8 = 1 /\ 2 % 8 = 2 /\ 3 % 8 = 3 /\ 4 % 8 = 4 /\ 5 % 8 = 5 /\ 6 % 8 = 6 /\ 7 % 8 = 7
    OBVIOUS
  <2> QED
    BY <1>3, <2>1, <2>2, <2>3, BitOfGroup DEF Weight
<1>5. /\ Bit((24 * q) + 8) = d(b, 128)
      /\ Bit((24 * q) + 9) = d(b, 64)
      /\ Bit((24 * q) + 10) = d(b, 32)
      /\ Bit((24 * q) + 11) = d(b, 16)
      /\ Bit((24 * q) + 12) = d(b, 8)
      /\ Bit((24 * q) + 13) = d(b, 4)
      /\ Bit((24 * q) + 14) = d(b, 2)
      /\ Bit((24 * q) + 15) = d(b, 1)
  <2>1. 8 \div 8 = 1 /\ 9 \div 8 = 1 /\ 10 \div 8 = 1 /\ 11 \div 8 = 1
    OBVIOUS
  <2>2. 12 \div 8 = 1 /\ 13 \div 8 = 1 /\ 14 \div 8 = 1 /\ 15 \div 8 = 1
    OBVIOUS
  <2>3. 8 % 8 = 0 /\ 9 % 8 = 1 /\ 10 % 8 = 2 /\ 11 % 8 = 3 /\ 12 % 8 = 4 /\ 13 % 8 = 5 /\ 14 % 8 = 6 /\ 15 % 8 = 7
    OBVIOUS
  <2> QED
    BY <1>3, <2>1, <2>2, <2>3, BitOfGroup DEF Weight
<1>6. /\ Bit((24 * q) + 16) = d(c, 128)
      /\ Bit((24 * q) + 17) = d(c, 64)
      /\ Bit((24 * q) + 18) = d(c, 32)
      /\ Bit((24 * q) + 19) = d(c, 16)
      /\ Bit((24 * q) + 20) = d(c, 8)
      /\ Bit((24 * q) + 21) = d(c, 4)
      /\ Bit((24 * q) + 22) = d(c, 2)
      /\ Bit((24 * q) + 23) = d(c, 1)
  <2>1. 16 \div 8 = 2 /\ 17 \div 8 = 2 /\ 18 \div 8 = 2 /\ 19 \div 8 = 2
    OBVIOUS
  <2>2. 20 \div 8 = 2 /\ 21 \div 8 = 2 /\ 22 \div 8 = 2 /\ 23 \div 8 = 2
    OBVIOUS
  <2>3. 16 % 8 = 0 /\ 17 % 8 = 1 /\ 18 % 8 = 2 /\ 19 % 8 = 3 /\ 20 % 8 = 4 /\ 21 % 8 = 5 /\ 22 % 8 = 6 /\ 23 % 8 = 7
    OBVIOUS
  <2> QED
    BY <1>3, <2>1, <2>2, <2>3, BitOfGroup DEF Weight
<1>7. Sextet((4 * q) + 0) =
        32 * d(a, 128) + 16 * d(a, 64) + 8 * d(a, 32) + 4 * d(a, 16) + 2 * d(a, 8) + d(a, 4)
  <2>1. 6 * ((4 * q) + 0) = (24 * q) + 0
    OBVIOUS
  <2>2. /\ ((24 * q) + 0) + 1 = (24 * q) + 1
        /\ ((24 * q) + 0) + 2 = (24 * q) + 2
        /\ ((24 * q) + 0) + 3 = (24 * q) + 3
        /\ ((24 * q) + 0) + 4 = (24 * q) + 4
        /\ ((24 * q) + 0) + 5 = (24 * q) + 5
    OBVIOUS
  <2> QED
    BY <2>1, <2>2, <1>4 DEF Sextet
<1>8. Sextet((4 * q) + 1) =
        32 * d(a, 2) + 16 * d(a, 1) + 8 * d(b, 128) + 4 * d(b, 64) + 2 * d(b, 32) + d(b, 16)
  <2>1. 6 * ((4 * q) + 1) = (24 * q) + 6
    OBVIOUS
  <2>2. /\ ((24 * q) + 6) + 1 = (24 * q) + 7
        /\ ((24 * q) + 6) + 2 = (24 * q) + 8
        /\ ((24 * q) + 6) + 3 = (24 * q) + 9
        /\ ((24 * q) + 6) + 4 = (24 * q) + 10
        /\ ((24 * q) + 6) + 5 = (24 * q) + 11
    OBVIOUS
  <2> QED
    BY <2>1, <2>2, <1>4, <1>5 DEF Sextet
<1>9. Sextet((4 * q) + 2) =
        32 * d(b, 8) + 16 * d(b, 4) + 8 * d(b, 2) + 4 * d(b, 1) + 2 * d(c, 128) + d(c, 64)
  <2>1. 6 * ((4 * q) + 2) = (24 * q) + 12
    OBVIOUS
  <2>2. /\ ((24 * q) + 12) + 1 = (24 * q) + 13
        /\ ((24 * q) + 12) + 2 = (24 * q) + 14
        /\ ((24 * q) + 12) + 3 = (24 * q) + 15
        /\ ((24 * q) + 12) + 4 = (24 * q) + 16
        /\ ((24 * q) + 12) + 5 = (24 * q) + 17
    OBVIOUS
  <2> QED
    BY <2>1, <2>2, <1>5, <1>6 DEF Sextet
<1>10. Sextet((4 * q) + 3) =
        32 * d(c, 32) + 16 * d(c, 16) + 8 * d(c, 8) + 4 * d(c, 4) + 2 * d(c, 2) + d(c, 1)
  <2>1. 6 * ((4 * q) + 3) = (24 * q) + 18
    OBVIOUS
  <2>2. /\ ((24 * q) + 18) + 1 = (24 * q) + 19
        /\ ((24 * q) + 18) + 2 = (24 * q) + 20
        /\ ((24 * q) + 18) + 3 = (24 * q) + 21
        /\ ((24 * q) + 18) + 4 = (24 * q) + 22
        /\ ((24 * q) + 18) + 5 = (24 * q) + 23
    OBVIOUS
  <2> QED
    BY <2>1, <2>2, <1>6 DEF Sextet
<1> HIDE DEF a, b, c
<1>11. /\ Sextet((4 * q) + 0) = a \div 4 /\ Sextet((4 * q) + 3) = c % 64
  BY <1>1, <1>7, <1>10, BitsOfByte
<1>12. Sextet((4 * q) + 1) = ((a % 4) * 16) + (b \div 16)
  <2>1. /\ a % 4 = 2 * d(a, 2) + d(a, 1)
        /\ b \div 16 = 8 * d(b, 128) + 4 * d(b, 64) + 2 * d(b, 32) + d(b, 16)
    BY <1>1, BitsOfByte
  <2>2. /\ d(a, 2) \in Int /\ d(a, 1) \in Int /\ d(b, 128) \in Int /\ d(b, 64) \in Int
        /\ d(b, 32) \in Int /\ d(b, 16) \in Int
    BY <1>1 DEF Byte
  <2> HIDE DEF d
  <2>3. PICK u, v, w, x, y, z \in Int :
          u = d(a, 2) /\ v = d(a, 1) /\ w = d(b, 128)
          /\ x = d(b, 64) /\ y = d(b, 32) /\ z = d(b, 16)
    BY <2>2
  <2>4. /\ Sextet((4 * q) + 1) = 32 * u + 16 * v + 8 * w + 4 * x + 2 * y + z
        /\ a % 4 = 2 * u + v /\ b \div 16 = 8 * w + 4 * x + 2 * y + z
    BY <1>8, <2>1, <2>3, Zenon
  <2> QED
    BY <2>4
<1>13. Sextet((4 * q) + 2) = ((b % 16) * 4) + (c \div 64)
  <2>1. /\ b % 16 = 8 * d(b, 8) + 4 * d(b, 4) + 2 * d(b, 2) + d(b, 1)
        /\ c \div 64 = 2 * d(c, 128) + d(c, 64)
    BY <1>1, BitsOfByte
  <2>2. /\ d(b, 8) \in Int /\ d(b, 4) \in Int /\ d(b, 2) \in Int /\ d(b, 1) \in Int
        /\ d(c, 128) \in Int /\ d(c, 64) \in Int
    BY <1>1 DEF Byte
  <2> HIDE DEF d
  <2>3. PICK u, v, w, x, y, z \in Int :
          u = d(b, 8) /\ v = d(b, 4) /\ w = d(b, 2)
          /\ x = d(b, 1) /\ y = d(c, 128) /\ z = d(c, 64)
    BY <2>2
  <2>4. /\ Sextet((4 * q) + 2) = 32 * u + 16 * v + 8 * w + 4 * x + 2 * y + z
        /\ b % 16 = 8 * u + 4 * v + 2 * w + x /\ c \div 64 = 2 * y + z
    BY <1>9, <2>1, <2>3, Zenon
  <2> QED
    BY <2>4
<1>14. /\ Sextets(q)[1] = a \div 4 /\ Sextets(q)[2] = ((a % 4) * 16) + (b \div 16)
       /\ Sextets(q)[3] = ((b % 16) * 4) + (c \div 64) /\ Sextets(q)[4] = c % 64
  BY <1>2
<1>15. j = 1 \/ j = 2 \/ j = 3 \/ j = 4
  OBVIOUS
<1> QED
  BY <1>11, <1>12, <1>13, <1>14, <1>15
\* Every character written is one of the 64, or "=".
Chars == \A k \in 1..Len(out) : out[k] = Pad \/ out[k] = Charset(Index(out[k]))
StandardInv ==
    job = "base64" =>
        /\ Chars
        /\ stage = "done" => Base64Standard

\* Then what decode() would read says all of what is written.
LEMMA ClosedIsStandard ==
  ASSUME TypeInv, job = "base64", stage = "back", Chars
  PROVE  Base64Standard
<1> DEFINE l == Len(in)
           P == Padding
<1>1. in \in Seq(Byte) /\ out \in Seq(Byte) /\ l \in Nat
  BY DEF TypeInv, TypeOK
<1>2. PICK n \in Nat : Closed(n)
  BY DEF TypeInv, Base64Inv
<1>3. /\ Len(out) = 4 * n /\ 3 * n = l + P /\ Reads(n)
      /\ \A k \in 1..Len(out) : out[k] = Pad <=> k > Len(out) - P
  BY <1>2 DEF Closed
<1>4. P \in 0..2
  <2> HIDE DEF l
  <2>1. (3 - (l % 3)) % 3 \in 0..2
    BY <1>1
  <2> QED
    BY <2>1 DEF Padding, l
<1> HIDE DEF l, P
<1>5. Len(out) = 4 * ((l + 2) \div 3)
  <2>1. (l + 2) \div 3 = n
    BY <1>1, <1>3, <1>4
  <2> QED
    BY <1>3, <2>1
<1>6. ASSUME NEW p \in 0..Len(out) - 1
      PROVE  out[p + 1] = IF 6 * p < 8 * l THEN Charset(Sextet(p)) ELSE Pad
  <2> DEFINE q == p \div 4
             j == (p % 4) + 1
  <2>1. p \in 0..(4 * n) - 1
    BY <1>3
  <2>2. /\ q \in Nat /\ q \in 0..n - 1 /\ j \in 1..4
        /\ (4 * q) + (j - 1) = p /\ (4 * q) + j = p + 1
    BY <2>1
  <2> HIDE DEF q, j
  <2>3. p + 1 \in 1..Len(out)
    BY <1>3, <2>1
  <2>4. Index(out[p + 1]) = Sextets(q)[j]
    BY <1>3, <2>2 DEF Reads
  <2>5. Sextet(p) = Sextets(q)[j]
    BY <1>1, <2>2, SextetOfGroup
  <2>6. out[p + 1] = Pad <=> p + 1 > (4 * n) - P
    BY <1>3, <2>3
  <2>7. p + 1 > (4 * n) - P <=> ~(6 * p < 8 * l)
    <3>1. p \in Nat
      BY <2>1
    <3>2. CASE P = 0
      BY <1>1, <1>3, <3>1, <3>2
    <3>3. CASE P = 1
      BY <1>1, <1>3, <3>1, <3>3
    <3>4. CASE P = 2
      BY <1>1, <1>3, <3>1, <3>4
    <3> QED
      BY <1>4, <3>2, <3>3, <3>4
  <2>8. out[p + 1] = Pad \/ out[p + 1] = Charset(Sextet(p))
    BY <2>3, <2>4, <2>5 DEF Chars
  <2> QED
    BY <2>6, <2>7, <2>8
<1> QED
  BY <1>5, <1>6 DEF Base64Standard, l

LEMMA InitStandard == Init => StandardInv
<1> SUFFICES ASSUME Init PROVE StandardInv
  OBVIOUS
<1>1. Len(out) = 0 /\ stage = "run"
  BY DEF Init
<1> QED
  BY <1>1 DEF StandardInv, Chars

LEMMA GroupIsChars ==
  ASSUME NEW a \in Byte, NEW b \in Byte, NEW c \in Byte
  PROVE  /\ Group(a, b, c) \in Seq(Byte) /\ Len(Group(a, b, c)) = 4
         /\ \A j \in 1..4 : Group(a, b, c)[j] = Charset(Index(Group(a, b, c)[j]))
<1> DEFINE p == a \div 4
           q == ((a % 4) * 16) + (b \div 16)
           r == ((b % 16) * 4) + (c \div 64)
           t == c % 64
<1>1. p \in 0..63 /\ q \in 0..63 /\ r \in 0..63 /\ t \in 0..63
  BY SextetTypes
<1>2. Group(a, b, c) = <<Charset(p), Charset(q), Charset(r), Charset(t)>>
  BY DEF Group
<1> HIDE DEF p, q, r, t
<1>3. /\ Charset(p) \in Byte /\ Index(Charset(p)) = p
      /\ Charset(q) \in Byte /\ Index(Charset(q)) = q
      /\ Charset(r) \in Byte /\ Index(Charset(r)) = r
      /\ Charset(t) \in Byte /\ Index(Charset(t)) = t
  BY <1>1, CharsetIndex
<1> DEFINE g == <<Charset(p), Charset(q), Charset(r), Charset(t)>>
<1>4. g \in Seq(Byte) /\ Len(g) = 4
  BY <1>3
<1>5. g[1] = Charset(p) /\ g[2] = Charset(q) /\ g[3] = Charset(r) /\ g[4] = Charset(t)
  OBVIOUS
<1> HIDE DEF g
<1>6. ASSUME NEW j \in 1..4 PROVE g[j] = Charset(Index(g[j]))
  <2>1. j = 1 \/ j = 2 \/ j = 3 \/ j = 4
    OBVIOUS
  <2> QED
    BY <1>3, <1>5, <2>1
<1> QED
  BY <1>2, <1>4, <1>6 DEF g

LEMMA EncodesChars ==
  ASSUME TypeInv, StandardInv, EncodeGroup \/ EncodePad
  PROVE  StandardInv'
<1>1. /\ in \in Seq(Byte) /\ out \in Seq(Byte) /\ i \in Nat /\ job = "base64"
      /\ Chars /\ stage' # "done"
  BY DEF EncodeGroup, EncodePad, TypeInv, TypeOK, StandardInv
<1>2. CASE EncodeGroup
  <2> DEFINE g == Group(ByteAt(in, i), ByteAt(in, i + 1), ByteAt(in, i + 2))
             m == Len(out)
  <2>1. g \in Seq(Byte) /\ Len(g) = 4 /\ \A j \in 1..4 : g[j] = Charset(Index(g[j]))
    <3>1. i \in Nat /\ i + 1 \in Nat /\ i + 2 \in Nat
      BY <1>1
    <3>2. ByteAt(in, i) \in Byte /\ ByteAt(in, i + 1) \in Byte /\ ByteAt(in, i + 2) \in Byte
      BY <1>1, <3>1, ByteAtType
    <3> QED
      BY <3>2, GroupIsChars
  <2>2. out' = out \o g
    BY <1>2 DEF EncodeGroup
  <2>3. m \in Nat
    BY <1>1
  <2> HIDE DEF g
  <2>4. /\ Len(out') = Len(out) + Len(g)
        /\ \A k \in 1..Len(out) + Len(g) :
             out'[k] = IF k =< Len(out) THEN out[k] ELSE g[k - Len(out)]
    BY <1>1, <2>1, <2>2, ConcatProperties, Zenon
  <2>5. ASSUME NEW k \in 1..m + 4 PROVE out'[k] = Pad \/ out'[k] = Charset(Index(out'[k]))
    <3>1. out'[k] = IF k =< m THEN out[k] ELSE g[k - m]
      BY <2>1, <2>4
    <3>2. CASE k =< m
      <4>1. k \in 1..Len(out)
        BY <2>3, <3>2
      <4>2. out[k] = Pad \/ out[k] = Charset(Index(out[k]))
        BY <1>1, <4>1 DEF Chars
      <4> QED
        BY <3>1, <3>2, <4>2
    <3>3. CASE ~(k =< m)
      <4>1. k - m \in 1..4
        BY <2>3, <3>3
      <4>2. g[k - m] = Charset(Index(g[k - m]))
        BY <2>1, <4>1
      <4> QED
        BY <3>1, <3>3, <4>2
    <3> QED
      BY <3>2, <3>3
  <2>6. Len(out') = m + 4
    BY <2>1, <2>4
  <2> QED
    BY <1>1, <2>5, <2>6 DEF StandardInv, Chars
<1>3. CASE EncodePad
  <2> DEFINE h == Len(out) - Padding
             kept == SubSeq(out, 1, h)
             pads == [k \in 1..Padding |-> Pad]
  <2>1. out' = kept \o pads
    BY <1>3 DEF EncodePad, Padded
  <2>2. Padding \in 0..2 /\ Len(out) \in Nat
    <3> DEFINE l == Len(in)
    <3>1. l \in Nat
      BY <1>1
    <3> HIDE DEF l
    <3>2. (3 - (l % 3)) % 3 \in 0..2
      BY <3>1
    <3> QED
      BY <1>1, <3>2 DEF Padding, l
  <2>3. h \in Int /\ h =< Len(out)
    BY <2>2
  <2>4. \A k \in 1..h : out[k] \in Byte
    BY <1>1, <2>2, <2>3
  <2>5. /\ kept \in Seq(Byte) /\ Len(kept) = IF 1 =< h THEN h - 1 + 1 ELSE 0
        /\ \A k \in 1..h - 1 + 1 : kept[k] = out[1 + k - 1]
    <3> HIDE DEF h
    <3> QED
      BY <2>3, <2>4, SubSeqProperties
  <2>6. pads \in Seq(Byte) /\ Len(pads) = Padding /\ \A k \in 1..Padding : pads[k] = Pad
    BY <2>2 DEF Pad, Byte
  <2> DEFINE m == Len(kept)
  <2>7. m \in Nat /\ \A k \in 1..m : k \in 1..Len(out) /\ kept[k] = out[k]
    <3> HIDE DEF h, kept
    <3>1. m = (IF 1 =< h THEN h ELSE 0) /\ h - 1 + 1 = h
      BY <2>3, <2>5
    <3>2. \A k \in 1..h : kept[k] = out[k]
      BY <2>3, <2>5
    <3> HIDE DEF m
    <3> QED
      BY <2>2, <2>3, <3>1, <3>2
  <2> HIDE DEF h, kept, pads
  <2>8. /\ Len(out') = Len(kept) + Len(pads)
        /\ \A k \in 1..Len(kept) + Len(pads) :
             out'[k] = IF k =< Len(kept) THEN kept[k] ELSE pads[k - Len(kept)]
    BY <2>1, <2>5, <2>6, ConcatProperties, Zenon
  <2>9. Len(out') = m + Padding
    BY <2>6, <2>8
  <2>10. ASSUME NEW k \in 1..m + Padding
         PROVE  out'[k] = Pad \/ out'[k] = Charset(Index(out'[k]))
    <3>1. out'[k] = IF k =< m THEN kept[k] ELSE pads[k - m]
      BY <2>6, <2>8
    <3> HIDE DEF m
    <3>2. CASE k =< m
      <4>1. k \in 1..m
        BY <2>2, <2>7, <3>2
      <4> QED
        BY <1>1, <2>7, <3>1, <3>2, <4>1 DEF Chars
    <3>3. CASE ~(k =< m)
      <4>1. k - m \in 1..Padding
        BY <2>2, <2>7, <3>3
      <4> QED
        BY <2>6, <3>1, <3>3, <4>1
    <3> QED
      BY <3>2, <3>3
  <2> QED
    BY <1>1, <2>9, <2>10 DEF StandardInv, Chars
<1> QED
  BY <1>2, <1>3

LEMMA NextStandard ==
  ASSUME TypeInv, StandardInv, [Next]_vars
  PROVE  StandardInv'
<1>1. CASE UNCHANGED vars
  BY <1>1 DEF vars, StandardInv, Chars, Base64Standard, Sextet, Bit
<1>2. CASE job # "base64"
  BY <1>2, StepsOf DEF StandardInv
<1>3. CASE job = "base64" /\ (EncodeGroup \/ EncodePad)
  BY <1>3, EncodesChars
<1>4. CASE job = "base64" /\ (DecodeGroup \/ DecodeStrip)
  <2>1. stage = "back" /\ UNCHANGED <<job, in, out>>
    BY <1>4 DEF DecodeGroup, DecodeStrip
  <2>2. Chars
    BY <1>4 DEF StandardInv
  <2>3. Base64Standard
    BY <1>4, <2>1, <2>2, ClosedIsStandard
  <2>4. Chars' = Chars
    BY <2>1 DEF Chars
  <2>5. stage' = "done" => Base64Standard' = Base64Standard
    BY <2>1 DEF Base64Standard, Sextet, Bit
  <2> QED
    BY <2>2, <2>3, <2>4, <2>5 DEF StandardInv
<1> QED
  BY <1>1, <1>2, <1>3, <1>4, StepsOf

\* encodeFromArray() writes the Base64 of RFC 4648, for every array of bytes, of
\* any length: the bits of each character, and the "=" at the end.
THEOREM StandardWritten == Spec => []Base64Standard
<1>1. Init => TypeInv /\ StandardInv
  BY InitTypes, InitStandard
<1>2. TypeInv /\ StandardInv /\ [Next]_vars => TypeInv' /\ StandardInv'
  BY NextKeeps, NextStandard
<1>3. TypeInv /\ StandardInv => Base64Standard
  <2>1. ASSUME TypeInv, StandardInv, job = "base64", stage = "back" PROVE Base64Standard
    BY <2>1, ClosedIsStandard DEF StandardInv
  <2> QED
    BY <2>1 DEF StandardInv, Base64Standard
<1> QED
  BY <1>1, <1>2, <1>3, PTL DEF Spec
=============================================================================
