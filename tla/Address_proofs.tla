--------------------------- MODULE Address_proofs ---------------------------
(***************************************************************************)
(* Proofs about Address, for URLs of any length.                           *)
(***************************************************************************)
EXTENDS Address, SequenceTheorems, FiniteSetTheorems, WellFoundedInduction, TLAPS

(***************************************************************************)
(* Runs and places                                                         *)
(***************************************************************************)

\* A set of natural numbers that is not empty has a least one.
Less == {p \in Nat \X Nat : p[1] < p[2]}
LEMMA LeastExists ==
  ASSUME NEW T, T \subseteq Nat, T # {}
  PROVE  \E m \in T : \A n \in T : m =< n
<1>1. IsWellFoundedOn(Less, Nat)
  BY NatLessThanWellFounded DEF OpToRel, Less
<1>2. PICK m \in T : \A n \in T : ~(<<n, m>> \in Less)
  BY <1>1, WFMin, Zenon
<1>3. ASSUME NEW n \in T PROVE m =< n
  <2>1. <<n, m>> \notin Less
    BY <1>2
  <2>2. n \in Nat /\ m \in Nat
    OBVIOUS
  <2>3. ~(n < m)
    BY <2>1, <2>2 DEF Less
  <2> QED
    BY <2>2, <2>3
<1> QED
  BY <1>3

\* The run exists: there is a first character outside C, or the end.
LEMMA RunExists ==
  ASSUME NEW S, NEW s \in Seq(S), NEW C
  PROVE  /\ Run(s, C) \in 0..Len(s)
         /\ \A k \in 1..Run(s, C) : s[k] \in C
         /\ Run(s, C) < Len(s) => s[Run(s, C) + 1] \notin C
<1> DEFINE T == {n \in 0..Len(s) : n < Len(s) => s[n + 1] \notin C}
<1>1. T \subseteq Nat /\ T # {}
  OBVIOUS
<1>2. PICK m \in T : \A n \in T : m =< n
  BY <1>1, LeastExists, Zenon
<1>3. ASSUME NEW k \in 1..m PROVE s[k] \in C
  <2>1. k - 1 \notin T
    BY <1>2
  <2>2. k - 1 \in 0..Len(s)
    OBVIOUS
  <2> QED
    BY <2>1, <2>2
<1>4. \E n \in 0..Len(s) : (\A k \in 1..n : s[k] \in C) /\ (n < Len(s) => s[n + 1] \notin C)
  BY <1>3
<1> QED
  BY <1>4 DEF Run

\* Only one number is the run.
LEMMA RunIs ==
  ASSUME NEW S, NEW s \in Seq(S), NEW C, NEW n \in 0..Len(s),
         \A k \in 1..n : s[k] \in C, n < Len(s) => s[n + 1] \notin C
  PROVE  Run(s, C) = n
<1> DEFINE r == Run(s, C)
<1>1. /\ r \in 0..Len(s) /\ \A k \in 1..r : s[k] \in C
      /\ r < Len(s) => s[r + 1] \notin C
  BY RunExists
<1> HIDE DEF r
<1>2. ~(r < n)
  BY <1>1
<1>3. ~(n < r)
  BY <1>1
<1>4. r = n
  BY <1>1, <1>2, <1>3
<1> QED
  BY <1>4 DEF r

\* What Prefix and Rest are, character by character.
LEMMA PrefixRest ==
  ASSUME NEW S, NEW s \in Seq(S), NEW C
  PROVE  /\ Prefix(s, C) \in Seq(S) /\ Len(Prefix(s, C)) = Run(s, C)
         /\ \A k \in 1..Run(s, C) : Prefix(s, C)[k] = s[k]
         /\ Rest(s, C) \in Seq(S) /\ Len(Rest(s, C)) = Len(s) - Run(s, C)
         /\ \A k \in 1..Len(s) - Run(s, C) : Rest(s, C)[k] = s[Run(s, C) + k]
<1> DEFINE r == Run(s, C)
<1>1. r \in 0..Len(s)
  BY RunExists
<1>2. Prefix(s, C) = SubSeq(s, 1, r) /\ Rest(s, C) = SubSeq(s, r + 1, Len(s))
  BY DEF Prefix, Rest
<1> HIDE DEF r
<1>3. /\ SubSeq(s, 1, r) \in Seq(S) /\ Len(SubSeq(s, 1, r)) = r
      /\ \A k \in 1..r : SubSeq(s, 1, r)[k] = s[k]
  <2>1. 1 \in Int /\ r \in Int /\ \A k \in 1..r : s[k] \in S
    BY <1>1
  <2> QED
    BY <1>1, <2>1, SubSeqProperties
<1>4. /\ SubSeq(s, r + 1, Len(s)) \in Seq(S) /\ Len(SubSeq(s, r + 1, Len(s))) = Len(s) - r
      /\ \A k \in 1..Len(s) - r : SubSeq(s, r + 1, Len(s))[k] = s[r + k]
  <2>1. r + 1 \in Int /\ Len(s) \in Int /\ \A k \in r + 1..Len(s) : s[k] \in S
    BY <1>1
  <2>2. /\ SubSeq(s, r + 1, Len(s)) \in Seq(S)
        /\ Len(SubSeq(s, r + 1, Len(s))) = IF r + 1 =< Len(s) THEN Len(s) - (r + 1) + 1 ELSE 0
        /\ \A k \in 1..Len(s) - (r + 1) + 1 : SubSeq(s, r + 1, Len(s))[k] = s[(r + 1) + k - 1]
    BY <2>1, SubSeqProperties
  <2> QED
    BY <1>1, <2>2
<1> QED
  BY <1>2, <1>3, <1>4 DEF r

\* The characters of a prefix are all in its set.
LEMMA PrefixIn ==
  ASSUME NEW S, NEW s \in Seq(S), NEW C
  PROVE  Prefix(s, C) \in Seq(C)
<1>1. Prefix(s, C) \in Seq(S) /\ Len(Prefix(s, C)) = Run(s, C)
  BY PrefixRest
<1>2. \A k \in 1..Run(s, C) : Prefix(s, C)[k] \in C
  BY PrefixRest, RunExists
<1> QED
  BY <1>1, <1>2

\* A character that occurs has a last place.
LEMMA LastPlaceExists ==
  ASSUME NEW S, NEW s \in Seq(S), NEW c, Places(s, c) # {}
  PROVE  LastPlace(s, c) \in Places(s, c) /\ \A j \in Places(s, c) : j =< LastPlace(s, c)
<1> DEFINE T == {Len(s) - k : k \in Places(s, c)}
<1>1. T \subseteq Nat /\ T # {}
  BY DEF Places
<1>2. PICK m \in T : \A n \in T : m =< n
  BY <1>1, LeastExists, Zenon
<1>3. PICK k \in Places(s, c) : m = Len(s) - k
  BY <1>2
<1>4. ASSUME NEW j \in Places(s, c) PROVE j =< k
  <2>1. m =< Len(s) - j
    BY <1>2
  <2> QED
    BY <1>3, <2>1 DEF Places
<1> QED
  BY <1>4 DEF LastPlace

(***************************************************************************)
(* open(): what the address, the port and the rest of a URL are            *)
(***************************************************************************)

\* A subsequence, character by character.
LEMMA SubSeqIs ==
  ASSUME NEW S, NEW s \in Seq(S), NEW m \in 1..Len(s) + 1, NEW n \in m - 1..Len(s)
  PROVE  /\ SubSeq(s, m, n) \in Seq(S) /\ Len(SubSeq(s, m, n)) = n - m + 1
         /\ \A k \in 1..n - m + 1 : SubSeq(s, m, n)[k] = s[m + k - 1]
<1>1. m \in Int /\ n \in Int /\ \A k \in m..n : s[k] \in S
  OBVIOUS
<1>2. /\ SubSeq(s, m, n) \in Seq(S)
      /\ Len(SubSeq(s, m, n)) = IF m =< n THEN n - m + 1 ELSE 0
      /\ \A k \in 1..n - m + 1 : SubSeq(s, m, n)[k] = s[m + k - 1]
  BY <1>1, SubSeqProperties
<1> QED
  BY <1>2

\* A sequence whose characters are all in T is a sequence over T.
LEMMA SeqIn ==
  ASSUME NEW S, NEW T, NEW s \in Seq(S), \A k \in 1..Len(s) : s[k] \in T
  PROVE  s \in Seq(T)
OBVIOUS

\* A URL of any length.
Url(u) == u \in [proto : Schemes, rest : Seq(Chars)]

\* What the first expression takes as the address, and the last colon in it.
Found(u) == Prefix(u.rest, AddrChars)
Colon(u) == LastPlace(Found(u), ":")

LEMMA FoundIs ==
  ASSUME NEW u, Url(u)
  PROVE  /\ u.rest \in Seq(Chars) /\ Found(u) \in Seq(AddrChars) /\ Found(u) \in Seq(Chars)
         /\ Len(Found(u)) \in 0..Len(u.rest) /\ Len(Found(u)) = Run(u.rest, AddrChars)
         /\ \A k \in 1..Len(Found(u)) : Found(u)[k] = u.rest[k] /\ u.rest[k] \in AddrChars
         /\ Len(Found(u)) < Len(u.rest) => u.rest[Len(Found(u)) + 1] \notin AddrChars
<1>1. u.rest \in Seq(Chars)
  BY DEF Url
<1>2. /\ Run(u.rest, AddrChars) \in 0..Len(u.rest)
      /\ \A k \in 1..Run(u.rest, AddrChars) : u.rest[k] \in AddrChars
      /\ Run(u.rest, AddrChars) < Len(u.rest) => u.rest[Run(u.rest, AddrChars) + 1] \notin AddrChars
  BY <1>1, RunExists
<1>3. /\ Found(u) \in Seq(Chars) /\ Len(Found(u)) = Run(u.rest, AddrChars)
      /\ \A k \in 1..Run(u.rest, AddrChars) : Found(u)[k] = u.rest[k]
  BY <1>1, PrefixRest DEF Found
<1>4. Found(u) \in Seq(AddrChars)
  BY <1>1, PrefixIn DEF Found
<1> QED
  BY <1>1, <1>2, <1>3, <1>4

\* Where the address has a port, digits follow its last colon.
LEMMA ColonIs ==
  ASSUME NEW u, Url(u), HostAndPort(Found(u))
  PROVE  /\ Colon(u) \in 1..Len(Found(u)) - 1 /\ Found(u)[Colon(u)] = ":"
         /\ \A k \in Colon(u) + 1..Len(Found(u)) : Found(u)[k] \in Digit
<1>1. Found(u) \in Seq(Chars)
  BY FoundIs
<1>2. Colon(u) \in Places(Found(u), ":")
  BY <1>1, LastPlaceExists DEF HostAndPort, Colon
<1>3. Colon(u) \in 1..Len(Found(u)) /\ Found(u)[Colon(u)] = ":"
  BY <1>1, <1>2 DEF Places
<1>4. Colon(u) < Len(Found(u)) /\ \A k \in Colon(u) + 1..Len(Found(u)) : Found(u)[k] \in Digit
  BY DEF HostAndPort, Colon
<1> QED
  BY <1>1, <1>3, <1>4

\* The pieces of an address with a port.
LEMMA PiecesAre ==
  ASSUME NEW u, Url(u), HostAndPort(Found(u))
  PROVE  /\ BeforeColon(Found(u), Colon(u)) \in Seq(Chars)
         /\ Len(BeforeColon(Found(u), Colon(u))) = Colon(u) - 1
         /\ \A k \in 1..Colon(u) - 1 : BeforeColon(Found(u), Colon(u))[k] = Found(u)[k]
         /\ AfterColon(Found(u), Colon(u)) \in Seq(Digit)
         /\ Len(AfterColon(Found(u), Colon(u))) = Len(Found(u)) - Colon(u)
         /\ \A k \in 1..Len(Found(u)) - Colon(u) :
              AfterColon(Found(u), Colon(u))[k] = Found(u)[Colon(u) + k]
<1> DEFINE a == Found(u)
           p == Colon(u)
<1>1. /\ a \in Seq(Chars) /\ p \in 1..Len(a) - 1
      /\ \A k \in p + 1..Len(a) : a[k] \in Digit
  BY FoundIs, ColonIs
<1> HIDE DEF a, p
<1>2. /\ SubSeq(a, 1, p - 1) \in Seq(Chars) /\ Len(SubSeq(a, 1, p - 1)) = p - 1
      /\ \A k \in 1..p - 1 : SubSeq(a, 1, p - 1)[k] = a[k]
  <2>1. 1 \in 1..Len(a) + 1 /\ p - 1 \in 1 - 1..Len(a)
    BY <1>1
  <2>2. /\ SubSeq(a, 1, p - 1) \in Seq(Chars) /\ Len(SubSeq(a, 1, p - 1)) = (p - 1) - 1 + 1
        /\ \A k \in 1..(p - 1) - 1 + 1 : SubSeq(a, 1, p - 1)[k] = a[1 + k - 1]
    BY <1>1, <2>1, SubSeqIs
  <2> QED
    BY <1>1, <2>2
<1>3. /\ SubSeq(a, p + 1, Len(a)) \in Seq(Chars) /\ Len(SubSeq(a, p + 1, Len(a))) = Len(a) - p
      /\ \A k \in 1..Len(a) - p : SubSeq(a, p + 1, Len(a))[k] = a[p + k]
  <2>1. p + 1 \in 1..Len(a) + 1 /\ Len(a) \in (p + 1) - 1..Len(a)
    BY <1>1
  <2>2. /\ SubSeq(a, p + 1, Len(a)) \in Seq(Chars)
        /\ Len(SubSeq(a, p + 1, Len(a))) = Len(a) - (p + 1) + 1
        /\ \A k \in 1..Len(a) - (p + 1) + 1 : SubSeq(a, p + 1, Len(a))[k] = a[(p + 1) + k - 1]
    BY <1>1, <2>1, SubSeqIs
  <2> QED
    BY <1>1, <2>2
<1>4. \A k \in 1..Len(a) - p : SubSeq(a, p + 1, Len(a))[k] \in Digit
  BY <1>1, <1>3
<1>5. SubSeq(a, p + 1, Len(a)) \in Seq(Digit)
  BY <1>3, <1>4, SeqIn
<1> QED
  BY <1>2, <1>3, <1>5 DEF BeforeColon, AfterColon, a, p

\* Both cases of what open() stores.
LEMMA ElementsAre ==
  ASSUME NEW u, Url(u)
  PROVE  /\ Elements(u).proto = u.proto /\ Elements(u).urn = Rest(u.rest, AddrChars)
         /\ HostAndPort(Found(u)) =>
              /\ Elements(u).addr = BeforeColon(Found(u), Colon(u))
              /\ Elements(u).port = AfterColon(Found(u), Colon(u))
         /\ ~HostAndPort(Found(u)) =>
              Elements(u).addr = Found(u) /\ Elements(u).port = DefaultPort(u.proto)
BY DEF Elements, Found, Colon

LEMMA DefaultPortIs ==
  ASSUME NEW p
  PROVE  DefaultPort(p) \in Seq(Digit) /\ Len(DefaultPort(p)) \in Nat \ {0}
<1>1. CASE p = "https"
  BY <1>1 DEF DefaultPort, Digit
<1>2. CASE p # "https"
  BY <1>2 DEF DefaultPort, Digit
<1> QED
  BY <1>1, <1>2

\* What fetch() puts between the address and the rest of a URL without a port.
Added(u) == Len(DefaultPort(u.proto)) + 1

LEMMA UrnIs ==
  ASSUME NEW u, Url(u)
  PROVE  /\ Elements(u).urn \in Seq(Chars)
         /\ Len(Elements(u).urn) = Len(u.rest) - Len(Found(u))
         /\ \A k \in 1..Len(Elements(u).urn) : Elements(u).urn[k] = u.rest[Len(Found(u)) + k]
<1>1. u.rest \in Seq(Chars) /\ Len(Found(u)) = Run(u.rest, AddrChars)
  BY FoundIs
<1> QED
  BY <1>1, ElementsAre, PrefixRest

\* The types of what open() stores.
LEMMA ElementsTyped ==
  ASSUME NEW u, Url(u), Matches(u)
  PROVE  Elements(u) \in [addr : Seq(Chars), port : Seq(Digit), proto : Protos, urn : Seq(Chars)]
<1>1. Elements(u).addr \in Seq(Chars) /\ Elements(u).port \in Seq(Digit)
  <2>1. CASE HostAndPort(Found(u))
    BY <2>1, ElementsAre, PiecesAre
  <2>2. CASE ~HostAndPort(Found(u))
    BY <2>2, ElementsAre, FoundIs, DefaultPortIs
  <2> QED
    BY <2>1, <2>2
<1>2. Elements(u).proto \in Protos /\ Elements(u).urn \in Seq(Chars)
  BY ElementsAre, UrnIs DEF Matches
<1>3. Elements(u) = [addr |-> Elements(u).addr, port |-> Elements(u).port,
                     proto |-> Elements(u).proto, urn |-> Elements(u).urn]
  BY DEF Elements
<1> QED
  BY <1>1, <1>2, <1>3

(***************************************************************************)
(* fetch(): the URL put together again                                     *)
(***************************************************************************)

\* Two sequences joined: who stands where.
LEMMA ConcatIs ==
  ASSUME NEW S, NEW s \in Seq(S), NEW t \in Seq(S)
  PROVE  /\ s \o t \in Seq(S) /\ Len(s \o t) = Len(s) + Len(t)
         /\ \A k \in 1..Len(s) : (s \o t)[k] = s[k]
         /\ \A k \in 1..Len(t) : (s \o t)[Len(s) + k] = t[k]
<1> DEFINE st == s \o t
<1>1. /\ st \in Seq(S) /\ Len(st) = Len(s) + Len(t)
      /\ \A k \in 1..Len(s) + Len(t) : st[k] = IF k =< Len(s) THEN s[k] ELSE t[k - Len(s)]
  BY ConcatProperties, Zenon
<1> HIDE DEF st
<1>2. \A k \in 1..Len(s) : st[k] = s[k]
  BY <1>1
<1>a. Len(s) \in Nat /\ Len(t) \in Nat
  OBVIOUS
<1>3. ASSUME NEW k \in 1..Len(t) PROVE st[Len(s) + k] = t[k]
  <2>1. /\ Len(s) + k \in 1..Len(s) + Len(t) /\ ~(Len(s) + k =< Len(s))
        /\ (Len(s) + k) - Len(s) = k
    BY <1>a
  <2>2. st[Len(s) + k] = t[(Len(s) + k) - Len(s)]
    BY <1>1, <2>1, Zenon
  <2> QED
    BY <2>1, <2>2, Zenon
<1> QED
  BY <1>1, <1>2, <1>3 DEF st

\* Sequences joined by one character: t is w, c, y and z one after the other.
Joins(t, S, w, c, y, z) ==
  /\ t \in Seq(S) /\ Len(t) = Len(w) + 1 + Len(y) + Len(z)
  /\ \A k \in 1..Len(w) : t[k] = w[k]
  /\ t[Len(w) + 1] = c
  /\ \A k \in 1..Len(y) : t[Len(w) + 1 + k] = y[k]
  /\ \A k \in 1..Len(z) : t[Len(w) + 1 + Len(y) + k] = z[k]

LEMMA JoinedByOne ==
  ASSUME NEW S, NEW w \in Seq(S), NEW c \in S, NEW y \in Seq(S), NEW z \in Seq(S)
  PROVE  Joins(w \o <<c>> \o y \o z, S, w, c, y, z)
<1> DEFINE x == <<c>>
           wx == w \o x
           wxy == wx \o y
           all == wxy \o z
<1>1. x \in Seq(S) /\ Len(x) = 1 /\ x[1] = c
  OBVIOUS
<1>a. x \in Seq(S)
  BY <1>1
<1> HIDE DEF x
<1>2. /\ wx \in Seq(S) /\ Len(wx) = Len(w) + Len(x)
      /\ \A k \in 1..Len(w) : wx[k] = w[k]
      /\ \A k \in 1..Len(x) : wx[Len(w) + k] = x[k]
  BY <1>a, ConcatIs
<1>b. wx \in Seq(S)
  BY <1>2
<1> HIDE DEF wx
<1>3. Len(wx) = Len(w) + 1 /\ wx[Len(w) + 1] = c
  BY <1>1, <1>2
<1>4. /\ wxy \in Seq(S) /\ Len(wxy) = Len(wx) + Len(y)
      /\ \A k \in 1..Len(wx) : wxy[k] = wx[k]
      /\ \A k \in 1..Len(y) : wxy[Len(wx) + k] = y[k]
  BY <1>b, ConcatIs
<1>c. wxy \in Seq(S)
  BY <1>4
<1> HIDE DEF wxy
<1>5. /\ all \in Seq(S) /\ Len(all) = Len(wxy) + Len(z)
      /\ \A k \in 1..Len(wxy) : all[k] = wxy[k]
      /\ \A k \in 1..Len(z) : all[Len(wxy) + k] = z[k]
  BY <1>c, ConcatIs
<1> HIDE DEF all
<1>6. Len(wxy) = Len(w) + 1 + Len(y) /\ Len(all) = Len(w) + 1 + Len(y) + Len(z)
  BY <1>3, <1>4, <1>5
<1>7. all[Len(w) + 1] = c /\ \A k \in 1..Len(w) : all[k] = w[k]
  BY <1>2, <1>3, <1>4, <1>5, <1>6
<1>8. ASSUME NEW k \in 1..Len(y) PROVE all[Len(w) + 1 + k] = y[k]
  <2>1. wxy[Len(wx) + k] = y[k] /\ Len(wx) + k \in 1..Len(wxy)
    BY <1>3, <1>4, <1>6
  <2> QED
    BY <1>3, <1>5, <2>1
<1>9. \A k \in 1..Len(z) : all[Len(w) + 1 + Len(y) + k] = z[k]
  BY <1>5, <1>6
<1>10. all = w \o <<c>> \o y \o z
  BY DEF all, wxy, wx, x
<1>11. Joins(all, S, w, c, y, z)
  BY <1>5, <1>6, <1>7, <1>8, <1>9 DEF Joins
<1> QED
  BY <1>10, <1>11, Zenon

Text(u) == Joined(Elements(u))

LEMMA CharsAre ==
  /\ ":" \in Chars /\ ":" \in AddrChars /\ ":" \notin HostChars /\ ":" \notin Digit
  /\ ":" \in ServerChars /\ ":" \notin Chars \ {":"}
  /\ Digit \subseteq AddrChars /\ Digit \subseteq Chars /\ AddrChars \subseteq ServerChars
  /\ HostChars \subseteq Chars \ {":"} /\ HostChars \subseteq ServerChars /\ ServerChars \subseteq Chars
BY DEF Chars, AddrChars, HostChars, ServerChars, Digit, Lower, Upper, Mark, LetterDigit

\* A port in the URL: fetch() joins what open() took apart.
LEMMA TextWithPort ==
  ASSUME NEW u, Url(u), HostAndPort(Found(u))
  PROVE  Text(u) = u.rest
<1> DEFINE w == Elements(u).addr
           y == Elements(u).port
           z == Elements(u).urn
           a == Found(u)
           p == Colon(u)
<1>1. /\ w \in Seq(Chars) /\ Len(w) = p - 1 /\ \A k \in 1..p - 1 : w[k] = a[k]
      /\ y \in Seq(Chars) /\ Len(y) = Len(a) - p /\ \A k \in 1..Len(a) - p : y[k] = a[p + k]
  BY PiecesAre, ElementsAre, CharsAre, SeqMonotonic
<1>2. /\ z \in Seq(Chars) /\ Len(z) = Len(u.rest) - Len(a)
      /\ \A k \in 1..Len(z) : z[k] = u.rest[Len(a) + k]
  BY UrnIs
<1>3. p \in 1..Len(a) - 1 /\ a[p] = ":"
  BY ColonIs
<1>4. /\ u.rest \in Seq(Chars) /\ Len(a) \in 0..Len(u.rest)
      /\ \A k \in 1..Len(a) : a[k] = u.rest[k]
  BY FoundIs
<1>5. Text(u) = w \o <<":">> \o y \o z
  BY DEF Text, Joined
<1>a. w \in Seq(Chars) /\ y \in Seq(Chars) /\ z \in Seq(Chars) /\ ":" \in Chars
  BY <1>1, <1>2, CharsAre
<1> HIDE DEF w, y, z, a, p
<1> DEFINE t == w \o <<":">> \o y \o z
<1>6. /\ t \in Seq(Chars) /\ Len(t) = Len(w) + 1 + Len(y) + Len(z)
      /\ \A k \in 1..Len(w) : t[k] = w[k]
      /\ t[Len(w) + 1] = ":"
      /\ \A k \in 1..Len(y) : t[Len(w) + 1 + k] = y[k]
      /\ \A k \in 1..Len(z) : t[Len(w) + 1 + Len(y) + k] = z[k]
  <2>1. Joins(t, Chars, w, ":", y, z)
    BY <1>a, JoinedByOne, Zenon
  <2> HIDE DEF t
  <2> QED
    BY <2>1 DEF Joins
<1> HIDE DEF t
<1>7. Len(t) = Len(u.rest)
  BY <1>1, <1>2, <1>3, <1>4, <1>6
<1>8. ASSUME NEW k \in 1..Len(t) PROVE t[k] = u.rest[k]
  <2>1. CASE k < p
    BY <1>1, <1>3, <1>4, <1>6, <2>1
  <2>2. CASE k = p
    BY <1>1, <1>3, <1>4, <1>6, <2>2
  <2>3. CASE p < k /\ k =< Len(a)
    <3>1. k - p \in 1..Len(a) - p /\ k = Len(w) + 1 + (k - p)
      BY <1>1, <1>3, <1>4, <2>3
    <3>2. t[k] = y[k - p]
      BY <1>1, <1>6, <3>1
    <3>3. y[k - p] = a[k]
      BY <1>1, <1>3, <3>1
    <3> QED
      BY <1>4, <2>3, <3>2, <3>3
  <2>4. CASE Len(a) < k
    <3>1. k - Len(a) \in 1..Len(z) /\ k = Len(w) + 1 + Len(y) + (k - Len(a))
      BY <1>1, <1>2, <1>3, <1>4, <1>7, <2>4
    <3>2. t[k] = z[k - Len(a)]
      BY <1>6, <3>1
    <3> QED
      BY <1>2, <1>4, <3>1, <3>2
  <2> QED
    BY <1>3, <1>4, <2>1, <2>2, <2>3, <2>4
<1>9. t = u.rest
  BY <1>4, <1>6, <1>7, <1>8, SeqEqual
<1> QED
  BY <1>5, <1>9 DEF t

(***************************************************************************)
(* submit(): the server the second parser finds                            *)
(***************************************************************************)

LEMMA AuthorityIs ==
  ASSUME NEW u, Url(u)
  PROVE  /\ Authority(u) = Prefix(u.rest, ServerChars)
         /\ Authority(u) \in Seq(Chars) /\ Len(Authority(u)) \in Len(Found(u))..Len(u.rest)
         /\ Len(Authority(u)) = Run(u.rest, ServerChars)
         /\ \A k \in 1..Len(Authority(u)) : Authority(u)[k] = u.rest[k] /\ u.rest[k] \in ServerChars
         /\ Len(Authority(u)) < Len(u.rest) => u.rest[Len(Authority(u)) + 1] \notin ServerChars
         /\ Len(Found(u)) < Len(Authority(u)) => Authority(u)[Len(Found(u)) + 1] \notin AddrChars
<1> DEFINE r == Run(u.rest, ServerChars)
           n == Len(Found(u))
<1>1. u.rest \in Seq(Chars)
  BY FoundIs
<1>2. /\ r \in 0..Len(u.rest) /\ \A k \in 1..r : u.rest[k] \in ServerChars
      /\ r < Len(u.rest) => u.rest[r + 1] \notin ServerChars
  BY <1>1, RunExists
<1>3. Authority(u) = Prefix(u.rest, ServerChars)
  BY DEF Authority, ServerChars
<1>4. Authority(u) \in Seq(Chars) /\ Len(Authority(u)) = r /\ \A k \in 1..r : Authority(u)[k] = u.rest[k]
  BY <1>1, <1>3, PrefixRest
<1>5. /\ n \in 0..Len(u.rest) /\ \A k \in 1..n : u.rest[k] \in AddrChars
      /\ n < Len(u.rest) => u.rest[n + 1] \notin AddrChars
  BY FoundIs
<1> HIDE DEF r, n
<1>6. ~(r < n)
  BY <1>2, <1>5, CharsAre
<1>7. n < r => Authority(u)[n + 1] \notin AddrChars
  BY <1>2, <1>4, <1>5
<1>8. r \in n..Len(u.rest)
  BY <1>2, <1>5, <1>6
<1> QED
  BY <1>2, <1>3, <1>4, <1>7, <1>8 DEF r, n

\* What http_parse_host() has checked when there is no user name.
LEMMA HostPartIs ==
  ASSUME NEW s \in Seq(Chars), GoodServer(s), Places(s, "@") = {}
  PROVE  /\ HostPart(s) = s /\ HostOf(s) = Prefix(s, HostChars)
         /\ Run(s, HostChars) \in 0..Len(s)
         /\ \A k \in 1..Run(s, HostChars) : s[k] \in HostChars
         /\ Run(s, HostChars) < Len(s) =>
              /\ s[Run(s, HostChars) + 1] = ":"
              /\ \A k \in Run(s, HostChars) + 2..Len(s) : s[k] \in Digit
<1> DEFINE h == Run(s, HostChars)
<1>1. HostPart(s) = s
  BY DEF HostPart
<1>2. HostOf(s) = Prefix(s, HostChars) /\ Len(HostOf(s)) = h
  BY <1>1, PrefixRest DEF HostOf
<1>3. h \in 0..Len(s) /\ \A k \in 1..h : s[k] \in HostChars
  BY RunExists
<1>4. PortOf(s) = SubSeq(s, h + 2, Len(s))
  BY <1>1, <1>2 DEF PortOf
<1>5. h < Len(s) => s[h + 1] = ":" /\ \A k \in DOMAIN PortOf(s) : PortOf(s)[k] \in Digit
  BY <1>1, <1>2 DEF GoodServer, HasPort
<1> HIDE DEF h
<1>6. ASSUME h < Len(s), NEW k \in h + 2..Len(s) PROVE s[k] \in Digit
  <2>1. h + 2 \in 1..Len(s) + 1 /\ Len(s) \in (h + 2) - 1..Len(s)
    BY <1>3, <1>6
  <2>2. /\ SubSeq(s, h + 2, Len(s)) \in Seq(Chars)
        /\ Len(SubSeq(s, h + 2, Len(s))) = Len(s) - (h + 2) + 1
        /\ \A j \in 1..Len(s) - (h + 2) + 1 : SubSeq(s, h + 2, Len(s))[j] = s[(h + 2) + j - 1]
    BY <2>1, SubSeqIs
  <2>3. k - h - 1 \in 1..Len(s) - (h + 2) + 1
    BY <1>3, <1>6
  <2>4. k - h - 1 \in DOMAIN PortOf(s) /\ PortOf(s)[k - h - 1] = s[k]
    BY <1>3, <1>4, <2>2, <2>3
  <2> QED
    BY <1>5, <1>6, <2>4
<1> QED
  BY <1>1, <1>2, <1>3, <1>5, <1>6 DEF h

\* A port in the URL: both parsers find the same one, and nothing follows it.
LEMMA SamePort ==
  ASSUME NEW u, Url(u), HostAndPort(Found(u)),
         GoodServer(Authority(u)), Places(Authority(u), "@") = {}
  PROVE  /\ Run(Authority(u), HostChars) = Colon(u) - 1
         /\ Len(Authority(u)) = Len(Found(u))
<1> DEFINE s == Authority(u)
           h == Run(s, HostChars)
           p == Colon(u)
           n == Len(Found(u))
<1>1. /\ s \in Seq(Chars) /\ Len(s) \in n..Len(u.rest) /\ n \in 0..Len(u.rest)
      /\ \A k \in 1..Len(s) : s[k] = u.rest[k]
      /\ n < Len(s) => s[n + 1] \notin AddrChars
  BY AuthorityIs, FoundIs
<1>2. p \in 1..n - 1 /\ Found(u)[p] = ":" /\ \A k \in 1..n : Found(u)[k] = u.rest[k]
  BY ColonIs, FoundIs
<1>3. /\ h \in 0..Len(s) /\ \A k \in 1..h : s[k] \in HostChars
      /\ h < Len(s) => s[h + 1] = ":" /\ \A k \in h + 2..Len(s) : s[k] \in Digit
  BY <1>1, HostPartIs
<1> HIDE DEF s, h, p, n
<1>4. s[p] = ":" /\ p \in 1..Len(s)
  BY <1>1, <1>2
<1>5. ~(p =< h)
  BY <1>3, <1>4, CharsAre
<1>6. ~(h + 2 =< p)
  BY <1>1, <1>3, <1>4, CharsAre
<1>7. h = p - 1
  BY <1>1, <1>2, <1>3, <1>5, <1>6
<1>8. ~(n < Len(s))
  <2> SUFFICES ASSUME n < Len(s) PROVE FALSE
    OBVIOUS
  <2>1. n + 1 \in h + 2..Len(s) /\ h < Len(s)
    BY <1>1, <1>2, <1>7
  <2> QED
    BY <1>1, <1>3, <2>1, CharsAre
<1>9. Len(s) = n
  BY <1>1, <1>8
<1> QED
  BY <1>7, <1>9 DEF s, h, p, n

\* So what is stored, what is sent and what the URL means are the same.
LEMMA AgreedWithPort ==
  ASSUME NEW u, Url(u), HostAndPort(Found(u)),
         GoodServer(Authority(u)), Places(Authority(u), "@") = {}
  PROVE  /\ Elements(u).addr = UrlHost(u) /\ Elements(u).port = UrlPort(u)
         /\ HostOf(Authority(u)) = UrlHost(u) /\ PortOf(Authority(u)) = UrlPort(u)
<1> DEFINE s == Authority(u)
           p == Colon(u)
<1>1. s \in Seq(Chars) /\ Len(s) = Len(Found(u)) /\ \A k \in 1..Len(s) : s[k] = u.rest[k]
  BY AuthorityIs, SamePort
<1>2. s = Found(u)
  <2>1. Found(u) \in Seq(Chars) /\ \A k \in 1..Len(Found(u)) : Found(u)[k] = u.rest[k]
    BY FoundIs
  <2>2. \A k \in 1..Len(s) : s[k] = Found(u)[k]
    BY <1>1, <2>1
  <2> HIDE DEF s
  <2> QED
    BY <1>1, <2>1, <2>2, SeqEqual
<1>3. p \in 1..Len(s) - 1 /\ s[p] = ":"
  BY <1>2, ColonIs
<1>4. Run(s, HostChars) = p - 1 /\ HostPart(s) = s /\ HostOf(s) = Prefix(s, HostChars)
  BY <1>1, SamePort, HostPartIs
<1>5. \A k \in 1..p - 1 : s[k] \in HostChars
  BY <1>1, <1>4, HostPartIs
<1>6. Run(s, Chars \ {":"}) = p - 1
  <2> DEFINE C == Chars \ {":"}
  <2>1. \A k \in 1..p - 1 : s[k] \in C
    BY <1>5, CharsAre
  <2>2. s[(p - 1) + 1] \notin C /\ p - 1 \in 0..Len(s)
    BY <1>1, <1>3
  <2> HIDE DEF s, p, C
  <2>3. Run(s, C) = p - 1
    BY <1>1, <2>1, <2>2, RunIs
  <2> QED
    BY <2>3 DEF C
<1>7. UrlHost(u) = SubSeq(s, 1, p - 1) /\ HostOf(s) = SubSeq(s, 1, p - 1)
  BY <1>4, <1>6 DEF UrlHost, Prefix
<1>8. Len(SubSeq(s, 1, p - 1)) = p - 1
  BY <1>2, PiecesAre DEF BeforeColon
<1>9. UrlPort(u) = SubSeq(s, p + 1, Len(s)) /\ PortOf(s) = SubSeq(s, p + 1, Len(s))
  <2>1. UrlHost(u) # s
    BY <1>1, <1>3, <1>7, <1>8
  <2>2. (p - 1) + 2 = p + 1
    BY <1>1, <1>3
  <2> QED
    BY <1>4, <1>7, <1>8, <2>1, <2>2 DEF UrlPort, PortOf
<1>10. Elements(u).addr = SubSeq(s, 1, p - 1) /\ Elements(u).port = SubSeq(s, p + 1, Len(s))
  BY <1>2, ElementsAre DEF BeforeColon, AfterColon
<1> QED
  BY <1>7, <1>9, <1>10

\* No port in the URL: fetch() puts ":" and the default one after the address.
LEMMA TextWithout ==
  ASSUME NEW u, Url(u), ~HostAndPort(Found(u))
  PROVE  /\ Text(u) \in Seq(Chars) /\ Len(Text(u)) = Len(u.rest) + Added(u)
         /\ Added(u) \in Nat /\ 2 =< Added(u)
         /\ \A k \in 1..Len(Found(u)) : Text(u)[k] = u.rest[k]
         /\ Text(u)[Len(Found(u)) + 1] = ":"
         /\ \A k \in 1..Added(u) - 1 : Text(u)[Len(Found(u)) + 1 + k] = DefaultPort(u.proto)[k]
         /\ \A k \in Len(Found(u)) + 2..Len(Found(u)) + Added(u) : Text(u)[k] \in Digit
         /\ \A k \in Len(Found(u)) + 1..Len(u.rest) : Text(u)[k + Added(u)] = u.rest[k]
<1> DEFINE w == Elements(u).addr
           y == Elements(u).port
           z == Elements(u).urn
           d == DefaultPort(u.proto)
           n == Len(Found(u))
           m == Len(d)
<1>1. /\ w \in Seq(Chars) /\ Len(w) = n /\ \A k \in 1..n : w[k] = u.rest[k]
      /\ n \in 0..Len(u.rest) /\ u.rest \in Seq(Chars)
  BY ElementsAre, FoundIs
<1>2. y = d /\ d \in Seq(Chars) /\ d \in Seq(Digit) /\ m \in Nat \ {0}
  BY ElementsAre, DefaultPortIs, CharsAre, SeqMonotonic
<1>3. /\ z \in Seq(Chars) /\ Len(z) = Len(u.rest) - n
      /\ \A k \in 1..Len(z) : z[k] = u.rest[n + k]
  BY UrnIs
<1>4. Text(u) = w \o <<":">> \o y \o z /\ Added(u) = m + 1
  BY DEF Text, Joined, Added
<1>5. w \in Seq(Chars) /\ y \in Seq(Chars) /\ z \in Seq(Chars) /\ ":" \in Chars
  BY <1>1, <1>2, <1>3, CharsAre
<1>a. \A k \in 1..m : d[k] \in Digit
  BY <1>2
<1>b. Len(u.rest) \in Nat /\ n \in 0..Len(u.rest) /\ Len(y) = m
  BY <1>1, <1>2
<1> HIDE DEF w, y, z, n, d, m
<1> DEFINE t == w \o <<":">> \o y \o z
<1>6. /\ t \in Seq(Chars) /\ Len(t) = Len(w) + 1 + Len(y) + Len(z)
      /\ \A k \in 1..Len(w) : t[k] = w[k]
      /\ t[Len(w) + 1] = ":"
      /\ \A k \in 1..Len(y) : t[Len(w) + 1 + k] = y[k]
      /\ \A k \in 1..Len(z) : t[Len(w) + 1 + Len(y) + k] = z[k]
  <2>1. Joins(t, Chars, w, ":", y, z)
    BY <1>5, JoinedByOne, Zenon
  <2> HIDE DEF t
  <2> QED
    BY <2>1 DEF Joins
<1> HIDE DEF t
<1>7. Len(t) = Len(u.rest) + (m + 1)
  <2>1. Len(t) = n + 1 + m + (Len(u.rest) - n)
    BY <1>1, <1>3, <1>6, <1>b, Zenon
  <2>2. \A i, j, k \in Nat : i + 1 + k + (j - i) = j + (k + 1)
    OBVIOUS
  <2>3. n \in Nat /\ m \in Nat
    BY <1>2, <1>b
  <2>4. n + 1 + m + (Len(u.rest) - n) = Len(u.rest) + (m + 1)
    BY <1>b, <2>2, <2>3, Zenon
  <2> QED
    BY <2>1, <2>4, Zenon
<1>8. \A k \in 1..n : t[k] = u.rest[k]
  BY <1>1, <1>6
<1>9. t[n + 1] = ":" /\ \A k \in 1..m : t[n + 1 + k] = d[k]
  BY <1>1, <1>2, <1>6, <1>b
<1>10. ASSUME NEW k \in n + 2..n + (m + 1) PROVE t[k] \in Digit
  <2>1. k - n - 1 \in 1..m /\ n + 1 + (k - n - 1) = k
    BY <1>2, <1>b
  <2> QED
    BY <1>9, <1>a, <2>1
<1>11. ASSUME NEW k \in n + 1..Len(u.rest) PROVE t[k + (m + 1)] = u.rest[k]
  <2>1. k - n \in 1..Len(z) /\ n + (k - n) = k
    BY <1>3, <1>b
  <2>2. Len(w) + 1 + Len(y) + (k - n) = k + (m + 1)
    BY <1>1, <1>2, <1>b
  <2>3. t[Len(w) + 1 + Len(y) + (k - n)] = z[k - n] /\ z[k - n] = u.rest[n + (k - n)]
    BY <1>3, <1>6, <2>1
  <2> QED
    BY <2>1, <2>2, <2>3
<1>12. (m + 1) - 1 = m /\ m + 1 \in Nat /\ 2 =< m + 1
  BY <1>2
<1> QED
  BY <1>4, <1>6, <1>7, <1>8, <1>9, <1>10, <1>11, <1>12 DEF t, n, d

\* The second parser's server is then the authority and what fetch() added.
ServerText(u) == Prefix(Text(u), ServerChars)

LEMMA ServerWithout ==
  ASSUME NEW u, Url(u), ~HostAndPort(Found(u))
  PROVE  /\ Run(Text(u), ServerChars) = Len(Authority(u)) + Added(u)
         /\ ServerText(u) \in Seq(Chars) /\ Len(ServerText(u)) = Len(Authority(u)) + Added(u)
         /\ \A k \in 1..Len(ServerText(u)) : ServerText(u)[k] = Text(u)[k]
<1> DEFINE t == Text(u)
           n == Len(Found(u))
           r == Len(Authority(u))
           x == Added(u)
<1>1. /\ t \in Seq(Chars) /\ Len(t) = Len(u.rest) + x /\ x \in Nat /\ 2 =< x
      /\ \A k \in 1..n : t[k] = u.rest[k]
      /\ t[n + 1] = ":" /\ \A k \in n + 2..n + x : t[k] \in Digit
      /\ \A k \in n + 1..Len(u.rest) : t[k + x] = u.rest[k]
  BY TextWithout
<1>2. /\ r \in n..Len(u.rest) /\ n \in Nat /\ Len(u.rest) \in Nat
      /\ \A k \in 1..r : u.rest[k] \in ServerChars
      /\ r < Len(u.rest) => u.rest[r + 1] \notin ServerChars
  BY AuthorityIs, FoundIs
<1>3. Digit \subseteq ServerChars /\ ":" \in ServerChars
  BY CharsAre
<1> HIDE DEF t, n, r, x
<1>4. ASSUME NEW k \in 1..r + x PROVE t[k] \in ServerChars
  <2>1. CASE k =< n
    BY <1>1, <1>2, <2>1
  <2>2. CASE k = n + 1 \/ k \in n + 2..n + x
    BY <1>1, <1>3, <2>2
  <2>3. CASE n + x < k
    <3>1. k - x \in n + 1..Len(u.rest) /\ k - x \in 1..r /\ (k - x) + x = k
      BY <1>1, <1>2, <2>3
    <3>2. t[(k - x) + x] = u.rest[k - x]
      BY <1>1, <3>1
    <3> QED
      BY <1>2, <3>1, <3>2
  <2>4. k =< n \/ k = n + 1 \/ k \in n + 2..n + x \/ n + x < k
    BY <1>1, <1>2
  <2> QED
    BY <2>1, <2>2, <2>3, <2>4
<1>5. ASSUME r + x < Len(t) PROVE t[(r + x) + 1] \notin ServerChars
  <2>0. r < Len(u.rest)
    BY <1>1, <1>2, <1>5
  <2>1. r + 1 \in n + 1..Len(u.rest) /\ (r + x) + 1 = (r + 1) + x
    BY <1>1, <1>2, <2>0
  <2>2. t[(r + 1) + x] = u.rest[r + 1]
    BY <1>1, <2>1
  <2> QED
    BY <1>2, <2>0, <2>1, <2>2
<1>6. Run(t, ServerChars) = r + x
  <2>1. r + x \in 0..Len(t)
    BY <1>1, <1>2
  <2> QED
    BY <1>1, <1>4, <1>5, <2>1, RunIs
<1>7. /\ Prefix(t, ServerChars) \in Seq(Chars) /\ Len(Prefix(t, ServerChars)) = r + x
      /\ \A k \in 1..r + x : Prefix(t, ServerChars)[k] = t[k]
  BY <1>1, <1>6, PrefixRest
<1> QED
  BY <1>6, <1>7 DEF ServerText, t, r, x

\* No "@" in the authority, no "@" in the server.
LEMMA NoUserWithout ==
  ASSUME NEW u, Url(u), ~HostAndPort(Found(u)), Places(Authority(u), "@") = {}
  PROVE  Places(ServerText(u), "@") = {}
<1> DEFINE n == Len(Found(u))
           r == Len(Authority(u))
           x == Added(u)
           t == Text(u)
<1>1. /\ r \in n..Len(u.rest) /\ n \in Nat /\ Len(u.rest) \in Nat /\ Authority(u) \in Seq(Chars)
      /\ \A k \in 1..r : Authority(u)[k] = u.rest[k]
  BY AuthorityIs, FoundIs
<1>2. \A k \in 1..r : u.rest[k] # "@"
  BY <1>1 DEF Places
<1>3. "@" \notin Digit /\ ":" # "@"
  BY DEF Digit
<1>4. /\ ServerText(u) \in Seq(Chars) /\ Len(ServerText(u)) = r + x
      /\ \A k \in 1..r + x : ServerText(u)[k] = t[k]
  BY ServerWithout
<1>a. /\ x \in Nat /\ 2 =< x
      /\ \A k \in 1..n : t[k] = u.rest[k]
      /\ t[n + 1] = ":" /\ \A k \in n + 2..n + x : t[k] \in Digit
      /\ \A k \in n + 1..Len(u.rest) : t[k + x] = u.rest[k]
  BY TextWithout
<1> HIDE DEF n, r, x, t
<1>5. ASSUME NEW k \in 1..r + x PROVE t[k] # "@"
  <2>1. CASE k =< n
    BY <1>1, <1>2, <1>a, <2>1
  <2>2. CASE k = n + 1 \/ k \in n + 2..n + x
    BY <1>3, <1>a, <2>2
  <2>3. CASE n + x < k
    <3>1. k - x \in n + 1..Len(u.rest) /\ k - x \in 1..r /\ (k - x) + x = k
      BY <1>1, <1>a, <2>3
    <3>2. t[(k - x) + x] = u.rest[k - x]
      BY <1>a, <3>1
    <3> QED
      BY <1>2, <3>1, <3>2
  <2>4. k =< n \/ k = n + 1 \/ k \in n + 2..n + x \/ n + x < k
    BY <1>1, <1>a
  <2> QED
    BY <2>1, <2>2, <2>3, <2>4
<1> QED
  BY <1>4, <1>5 DEF Places

\* The address is then a host name, with nothing after it.
LEMMA SameHost ==
  ASSUME NEW u, Url(u), ~HostAndPort(Found(u)),
         GoodServer(ServerText(u)), Places(Authority(u), "@") = {}
  PROVE  /\ Run(ServerText(u), HostChars) = Len(Found(u))
         /\ Len(Authority(u)) = Len(Found(u))
         /\ \A k \in 1..Len(Found(u)) : Found(u)[k] \in HostChars
<1> DEFINE s == ServerText(u)
           h == Run(s, HostChars)
           n == Len(Found(u))
           r == Len(Authority(u))
           x == Added(u)
<1>1. /\ s \in Seq(Chars) /\ Len(s) = r + x /\ r \in n..Len(u.rest)
      /\ n \in Nat /\ Len(u.rest) \in Nat /\ x \in Nat /\ 2 =< x
      /\ \A k \in 1..r + x : s[k] = Text(u)[k]
  BY ServerWithout, AuthorityIs, FoundIs, TextWithout
<1>2. s[n + 1] = ":" /\ \A k \in 1..n : s[k] = Found(u)[k]
  <2>1. Text(u)[n + 1] = ":" /\ \A k \in 1..n : Text(u)[k] = u.rest[k] /\ Found(u)[k] = u.rest[k]
    BY TextWithout, FoundIs
  <2> HIDE DEF s, n, r, x
  <2> QED
    BY <1>1, <2>1
<1>3. /\ h \in 0..Len(s) /\ \A k \in 1..h : s[k] \in HostChars
      /\ h < Len(s) => s[h + 1] = ":" /\ \A k \in h + 2..Len(s) : s[k] \in Digit
  BY <1>1, NoUserWithout, HostPartIs
<1>4. ASSUME n < r PROVE s[n + 1 + x] \notin AddrChars
  <2>1. u.rest[n + 1] \notin AddrChars
    BY <1>1, <1>4, FoundIs
  <2>2. n + 1 \in n + 1..Len(u.rest) /\ (n + 1) + x = n + 1 + x /\ n + 1 + x \in 1..r + x
    BY <1>1, <1>4
  <2>3. Text(u)[(n + 1) + x] = u.rest[n + 1]
    BY <2>2, TextWithout
  <2> QED
    BY <1>1, <2>1, <2>2, <2>3
<1> HIDE DEF s, h, n, r, x
<1>5. ~(n + 1 =< h)
  BY <1>1, <1>2, <1>3, CharsAre
<1>6. ~(h + 2 =< n + 1)
  BY <1>1, <1>2, <1>3, CharsAre
<1>7. h = n
  BY <1>1, <1>3, <1>5, <1>6
<1>8. ~(n < r)
  <2> SUFFICES ASSUME n < r PROVE FALSE
    OBVIOUS
  <2>1. n + 1 + x \in h + 2..Len(s) /\ h < Len(s)
    BY <1>1, <1>7
  <2> QED
    BY <1>3, <1>4, <2>1, CharsAre
<1>9. r = n /\ \A k \in 1..n : Found(u)[k] \in HostChars
  BY <1>1, <1>2, <1>3, <1>7, <1>8
<1> QED
  BY <1>7, <1>9 DEF s, h, n, r

LEMMA AgreedWithout ==
  ASSUME NEW u, Url(u), ~HostAndPort(Found(u)),
         GoodServer(ServerText(u)), Places(Authority(u), "@") = {}
  PROVE  /\ Elements(u).addr = UrlHost(u) /\ Elements(u).port = UrlPort(u)
         /\ HostOf(ServerText(u)) = UrlHost(u) /\ PortOf(ServerText(u)) = UrlPort(u)
<1> DEFINE a == Found(u)
           s == ServerText(u)
           n == Len(a)
           d == DefaultPort(u.proto)
           m == Len(d)
<1>1. Authority(u) = a
  <2>1. Authority(u) \in Seq(Chars) /\ Len(Authority(u)) = n /\ a \in Seq(Chars)
    BY AuthorityIs, FoundIs, SameHost
  <2>2. \A k \in 1..n : Authority(u)[k] = a[k]
    BY <2>1, AuthorityIs, FoundIs
  <2> QED
    BY <2>1, <2>2, SeqEqual
<1>2. UrlHost(u) = a
  <2> DEFINE C == Chars \ {":"}
  <2>1. a \in Seq(Chars) /\ n \in 0..n /\ \A k \in 1..n : a[k] \in C
    BY FoundIs, SameHost, CharsAre
  <2> HIDE DEF C
  <2>2. Run(a, C) = n
    BY <2>1, RunIs
  <2>3. SubSeq(a, 1, n) = a
    BY <2>1, SubSeqFull
  <2> QED
    BY <1>1, <2>2, <2>3 DEF UrlHost, Prefix, C
<1>3. UrlPort(u) = d
  BY <1>1, <1>2 DEF UrlPort, DefaultPort
<1>4. /\ s \in Seq(Chars) /\ Len(s) = n + (m + 1) /\ n \in Nat /\ a \in Seq(Chars) /\ m \in Nat
      /\ \A k \in 1..n : s[k] = a[k]
      /\ \A k \in 1..m : s[n + 1 + k] = d[k]
  <2>1. /\ s \in Seq(Chars) /\ Len(s) = n + (m + 1) /\ n \in Nat /\ a \in Seq(Chars) /\ m \in Nat
        /\ \A k \in 1..n + (m + 1) : s[k] = Text(u)[k]
    BY <1>1, ServerWithout, FoundIs, DefaultPortIs DEF Added
  <2>2. \A k \in 1..n : Text(u)[k] = u.rest[k] /\ a[k] = u.rest[k]
    BY TextWithout, FoundIs
  <2>3. \A k \in 1..(m + 1) - 1 : Text(u)[n + 1 + k] = d[k]
    BY TextWithout DEF Added
  <2> HIDE DEF s, n, a, d, m
  <2> QED
    BY <2>1, <2>2, <2>3
<1>5. Run(s, HostChars) = n /\ HostPart(s) = s /\ HostOf(s) = Prefix(s, HostChars)
  BY <1>4, SameHost, NoUserWithout, HostPartIs
<1>6. HostOf(s) = a
  <2>1. /\ Prefix(s, HostChars) \in Seq(Chars) /\ Len(Prefix(s, HostChars)) = n
        /\ \A k \in 1..n : Prefix(s, HostChars)[k] = s[k]
    BY <1>4, <1>5, PrefixRest
  <2>2. \A k \in 1..n : Prefix(s, HostChars)[k] = a[k]
    BY <1>4, <2>1
  <2> HIDE DEF s, a
  <2>3. Prefix(s, HostChars) = a
    BY <1>4, <2>1, <2>2, SeqEqual
  <2> QED
    BY <1>5, <2>3
<1>7. PortOf(s) = d
  <2>1. PortOf(s) = SubSeq(s, n + 2, n + (m + 1))
    BY <1>4, <1>5, <1>6 DEF PortOf
  <2>4. d \in Seq(Chars) /\ Len(d) = m
    BY DefaultPortIs, CharsAre, SeqMonotonic
  <2> HIDE DEF s, d, n, m
  <2>2. n + 2 \in 1..Len(s) + 1 /\ n + (m + 1) \in (n + 2) - 1..Len(s)
    BY <1>4
  <2> DEFINE q == SubSeq(s, n + 2, n + (m + 1))
  <2>3. /\ q \in Seq(Chars) /\ Len(q) = (n + (m + 1)) - (n + 2) + 1
        /\ \A k \in 1..(n + (m + 1)) - (n + 2) + 1 : q[k] = s[(n + 2) + k - 1]
    BY <1>4, <2>2, SubSeqIs
  <2> HIDE DEF q
  <2>5. Len(q) = m /\ \A k \in 1..m : q[k] = d[k]
    <3>1. (n + (m + 1)) - (n + 2) + 1 = m
      BY <1>4
    <3>2. ASSUME NEW k \in 1..m PROVE q[k] = d[k]
      <4>1. (n + 2) + k - 1 = n + 1 + k
        BY <1>4
      <4> QED
        BY <1>4, <2>3, <3>1, <4>1
    <3> QED
      BY <2>3, <3>1, <3>2
  <2>6. q = d
    BY <2>3, <2>4, <2>5, SeqEqual
  <2> QED
    BY <2>1, <2>6 DEF q
<1>8. Elements(u).addr = a /\ Elements(u).port = d
  BY ElementsAre
<1> QED
  BY <1>2, <1>3, <1>6, <1>7, <1>8

(***************************************************************************)
(* submit(): the path                                                      *)
(***************************************************************************)

\* What Target() makes of what follows the authority.
TargetOf(after) ==
    LET t == Prefix(after, Chars \ {"#"})
        q == IF t # <<>> /\ Run(t, Chars \ {"?"}) = Len(t) - 1
             THEN Prefix(t, Chars \ {"?"}) ELSE t
    IN  IF q = <<>> \/ q[1] # "/" THEN <<"/">> \o q ELSE q

\* What FullPath() is where the fields are long enough.
FullRun(after) ==
    (IF PathRun(after) = <<>> THEN <<"/">> ELSE PathRun(after))
        \o (IF QueryRun(after) = <<>> THEN <<>> ELSE <<"?">> \o QueryRun(after))

\* The path is what stands before the first "?" or "#", the query what stands
\* between the first "?" and the first "#" after it.
Stop == {"?", "#"}
LEMMA PathIs ==
  ASSUME NEW after \in Seq(Chars), after = <<>> \/ after[1] \in {"/", "?"}
  PROVE  /\ PathRun(after) = SubSeq(after, 1, Run(after, Chars \ Stop))
         /\ PathRun(after) \in Seq(Chars) /\ Len(PathRun(after)) = Run(after, Chars \ Stop)
         /\ \A k \in 1..Run(after, Chars \ Stop) : PathRun(after)[k] = after[k]
<1> DEFINE C == Chars \ Stop
           m == Run(after, C)
<1>1. /\ m \in 0..Len(after)
      /\ \A k \in 1..m : after[k] \in C
      /\ m < Len(after) => after[m + 1] \notin C
  BY RunExists
<1>2. /\ Prefix(after, C) = SubSeq(after, 1, m)
      /\ Prefix(after, C) \in Seq(Chars) /\ Len(Prefix(after, C)) = m
      /\ \A k \in 1..m : Prefix(after, C)[k] = after[k]
  BY PrefixRest DEF Prefix
<1>3. CASE after # <<>> /\ after[1] = "/"
  BY <1>2, <1>3 DEF PathRun, Stop
<1>4. CASE after = <<>> \/ after[1] = "?"
  <2>1. PathRun(after) = <<>>
    BY <1>4 DEF PathRun
  <2>2. "?" \notin C
    BY DEF Stop
  <2>3. m = 0
    <3> HIDE DEF C, m
    <3>1. CASE after = <<>>
      BY <1>1, <3>1
    <3>2. CASE after # <<>> /\ after[1] = "?"
      <4>1. ~(1 =< m)
        BY <1>1, <2>2, <3>2
      <4> QED
        BY <1>1, <4>1
    <3> QED
      BY <1>4, <3>1, <3>2
  <2>4. Prefix(after, C) = <<>>
    <3> HIDE DEF C, m
    <3> QED
      BY <1>2, <2>3, EmptySeq
  <2> HIDE DEF C, m
  <2>5. SubSeq(after, 1, m) = <<>> /\ \A k \in 1..m : FALSE
    BY <1>2, <2>3, <2>4
  <2> QED
    BY <1>2, <2>1, <2>3, <2>4, <2>5 DEF C, m
<1> QED
  BY <1>3, <1>4

LEMMA QueryIs ==
  ASSUME NEW after \in Seq(Chars), after = <<>> \/ after[1] \in {"/", "?"}
  PROVE  LET m == Len(PathRun(after))
             x == Len(QueryRun(after))
         IN  /\ m \in 0..Len(after) /\ \A k \in 1..m : after[k] \in Chars \ Stop
             /\ m < Len(after) => after[m + 1] \in Stop
             /\ m = Len(after) \/ after[m + 1] = "#" => QueryRun(after) = <<>>
             /\ m < Len(after) /\ after[m + 1] = "?" =>
                  /\ QueryRun(after) \in Seq(Chars) /\ m + 1 + x \in 0..Len(after)
                  /\ \A k \in 1..x : QueryRun(after)[k] = after[m + 1 + k]
                  /\ \A k \in 1..x : after[m + 1 + k] \in Chars \ {"#"}
                  /\ m + 1 + x < Len(after) => after[m + 1 + x + 1] \notin Chars \ {"#"}
<1> DEFINE m == Len(PathRun(after))
           q == SubSeq(after, m + 1, Len(after))
           C == Chars \ {"#"}
<1>1. /\ m \in 0..Len(after) /\ \A k \in 1..m : after[k] \in Chars \ Stop
      /\ m < Len(after) => after[m + 1] \notin Chars \ Stop
  BY PathIs, RunExists
<1>2. m < Len(after) => after[m + 1] \in Stop
  <2> HIDE DEF m
  <2> QED
    BY <1>1
<1>3. q \in Seq(Chars) /\ Len(q) = Len(after) - m /\ \A k \in 1..Len(after) - m : q[k] = after[m + k]
  <2> HIDE DEF m
  <2>1. m + 1 \in 1..Len(after) + 1 /\ Len(after) \in (m + 1) - 1..Len(after)
    BY <1>1
  <2>2. /\ q \in Seq(Chars) /\ Len(q) = Len(after) - (m + 1) + 1
        /\ \A k \in 1..Len(after) - (m + 1) + 1 : q[k] = after[(m + 1) + k - 1]
    BY <2>1, SubSeqIs
  <2> HIDE DEF q
  <2> QED
    BY <1>1, <2>2
<1>4. QueryRun(after) = IF q = <<>> \/ q[1] # "?" THEN <<>> ELSE Prefix(Tail(q), C)
  BY DEF QueryRun
<1>5. ASSUME m = Len(after) \/ after[m + 1] = "#" PROVE QueryRun(after) = <<>>
  <2>1. q = <<>> \/ q[1] # "?"
    <3> HIDE DEF m, q
    <3> QED
      BY <1>1, <1>3, <1>5
  <2> QED
    BY <1>4, <2>1
<1>6. ASSUME m < Len(after), after[m + 1] = "?"
      PROVE  LET x == Len(QueryRun(after))
             IN  /\ QueryRun(after) \in Seq(Chars) /\ m + 1 + x \in 0..Len(after)
                 /\ \A k \in 1..x : QueryRun(after)[k] = after[m + 1 + k]
                 /\ \A k \in 1..x : after[m + 1 + k] \in C
                 /\ m + 1 + x < Len(after) => after[m + 1 + x + 1] \notin C
  <2> DEFINE tl == Tail(q)
             x == Run(tl, C)
  <2>1. q # <<>> /\ q[1] = "?"
    <3> HIDE DEF m, q
    <3> QED
      BY <1>1, <1>3, <1>6
  <2>2. QueryRun(after) = Prefix(tl, C)
    BY <1>4, <2>1
  <2>3. /\ tl \in Seq(Chars) /\ Len(tl) = Len(q) - 1
        /\ \A k \in 1..Len(q) - 1 : tl[k] = q[k + 1]
    <3> HIDE DEF q
    <3> QED
      BY <1>3, <2>1
  <2> HIDE DEF q, tl
  <2>4. /\ x \in 0..Len(tl) /\ \A k \in 1..x : tl[k] \in C
        /\ x < Len(tl) => tl[x + 1] \notin C
    BY <2>3, RunExists
  <2>5. /\ QueryRun(after) \in Seq(Chars) /\ Len(QueryRun(after)) = x
        /\ \A k \in 1..x : QueryRun(after)[k] = tl[k]
    BY <2>2, <2>3, PrefixRest
  <2> HIDE DEF m, x, C
  <2>6. ASSUME NEW k \in 1..Len(q) - 1 PROVE tl[k] = after[m + 1 + k]
    <3>1. k + 1 \in 1..Len(after) - m /\ m + (k + 1) = m + 1 + k
      BY <1>1, <1>3
    <3>2. q[k + 1] = after[m + (k + 1)]
      BY <1>3, <3>1
    <3> QED
      BY <2>3, <3>1, <3>2
  <2>7. m + 1 + x \in 0..Len(after)
    BY <1>1, <1>3, <1>6, <2>3, <2>4
  <2>8. ASSUME NEW k \in 1..x PROVE QueryRun(after)[k] = after[m + 1 + k] /\ after[m + 1 + k] \in C
    <3>1. k \in 1..Len(q) - 1
      BY <1>3, <2>3, <2>4
    <3>2. tl[k] = after[m + 1 + k]
      BY <2>6, <3>1
    <3> QED
      BY <2>4, <2>5, <3>2
  <2>9. ASSUME m + 1 + x < Len(after) PROVE after[m + 1 + x + 1] \notin C
    <3>1. x + 1 \in 1..Len(q) - 1 /\ x < Len(tl) /\ m + 1 + (x + 1) = m + 1 + x + 1
      BY <1>1, <1>3, <2>3, <2>4, <2>9
    <3>2. tl[x + 1] = after[m + 1 + (x + 1)]
      BY <2>6, <3>1
    <3> QED
      BY <2>4, <3>1, <3>2
  <2>10. m + 1 + x < Len(after) => after[m + 1 + x + 1] \notin C
    BY <2>9
  <2> QED
    BY <2>5, <2>7, <2>8, <2>10
<1>7. /\ m = Len(after) \/ after[m + 1] = "#" => QueryRun(after) = <<>>
      /\ m < Len(after) /\ after[m + 1] = "?" =>
           LET x == Len(QueryRun(after))
           IN  /\ QueryRun(after) \in Seq(Chars) /\ m + 1 + x \in 0..Len(after)
               /\ \A k \in 1..x : QueryRun(after)[k] = after[m + 1 + k]
               /\ \A k \in 1..x : after[m + 1 + k] \in C
               /\ m + 1 + x < Len(after) => after[m + 1 + x + 1] \notin C
  BY <1>5, <1>6
<1> QED
  BY <1>1, <1>2, <1>7

\* The path submit() asks for is the one the URL names.
LEMMA SamePath ==
  ASSUME NEW after \in Seq(Chars), after = <<>> \/ after[1] \in {"/", "?"}
  PROVE  FullRun(after) = TargetOf(after)
<1> DEFINE path == PathRun(after)
           query == QueryRun(after)
           m == Len(path)
           x == Len(query)
           t == Prefix(after, Chars \ {"#"})
           r == Run(t, Chars \ {"?"})
           C == Chars \ {"#"}
<1>1. /\ path \in Seq(Chars) /\ m \in 0..Len(after)
      /\ \A k \in 1..m : path[k] = after[k] /\ after[k] \in Chars \ Stop
      /\ m < Len(after) => after[m + 1] \in Stop
  BY PathIs, QueryIs
<1>2. FullRun(after) = (IF path = <<>> THEN <<"/">> ELSE path)
                            \o (IF query = <<>> THEN <<>> ELSE <<"?">> \o query)
  BY DEF FullRun
<1>3. /\ t \in Seq(Chars) /\ Len(t) = Run(after, C)
      /\ \A k \in 1..Run(after, C) : t[k] = after[k]
  BY PrefixRest
<1>4. TargetOf(after) =
        LET q == IF t # <<>> /\ r = Len(t) - 1 THEN Prefix(t, Chars \ {"?"}) ELSE t
        IN  IF q = <<>> \/ q[1] # "/" THEN <<"/">> \o q ELSE q
  BY DEF TargetOf
<1>5. m > 0 => path # <<>> /\ path[1] = "/"
  <2> HIDE DEF path
  <2>1. m > 0 => path[1] = after[1] /\ after[1] \in Chars \ Stop /\ after # <<>>
    BY <1>1
  <2> QED
    BY <1>1, <2>1 DEF Stop
<1>6. m = 0 => path = <<>>
  <2> HIDE DEF path
  <2> QED
    BY <1>1, EmptySeq
<1>7. CASE m = Len(after) \/ after[m + 1] = "#"
  <2>1. query = <<>>
    BY <1>7, QueryIs
  <2>2. Run(after, C) = m
    <3>1. \A k \in 1..m : after[k] \in C
      BY <1>1 DEF Stop
    <3>2. m < Len(after) => after[m + 1] \notin C
      <4> HIDE DEF path
      <4> QED
        BY <1>1, <1>7
    <3> HIDE DEF path, C
    <3> QED
      BY <1>1, <3>1, <3>2, RunIs
  <2>3. t = path
    <3>1. Len(t) = Len(path) /\ \A k \in 1..m : t[k] = after[k]
      <4> HIDE DEF path, t, C
      <4> QED
        BY <1>3, <2>2
    <3> HIDE DEF path, t, C
    <3>2. \A k \in 1..Len(t) : t[k] = path[k]
      BY <1>1, <3>1
    <3> QED
      BY <1>1, <1>3, <3>1, <3>2, SeqEqual
  <2>4. r = m
    <3> DEFINE D == Chars \ {"?"}
    <3>1. m \in 0..Len(path) /\ \A k \in 1..m : path[k] \in D
      BY <1>1 DEF Stop
    <3> HIDE DEF path, t, D
    <3>2. Run(path, D) = m
      BY <1>1, <3>1, RunIs
    <3> QED
      BY <2>3, <3>2 DEF D
  <2> HIDE DEF path, t, r, query
  <2>5. ~(r = Len(t) - 1)
    BY <1>1, <2>3, <2>4
  <2>6. TargetOf(after) = IF path = <<>> \/ path[1] # "/" THEN <<"/">> \o path ELSE path
    BY <1>4, <2>3, <2>5
  <2>7. FullRun(after) = (IF path = <<>> THEN <<"/">> ELSE path) \o <<>>
    BY <1>2, <2>1
  <2>8. CASE m = 0
    BY <1>6, <2>6, <2>7, <2>8
  <2>9. CASE m > 0
    <3>1. path \o <<>> = path
      BY <1>1, ConcatEmptySeq
    <3> QED
      BY <1>5, <2>6, <2>7, <2>9, <3>1
  <2> QED
    BY <1>1, <2>8, <2>9
<1>8. CASE m < Len(after) /\ after[m + 1] = "?"
  <2>1. /\ query \in Seq(Chars) /\ m + 1 + x \in 0..Len(after)
        /\ \A k \in 1..x : query[k] = after[m + 1 + k]
        /\ \A k \in 1..x : after[m + 1 + k] \in C
        /\ m + 1 + x < Len(after) => after[m + 1 + x + 1] \notin C
    BY <1>8, QueryIs
  <2>2. Run(after, C) = m + 1 + x
    <3>1. \A k \in 1..m : after[k] \in C
      BY <1>1 DEF Stop
    <3>2. "?" \in C
      BY DEF Chars, Mark
    <3> HIDE DEF path, query, C
    <3>3. ASSUME NEW k \in 1..m + 1 + x PROVE after[k] \in C
      <4>1. CASE k =< m
        BY <1>1, <3>1, <4>1
      <4>2. CASE k = m + 1
        BY <1>8, <3>2, <4>2
      <4>3. CASE m + 1 < k
        <5>1. k - (m + 1) \in 1..x /\ m + 1 + (k - (m + 1)) = k
          BY <1>1, <2>1, <4>3
        <5> QED
          BY <2>1, <5>1
      <4> QED
        BY <1>1, <4>1, <4>2, <4>3
    <3>4. \A k \in 1..m + 1 + x : after[k] \in C
      BY <3>3
    <3> QED
      BY <2>1, <3>4, RunIs
  <2>3. /\ Len(t) = m + 1 + x /\ \A k \in 1..m : t[k] = path[k]
        /\ t[m + 1] = "?" /\ \A k \in 1..x : t[m + 1 + k] = query[k]
    <3>1. m \in Nat /\ x \in Nat
      BY <1>1, <2>1
    <3> HIDE DEF path, query, t, m, x, C
    <3>2. Len(t) = m + 1 + x /\ \A k \in 1..m + 1 + x : t[k] = after[k]
      BY <1>3, <2>2
    <3>3. \A k \in 1..m : t[k] = path[k]
      BY <1>1, <3>1, <3>2
    <3>4. t[m + 1] = "?"
      BY <1>8, <3>1, <3>2
    <3>5. ASSUME NEW k \in 1..x PROVE t[m + 1 + k] = query[k]
      <4>1. m + 1 + k \in 1..m + 1 + x
        BY <3>1
      <4> QED
        BY <2>1, <3>2, <4>1
    <3> QED
      BY <3>2, <3>3, <3>4, <3>5
  <2>4. r = m
    <3> DEFINE D == Chars \ {"?"}
    <3>1. \A k \in 1..m : path[k] \in D
      BY <1>1 DEF Stop
    <3>2. "?" \notin D
      OBVIOUS
    <3> HIDE DEF path, query, t, D
    <3>3. m \in 0..Len(t) /\ \A k \in 1..m : t[k] \in D
      BY <1>1, <2>1, <2>3, <3>1
    <3>4. t[m + 1] \notin D
      BY <2>3, <3>2
    <3>5. Run(t, D) = m
      BY <1>3, <3>3, <3>4, RunIs
    <3> QED
      BY <3>5 DEF D
  <2>5. CASE x = 0
    <3>1. query = <<>>
      <4> HIDE DEF query
      <4> QED
        BY <2>1, <2>5, EmptySeq
    <3>2. Prefix(t, Chars \ {"?"}) = path
      <4> DEFINE v == Prefix(t, Chars \ {"?"})
      <4>1. v \in Seq(Chars) /\ Len(v) = r /\ \A k \in 1..r : v[k] = t[k]
        <5> HIDE DEF t
        <5> QED
          BY <1>3, PrefixRest
      <4> HIDE DEF v, t, r, path, query
      <4>2. Len(v) = Len(path) /\ \A k \in 1..Len(v) : v[k] = path[k]
        BY <2>3, <2>4, <4>1
      <4>3. v = path
        BY <1>1, <4>1, <4>2, SeqEqual
      <4> QED
        BY <4>3 DEF v
    <3>3. t # <<>> /\ r = Len(t) - 1
      <4> HIDE DEF t, r, path, query
      <4> QED
        BY <1>1, <2>3, <2>4, <2>5
    <3> HIDE DEF t, r, path, query
    <3>4. TargetOf(after) = IF path = <<>> \/ path[1] # "/" THEN <<"/">> \o path ELSE path
      BY <1>4, <3>2, <3>3
    <3>5. FullRun(after) = (IF path = <<>> THEN <<"/">> ELSE path) \o <<>>
      BY <1>2, <3>1
    <3>6. CASE m = 0
      BY <1>6, <3>4, <3>5, <3>6
    <3>7. CASE m > 0
      <4>1. path \o <<>> = path
        BY <1>1, ConcatEmptySeq
      <4> QED
        BY <1>5, <3>4, <3>5, <3>7, <4>1
    <3> QED
      BY <1>1, <3>6, <3>7
  <2>6. CASE x > 0
    <3> DEFINE mark == <<"?">>
               tail == mark \o query
    <3>1. mark \in Seq(Chars) /\ Len(mark) = 1 /\ mark[1] = "?"
      BY DEF Chars, Mark
    <3> HIDE DEF t, r, path, query, mark
    <3>2. /\ tail \in Seq(Chars) /\ Len(tail) = Len(mark) + x
          /\ \A k \in 1..Len(mark) : tail[k] = mark[k]
          /\ \A k \in 1..x : tail[Len(mark) + k] = query[k]
      <4>1. mark \in Seq(Chars) /\ query \in Seq(Chars)
        BY <2>1, <3>1
      <4> QED
        BY <4>1, ConcatIs
    <3> HIDE DEF tail
    <3>3. Len(tail) = x + 1 /\ tail[1] = "?" /\ \A k \in 1..x : tail[1 + k] = query[k]
      BY <2>1, <3>1, <3>2
    <3>4. query # <<>> /\ ~(r = Len(t) - 1)
      BY <1>1, <2>1, <2>3, <2>4, <2>6
    <3>5. TargetOf(after) = IF t = <<>> \/ t[1] # "/" THEN <<"/">> \o t ELSE t
      BY <1>4, <3>4
    <3>6. FullRun(after) = (IF path = <<>> THEN <<"/">> ELSE path) \o tail
      BY <1>2, <3>4 DEF tail, mark
    <3>7. ASSUME NEW k \in 1..Len(tail) PROVE t[m + k] = tail[k]
      <4>1. CASE k = 1
        BY <2>3, <3>3, <4>1
      <4>2. CASE k > 1
        <5>1. k - 1 \in 1..x /\ 1 + (k - 1) = k /\ m + 1 + (k - 1) = m + k
          BY <1>1, <2>1, <3>3, <4>2
        <5>2. tail[1 + (k - 1)] = query[k - 1] /\ t[m + 1 + (k - 1)] = query[k - 1]
          BY <2>3, <3>3, <5>1
        <5> QED
          BY <5>1, <5>2
      <4> QED
        BY <3>2, <4>1, <4>2
    <3>8. CASE m = 0
      <4>1. t = tail
        <5>1. Len(t) = Len(tail) /\ \A k \in 1..Len(t) : t[k] = tail[k]
          BY <2>1, <2>3, <3>3, <3>7, <3>8
        <5> QED
          BY <1>3, <3>2, <5>1, SeqEqual
      <4>2. t[1] # "/"
        BY <3>3, <4>1
      <4> QED
        BY <1>6, <3>5, <3>6, <3>8, <4>1, <4>2
    <3>9. CASE m > 0
      <4> DEFINE full == path \o tail
      <4>1. /\ full \in Seq(Chars) /\ Len(full) = m + Len(tail)
            /\ \A k \in 1..m : full[k] = path[k]
            /\ \A k \in 1..Len(tail) : full[m + k] = tail[k]
        <5>1. path \in Seq(Chars) /\ tail \in Seq(Chars)
          BY <1>1, <3>2
        <5> QED
          BY <5>1, ConcatIs
      <4> HIDE DEF full
      <4>2. Len(full) = Len(t)
        BY <1>1, <2>1, <2>3, <3>3, <4>1
      <4>3. ASSUME NEW k \in 1..Len(full) PROVE full[k] = t[k]
        <5>1. CASE k =< m
          BY <1>1, <2>3, <4>1, <5>1
        <5>2. CASE m < k
          <6>1. k - m \in 1..Len(tail) /\ m + (k - m) = k
            BY <1>1, <3>2, <4>1, <5>2
          <6> QED
            BY <3>7, <4>1, <6>1
        <5> QED
          BY <1>1, <5>1, <5>2
      <4>4. full = t
        BY <1>3, <4>1, <4>2, <4>3, SeqEqual
      <4>5. t # <<>> /\ t[1] = "/"
        BY <1>1, <1>5, <2>3, <3>3, <3>9
      <4> QED
        BY <1>5, <3>5, <3>6, <3>9, <4>4, <4>5 DEF full
    <3> QED
      BY <1>1, <3>8, <3>9
  <2> QED
    <3> HIDE DEF query
    <3> QED
      BY <2>1, <2>5, <2>6
<1> QED
  <2> HIDE DEF path
  <2> QED
    BY <1>1, <1>7, <1>8 DEF Stop

\* What follows the server is what follows the authority.
LEMMA SameRest ==
  ASSUME NEW u, Url(u)
  PROVE  Rest(Text(u), ServerChars) = Rest(u.rest, ServerChars)
<1>1. CASE HostAndPort(Found(u))
  BY <1>1, TextWithPort
<1>2. CASE ~HostAndPort(Found(u))
  <2> DEFINE t == Text(u)
             r == Len(Authority(u))
             n == Len(Found(u))
             L == Len(u.rest)
             x == Added(u)
             a == Rest(t, ServerChars)
             b == Rest(u.rest, ServerChars)
  <2>1. /\ t \in Seq(Chars) /\ Len(t) = L + x /\ x \in Nat /\ u.rest \in Seq(Chars)
        /\ \A k \in n + 1..L : t[k + x] = u.rest[k]
    BY <1>2, TextWithout, FoundIs
  <2>2. n \in Nat /\ L \in Nat /\ r \in n..L /\ Run(t, ServerChars) = r + x
        /\ Run(u.rest, ServerChars) = r
    BY <1>2, FoundIs, AuthorityIs, ServerWithout
  <2>3. /\ a \in Seq(Chars) /\ Len(a) = Len(t) - (r + x)
        /\ \A k \in 1..Len(t) - (r + x) : a[k] = t[(r + x) + k]
    <3> DEFINE R == Run(t, ServerChars)
    <3>1. t \in Seq(Chars) /\ R = r + x
      BY <2>1, <2>2
    <3> HIDE DEF t, r, x
    <3>2. /\ a \in Seq(Chars) /\ Len(a) = Len(t) - R
          /\ \A k \in 1..Len(t) - R : a[k] = t[R + k]
      BY <3>1, PrefixRest
    <3> HIDE DEF a, R
    <3> QED
      BY <3>1, <3>2
  <2>4. b \in Seq(Chars) /\ Len(b) = L - r /\ \A k \in 1..L - r : b[k] = u.rest[r + k]
    <3> DEFINE R == Run(u.rest, ServerChars)
    <3>1. u.rest \in Seq(Chars) /\ R = r
      BY <2>1, <2>2
    <3> HIDE DEF r
    <3>2. b \in Seq(Chars) /\ Len(b) = L - R /\ \A k \in 1..L - R : b[k] = u.rest[R + k]
      BY <3>1, PrefixRest
    <3> HIDE DEF b, R, L
    <3> QED
      BY <3>1, <3>2
  <2> HIDE DEF t, r, n, L, a, b, x
  <2>5. Len(a) = Len(b) /\ Len(a) = L - r
    BY <2>1, <2>2, <2>3, <2>4
  <2>6. ASSUME NEW k \in 1..Len(a) PROVE a[k] = b[k]
    <3>1. /\ k \in 1..L - r /\ k \in 1..Len(t) - (r + x)
          /\ r + k \in n + 1..L /\ (r + x) + k = (r + k) + x
      BY <2>1, <2>2, <2>5
    <3>2. a[k] = t[(r + k) + x] /\ b[k] = u.rest[r + k]
      BY <2>3, <2>4, <3>1
    <3> QED
      BY <2>1, <3>1, <3>2
  <2>7. a = b
    BY <2>3, <2>4, <2>5, <2>6, SeqEqual
  <2> QED
    BY <2>7 DEF a, b, t
<1> QED
  BY <1>1, <1>2

\* It is empty, or starts with "/", "?" or "#".
LEMMA RestStarts ==
  ASSUME NEW u, Url(u)
  PROVE  /\ Rest(u.rest, ServerChars) \in Seq(Chars)
         /\ Len(Rest(u.rest, ServerChars)) = Len(u.rest) - Len(Authority(u))
         /\ Rest(u.rest, ServerChars) # <<>> =>
              /\ Rest(u.rest, ServerChars)[1] \in {"/", "?", "#"}
              /\ Rest(u.rest, ServerChars)[1] = u.rest[Len(Authority(u)) + 1]
<1> DEFINE r == Run(u.rest, ServerChars)
           b == Rest(u.rest, ServerChars)
           L == Len(u.rest)
<1>1. /\ u.rest \in Seq(Chars) /\ r \in 0..L /\ L \in Nat
      /\ r < L => u.rest[r + 1] \notin ServerChars
  BY FoundIs, RunExists
<1>2. b \in Seq(Chars) /\ Len(b) = L - r /\ \A k \in 1..L - r : b[k] = u.rest[r + k]
  BY <1>1, PrefixRest
<1>3. Len(Authority(u)) = r
  BY AuthorityIs
<1> HIDE DEF r, b, L
<1>4. ASSUME b # <<>> PROVE b[1] = u.rest[r + 1] /\ b[1] \in Chars /\ b[1] \notin ServerChars
  <2>1. Len(b) \in Nat \ {0}
    BY <1>2, <1>4, EmptySeq
  <2>2. 1 \in 1..L - r /\ r < L /\ b[1] \in Chars
    BY <1>1, <1>2, <2>1
  <2> QED
    BY <1>1, <1>2, <2>2
<1>5. b # <<>> => b[1] \in {"/", "?", "#"} /\ b[1] = u.rest[r + 1]
  BY <1>4 DEF ServerChars
<1> QED
  BY <1>2, <1>3, <1>5 DEF b, L

(***************************************************************************)
(* The fields of the parser                                                *)
(***************************************************************************)

LEMMA TextTyped ==
  ASSUME NEW u, Url(u)
  PROVE  Text(u) \in Seq(Chars)
<1>1. CASE HostAndPort(Found(u))
  BY <1>1, TextWithPort, FoundIs
<1>2. CASE ~HostAndPort(Found(u))
  BY <1>2, TextWithout
<1> QED
  BY <1>1, <1>2

\* fetch()'s URL is what Text() says after "://".
LEMMA WholeIs ==
  ASSUME NEW u, Url(u), Matches(u)
  PROVE  /\ Start(Elements(u)) \in Nat
         /\ Whole(Elements(u)) \in Seq(Chars)
         /\ Len(Whole(Elements(u))) = Start(Elements(u)) + Len(Text(u))
         /\ \A k \in 1..Len(Text(u)) :
              Whole(Elements(u))[Start(Elements(u)) + k] = Text(u)[k]
<1> DEFINE n == SchemeLength[u.proto]
           h == [k \in 1..n |-> "a"]
           c == <<":", "/", "/">>
           t == Text(u)
<1>1. n \in Nat
  BY DEF Matches, Protos, SchemeLength
<1>2. Start(Elements(u)) = n + 3 /\ Whole(Elements(u)) = h \o c \o t
  BY ElementsAre DEF Start, Whole, Text
<1>3. "a" \in Chars /\ ":" \in Chars /\ "/" \in Chars
  BY DEF Chars, Lower, Mark
<1>4. h \in Seq(Chars) /\ Len(h) = n
  <2> HIDE DEF n
  <2> QED
    BY <1>1, <1>3
<1>5. c \in Seq(Chars) /\ Len(c) = 3
  BY <1>3
<1>6. t \in Seq(Chars)
  BY TextTyped
<1> HIDE DEF n, h, c, t
<1> DEFINE hc == h \o c
<1>a. h \in Seq(Chars) /\ c \in Seq(Chars)
  BY <1>4, <1>5
<1>b. hc \in Seq(Chars) /\ Len(hc) = Len(h) + Len(c)
  BY <1>a, ConcatIs
<1>7. hc \in Seq(Chars) /\ Len(hc) = n + 3
  BY <1>4, <1>5, <1>b
<1> HIDE DEF hc
<1>c. hc \in Seq(Chars) /\ t \in Seq(Chars)
  BY <1>6, <1>7
<1>8. /\ hc \o t \in Seq(Chars) /\ Len(hc \o t) = Len(hc) + Len(t)
      /\ \A k \in 1..Len(t) : (hc \o t)[Len(hc) + k] = t[k]
  BY <1>c, ConcatIs
<1>9. n + 3 \in Nat
  BY <1>1
<1> QED
  BY <1>2, <1>7, <1>8, <1>9, Zenon DEF hc, t

\* A field is made of characters, and where the URL is short it is not cut.
LEMMA FieldIs ==
  ASSUME NEW s \in Seq(Chars), NEW off \in Nat, NEW n \in Nat, off + n =< Len(s)
  PROVE  /\ Field(s, off, n) \in Seq(Chars)
         /\ Len(s) < FieldMod =>
              /\ Len(Field(s, off, n)) = n
              /\ \A k \in 1..n : Field(s, off, n)[k] = s[off + k]
<1> DEFINE o == Short(off)
           l == Short(n)
           f == Field(s, off, n)
<1>1. /\ o \in 0..off /\ l \in 0..n
      /\ off < FieldMod => o = off
      /\ n < FieldMod => l = n
  BY AddressAssumption DEF Short
<1>2. f = SubSeq(s, o + 1, o + l)
  BY DEF Field
<1> HIDE DEF o, l, f
<1>3. o + 1 \in 1..Len(s) + 1 /\ o + l \in (o + 1) - 1..Len(s)
  BY <1>1
<1>4. /\ f \in Seq(Chars) /\ Len(f) = (o + l) - (o + 1) + 1
      /\ \A k \in 1..(o + l) - (o + 1) + 1 : f[k] = s[(o + 1) + k - 1]
  BY <1>2, <1>3, SubSeqIs
<1>5. ASSUME Len(s) < FieldMod
      PROVE  Len(f) = n /\ \A k \in 1..n : f[k] = s[off + k]
  <2>1. o = off /\ l = n
    BY <1>1, <1>5, AddressAssumption
  <2>2. (o + l) - (o + 1) + 1 = n
    BY <2>1
  <2>3. ASSUME NEW k \in 1..n PROVE (o + 1) + k - 1 = off + k
    BY <2>1
  <2> QED
    BY <1>4, <2>2, <2>3
<1> QED
  BY <1>4, <1>5 DEF f

\* So what the parser points at in a URL that fits is what is there.
LEMMA PartIs ==
  ASSUME NEW u, Url(u), Matches(u), Fits(u),
         NEW at \in Nat, NEW q \in Seq(Chars), at + Len(q) =< Len(Text(u)),
         \A k \in 1..Len(q) : q[k] = Text(u)[at + k]
  PROVE  Field(Whole(Elements(u)), Start(Elements(u)) + at, Len(q)) = q
<1> DEFINE w == Whole(Elements(u))
           b == Start(Elements(u))
           t == Text(u)
           f == Field(w, b + at, Len(q))
<1>1. /\ b \in Nat /\ w \in Seq(Chars) /\ Len(w) = b + Len(t) /\ t \in Seq(Chars)
      /\ \A k \in 1..Len(t) : w[b + k] = t[k]
  BY WholeIs, TextTyped
<1>2. Len(w) < FieldMod
  BY DEF Fits
<1> HIDE DEF w, b, t
<1>3. b + at \in Nat /\ Len(q) \in Nat /\ (b + at) + Len(q) =< Len(w)
  BY <1>1 DEF t
<1>4. /\ f \in Seq(Chars) /\ Len(f) = Len(q)
      /\ \A k \in 1..Len(q) : f[k] = w[(b + at) + k]
  BY <1>1, <1>2, <1>3, FieldIs
<1> HIDE DEF f
<1>5. ASSUME NEW k \in 1..Len(q) PROVE f[k] = q[k]
  <2>1. at + k \in 1..Len(t) /\ (b + at) + k = b + (at + k)
    BY <1>1 DEF t
  <2>2. w[b + (at + k)] = t[at + k] /\ t[at + k] = q[k]
    BY <1>1, <2>1 DEF t
  <2> QED
    BY <1>4, <2>1, <2>2
<1>6. f = q
  BY <1>4, <1>5, SeqEqual
<1> QED
  BY <1>6 DEF f, w, b

\* What the parser finds after "://": the server, and what follows it.
LEMMA SplitIs ==
  ASSUME NEW u, Url(u)
  PROVE  /\ Server(Elements(u)) = ServerText(u) /\ After(Elements(u)) = Rest(u.rest, ServerChars)
         /\ ServerText(u) \in Seq(Chars) /\ After(Elements(u)) \in Seq(Chars)
         /\ Len(ServerText(u)) + Len(After(Elements(u))) = Len(Text(u))
         /\ \A k \in 1..Len(ServerText(u)) : ServerText(u)[k] = Text(u)[k]
         /\ \A k \in 1..Len(After(Elements(u))) :
              After(Elements(u))[k] = Text(u)[Len(ServerText(u)) + k]
<1> DEFINE t == Text(u)
           r == Run(t, ServerChars)
           s == Prefix(t, ServerChars)
           z == Rest(t, ServerChars)
<1>1. t \in Seq(Chars)
  BY TextTyped
<1>2. Server(Elements(u)) = s /\ ServerText(u) = s /\ After(Elements(u)) = z
  BY DEF Server, ServerText, After, Text
<1>3. z = Rest(u.rest, ServerChars)
  BY SameRest
<1> HIDE DEF t
<1>4. /\ s \in Seq(Chars) /\ Len(s) = r /\ \A k \in 1..r : s[k] = t[k]
      /\ z \in Seq(Chars) /\ Len(z) = Len(t) - r /\ \A k \in 1..Len(t) - r : z[k] = t[r + k]
  BY <1>1, PrefixRest
<1>5. r \in 0..Len(t) /\ Len(t) \in Nat
  BY <1>1, RunExists
<1> HIDE DEF r, s, z
<1>6. Len(s) + Len(z) = Len(t)
  BY <1>4, <1>5
<1> QED
  BY <1>2, <1>3, <1>4, <1>6, Zenon DEF t

\* The server is then read whole, ...
LEMMA CutIs ==
  ASSUME NEW u, Url(u), Matches(u), Fits(u)
  PROVE  Cut(Elements(u)) = ServerText(u)
<1> DEFINE s == ServerText(u)
           b == Start(Elements(u))
<1>1. /\ s \in Seq(Chars) /\ Server(Elements(u)) = s
      /\ \A k \in 1..Len(s) : s[k] = Text(u)[k]
  BY SplitIs
<1>2. 0 + Len(s) =< Len(Text(u))
  BY SplitIs
<1>3. \A k \in 1..Len(s) : s[k] = Text(u)[0 + k]
  BY <1>1
<1>4. Field(Whole(Elements(u)), b + 0, Len(s)) = s
  <2> HIDE DEF s, b
  <2>1. Field(Whole(Elements(u)), Start(Elements(u)) + 0, Len(s)) = s
    BY <1>1, <1>2, <1>3, PartIs
  <2> QED
    BY <2>1 DEF b
<1>5. b + 0 = b
  BY WholeIs
<1> QED
  BY <1>1, <1>4, <1>5 DEF Cut

\* What is counted as path and as query.
LEMMA RunsAre ==
  ASSUME NEW after \in Seq(Chars), after = <<>> \/ after[1] \in {"/", "?"}
  PROVE  LET m == Len(PathRun(after))
             x == Len(QueryRun(after))
         IN  /\ PathRun(after) \in Seq(Chars) /\ m \in 0..Len(after)
             /\ \A k \in 1..m : PathRun(after)[k] = after[k]
             /\ QueryRun(after) # <<>> =>
                  /\ QueryRun(after) \in Seq(Chars) /\ m + 1 + x \in 0..Len(after)
                  /\ \A k \in 1..x : QueryRun(after)[k] = after[m + 1 + k]
<1> DEFINE m == Len(PathRun(after))
<1>1. /\ PathRun(after) \in Seq(Chars) /\ \A k \in 1..m : PathRun(after)[k] = after[k]
  BY PathIs
<1>2. m \in 0..Len(after) /\ (m < Len(after) => after[m + 1] \in Stop)
  BY QueryIs
<1>3. m = Len(after) \/ after[m + 1] = "#" => QueryRun(after) = <<>>
  BY QueryIs
<1>4. m < Len(after) /\ after[m + 1] = "?" =>
        /\ QueryRun(after) \in Seq(Chars) /\ m + 1 + Len(QueryRun(after)) \in 0..Len(after)
        /\ \A k \in 1..Len(QueryRun(after)) : QueryRun(after)[k] = after[m + 1 + k]
  BY QueryIs
<1> HIDE DEF m
<1>5. m < Len(after) => after[m + 1] = "?" \/ after[m + 1] = "#"
  BY <1>2 DEF Stop
<1>6. m = Len(after) \/ m < Len(after)
  BY <1>2
<1>7. QueryRun(after) # <<>> => m < Len(after) /\ after[m + 1] = "?"
  BY <1>3, <1>5, <1>6
<1> QED
  BY <1>1, <1>2, <1>4, <1>7 DEF m

\* ... and so are the path and the query.
LEMMA FullPathIs ==
  ASSUME NEW u, Url(u), Matches(u), Fits(u), Accepted(Elements(u))
  PROVE  FullPath(Elements(u)) = FullRun(After(Elements(u)))
<1> DEFINE z == After(Elements(u))
           s == ServerText(u)
           b == Start(Elements(u))
           m == Len(PathRun(z))
           x == Len(QueryRun(z))
<1>1. /\ s \in Seq(Chars) /\ Server(Elements(u)) = s /\ z \in Seq(Chars)
      /\ Len(s) + Len(z) = Len(Text(u))
      /\ \A k \in 1..Len(z) : z[k] = Text(u)[Len(s) + k]
  BY SplitIs
<1>2. z = <<>> \/ z[1] \in {"/", "?"}
  BY SplitIs, RestStarts DEF Accepted
<1>3. b \in Nat
  BY WholeIs
<1> HIDE DEF z, s, b
<1>4. /\ PathRun(z) \in Seq(Chars) /\ m \in 0..Len(z)
      /\ \A k \in 1..m : PathRun(z)[k] = z[k]
      /\ QueryRun(z) # <<>> =>
           /\ QueryRun(z) \in Seq(Chars) /\ m + 1 + x \in 0..Len(z)
           /\ \A k \in 1..x : QueryRun(z)[k] = z[m + 1 + k]
  BY <1>1, <1>2, RunsAre
<1>5. Field(Whole(Elements(u)), b + Len(s), m) = PathRun(z)
  <2>1. Len(s) \in Nat /\ Len(s) + m =< Len(Text(u))
    BY <1>1, <1>4
  <2>2. ASSUME NEW k \in 1..m PROVE PathRun(z)[k] = Text(u)[Len(s) + k]
    BY <1>1, <1>4, <2>2
  <2> QED
    BY <1>4, <2>1, <2>2, PartIs DEF b
<1>6. ASSUME QueryRun(z) # <<>>
      PROVE  Field(Whole(Elements(u)), b + Len(s) + m + 1, x) = QueryRun(z)
  <2>0. QueryRun(z) \in Seq(Chars) /\ m + 1 + x \in 0..Len(z)
    BY <1>4, <1>6
  <2>a. \A k \in 1..x : QueryRun(z)[k] = z[m + 1 + k]
    BY <1>4, <1>6
  <2> HIDE DEF m, x
  <2>1. Len(s) + m + 1 \in Nat /\ x \in Nat /\ m \in Nat
    BY <1>1, <1>4, <2>0 DEF m, x
  <2>2. (Len(s) + m + 1) + x =< Len(Text(u))
    BY <1>1, <2>0, <2>1
  <2>3. ASSUME NEW k \in 1..x PROVE QueryRun(z)[k] = Text(u)[(Len(s) + m + 1) + k]
    <3>1. m + 1 + k \in 1..Len(z) /\ (Len(s) + m + 1) + k = Len(s) + (m + 1 + k)
      BY <1>1, <2>0, <2>1, <2>3
    <3> QED
      BY <1>1, <2>a, <3>1
  <2>4. Field(Whole(Elements(u)), b + (Len(s) + m + 1), x) = QueryRun(z)
    BY <2>0, <2>1, <2>2, <2>3, PartIs DEF b, x
  <2>5. b + (Len(s) + m + 1) = b + Len(s) + m + 1
    BY <1>1, <1>3, <2>1
  <2> QED
    BY <2>4, <2>5
<1>7. PathOf(Elements(u)) = PathRun(z)
  BY <1>1, <1>5 DEF PathOf, z, b
<1>8. QueryRun(z) # <<>> => QueryOf(Elements(u)) = QueryRun(z)
  BY <1>1, <1>6 DEF QueryOf, z, b
<1> QED
  BY <1>7, <1>8, Zenon DEF FullPath, FullRun, z

\* The request submit() makes of the elements.
Requested(e) == [scheme |-> e.proto, path |-> FullPath(e)]

\* A URL whose joined form fits and is accepted is read alike by both parsers.
LEMMA Agreed ==
  ASSUME NEW u, Url(u), Matches(u), Fits(u), Accepted(Elements(u)),
         Places(Authority(u), "@") = {}
  PROVE  /\ Elements(u).addr = UrlHost(u) /\ Elements(u).port = UrlPort(u)
         /\ Requested(Elements(u)).scheme = u.proto
         /\ Requested(Elements(u)).path = Target(u)
<1>1. GoodServer(ServerText(u))
  BY CutIs DEF Accepted
<1>2. Elements(u).addr = UrlHost(u) /\ Elements(u).port = UrlPort(u)
  <2>1. CASE HostAndPort(Found(u))
    <3>1. ServerText(u) = Authority(u)
      BY <2>1, TextWithPort, AuthorityIs DEF ServerText
    <3> QED
      BY <1>1, <2>1, <3>1, AgreedWithPort
  <2>2. CASE ~HostAndPort(Found(u))
    BY <1>1, <2>2, AgreedWithout
  <2> QED
    BY <2>1, <2>2
<1>3. Requested(Elements(u)).scheme = u.proto
  BY ElementsAre DEF Requested
<1>4. Requested(Elements(u)).path = Target(u)
  <2> DEFINE after == Rest(u.rest, ServerChars)
  <2>1. Requested(Elements(u)).path = FullRun(after)
    BY SplitIs, FullPathIs DEF Requested
  <2>2. after = <<>> \/ after[1] # "#"
    BY SplitIs DEF Accepted
  <2>3. after \in Seq(Chars) /\ (after = <<>> \/ after[1] \in {"/", "?"})
    BY <2>2, RestStarts
  <2>4. after = SubSeq(u.rest, Len(Authority(u)) + 1, Len(u.rest))
    BY AuthorityIs DEF Rest
  <2>5. Target(u) = TargetOf(after)
    BY <2>4 DEF Target, TargetOf
  <2> HIDE DEF after
  <2>6. FullRun(after) = TargetOf(after)
    BY <2>3, SamePath
  <2> QED
    BY <2>1, <2>5, <2>6
<1> QED
  BY <1>2, <1>3, <1>4

\* The type of what submit() asks for, a cut path and a user name included.
LEMMA RequestedTyped ==
  ASSUME NEW u, Url(u), Matches(u), Accepted(Elements(u))
  PROVE  Requested(Elements(u)) \in [scheme : Protos, path : Seq(Chars)]
<1> DEFINE e == Elements(u)
           z == After(e)
           s == ServerText(u)
           w == Whole(e)
           b == Start(e)
           path == PathOf(e)
           query == QueryOf(e)
           x == IF path = <<>> THEN <<"/">> ELSE path
           y == IF QueryRun(z) = <<>> THEN <<>> ELSE <<"?">> \o query
<1>1. /\ s \in Seq(Chars) /\ Server(e) = s /\ z \in Seq(Chars)
      /\ Len(s) + Len(z) = Len(Text(u))
  BY SplitIs
<1>2. z = <<>> \/ z[1] \in {"/", "?"}
  BY SplitIs, RestStarts DEF Accepted
<1>3. b \in Nat /\ w \in Seq(Chars) /\ Len(w) = b + Len(Text(u))
  BY WholeIs
<1>4. /\ path = Field(w, b + Len(s), Len(PathRun(z)))
      /\ query = Field(w, b + Len(s) + Len(PathRun(z)) + 1, Len(QueryRun(z)))
  BY <1>1 DEF PathOf, QueryOf
<1>5. e.proto \in Protos
  BY ElementsAre DEF Matches
<1>6. <<"/">> \in Seq(Chars) /\ <<"?">> \in Seq(Chars) /\ <<>> \in Seq(Chars)
  BY DEF Chars, Mark
<1>7. FullPath(e) = x \o y
  BY DEF FullPath
<1> HIDE DEF e, z, s, w, b, path, query
<1>8. /\ PathRun(z) \in Seq(Chars) /\ Len(PathRun(z)) \in 0..Len(z)
      /\ QueryRun(z) # <<>> =>
           /\ QueryRun(z) \in Seq(Chars)
           /\ Len(PathRun(z)) + 1 + Len(QueryRun(z)) \in 0..Len(z)
  BY <1>1, <1>2, RunsAre
<1>9. path \in Seq(Chars)
  <2> DEFINE m == Len(PathRun(z))
  <2>1. b + Len(s) \in Nat /\ m \in Nat /\ (b + Len(s)) + m =< Len(w)
    BY <1>1, <1>3, <1>8
  <2> HIDE DEF m
  <2> QED
    BY <1>3, <1>4, <2>1, FieldIs DEF m
<1>10. QueryRun(z) # <<>> => query \in Seq(Chars)
  <2> SUFFICES ASSUME QueryRun(z) # <<>> PROVE query \in Seq(Chars)
    OBVIOUS
  <2> DEFINE m == Len(PathRun(z))
             l == Len(QueryRun(z))
  <2>1. m \in Nat /\ l \in Nat /\ m + 1 + l \in 0..Len(z)
    BY <1>8
  <2> HIDE DEF m, l
  <2>2. b + Len(s) + m + 1 \in Nat /\ (b + Len(s) + m + 1) + l =< Len(w)
    BY <1>1, <1>3, <2>1
  <2> QED
    BY <1>3, <1>4, <2>1, <2>2, FieldIs DEF m, l
<1>11. x \in Seq(Chars)
  BY <1>6, <1>9
<1>12. y \in Seq(Chars)
  <2>1. CASE QueryRun(z) = <<>>
    BY <1>6, <2>1
  <2>2. CASE QueryRun(z) # <<>>
    <3>1. <<"?">> \o query \in Seq(Chars)
      BY <1>6, <1>10, <2>2, ConcatIs
    <3> QED
      BY <2>2, <3>1
  <2> QED
    BY <2>1, <2>2
<1> HIDE DEF x, y
<1>13. FullPath(e) \in Seq(Chars)
  BY <1>7, <1>11, <1>12, ConcatIs
<1>14. Requested(e) \in [scheme : Protos, path : Seq(Chars)]
  BY <1>5, <1>13 DEF Requested
<1> QED
  BY <1>14 DEF e

(***************************************************************************)
(* A plain URL                                                             *)
(***************************************************************************)

\* Labels are made of letters, digits, hyphens and dots, and are never empty.
LEMMA LabelsAre ==
  ASSUME NEW s \in Seq(Chars), Labels(s)
  PROVE  s # <<>> /\ \A k \in 1..Len(s) : s[k] \in HostChars
<1> DEFINE dots == Places(s, ".")
           ends == {0, Len(s) + 1} \cup dots
<1>1. Len(s) \in Nat /\ dots = {k \in 1..Len(s) : s[k] = "."}
  BY DEF Places
<1>2. \A j, k \in ends : (j < k /\ \A i \in dots : i =< j \/ k =< i)
                            => Label(SubSeq(s, j + 1, k - 1))
  BY DEF Labels
<1> HIDE DEF dots
<1>3. ASSUME NEW k \in 1..Len(s), s[k] # "." PROVE s[k] \in HostChars
  <2> DEFINE before == {k - i : i \in {i \in ends : i < k}}
             beyond == {i \in ends : k < i}
  <2>1. ends \subseteq Nat /\ k \in Nat
    BY <1>1
  <2>2. before \subseteq Nat /\ before # {}
    <3>1. 0 \in {i \in ends : i < k}
      BY <1>1
    <3> QED
      BY <2>1, <3>1
  <2>3. PICK d \in before : \A i \in before : d =< i
    BY <2>2, LeastExists, Zenon
  <2>4. PICK j \in ends : j < k /\ d = k - j
    BY <2>3
  <2>5. ASSUME NEW i \in ends, i < k PROVE i =< j
    <3>1. d =< k - i
      BY <2>3, <2>5
    <3> QED
      BY <2>1, <2>4, <3>1
  <2>6. beyond \subseteq Nat /\ beyond # {}
    <3>1. Len(s) + 1 \in beyond
      BY <1>1
    <3> QED
      BY <2>1, <3>1
  <2>7. PICK m \in beyond : \A i \in beyond : m =< i
    BY <2>6, LeastExists, Zenon
  <2> HIDE DEF before
  <2>8. ASSUME NEW i \in dots PROVE i =< j \/ m =< i
    <3>1. i \in ends /\ i # k /\ i \in Nat
      BY <1>1, <1>3, <2>8
    <3>2. i < k \/ k < i
      BY <2>1, <3>1
    <3> QED
      BY <2>5, <2>7, <3>1, <3>2
  <2>9. j \in Nat /\ m \in ends /\ k < m /\ j < k /\ m \in Nat /\ m =< Len(s) + 1
    BY <1>1, <2>1, <2>4, <2>7
  <2>10. Label(SubSeq(s, j + 1, m - 1))
    <3>1. j < m
      BY <2>9
    <3> HIDE DEF ends
    <3> QED
      BY <1>2, <2>4, <2>8, <2>9, <3>1
  <2>11. /\ SubSeq(s, j + 1, m - 1) \in Seq(Chars)
         /\ Len(SubSeq(s, j + 1, m - 1)) = (m - 1) - (j + 1) + 1
         /\ \A i \in 1..(m - 1) - (j + 1) + 1 : SubSeq(s, j + 1, m - 1)[i] = s[(j + 1) + i - 1]
    <3>1. j + 1 \in 1..Len(s) + 1 /\ m - 1 \in (j + 1) - 1..Len(s)
      BY <1>1, <2>1, <2>9
    <3> QED
      BY <3>1, SubSeqIs
  <2> DEFINE w == SubSeq(s, j + 1, m - 1)
  <2>12. \A i \in 1..Len(w) : w[i] \in LetterDigit \cup {"-"}
    <3>1. Label(w) /\ w \in Seq(Chars)
      BY <2>10, <2>11
    <3> HIDE DEF w
    <3> QED
      BY <3>1 DEF Label
  <2> HIDE DEF w
  <2>13. k - j \in 1..(m - 1) - (j + 1) + 1 /\ (j + 1) + (k - j) - 1 = k
    BY <2>1, <2>9
  <2>14. w[k - j] = s[k] /\ k - j \in 1..Len(w)
    <3>1. /\ Len(w) = (m - 1) - (j + 1) + 1
          /\ \A i \in 1..(m - 1) - (j + 1) + 1 : w[i] = s[(j + 1) + i - 1]
      BY <2>11 DEF w
    <3> QED
      BY <2>13, <3>1
  <2> QED
    BY <2>12, <2>14 DEF HostChars
<1>4. s # <<>>
  <2> SUFFICES ASSUME s = <<>> PROVE FALSE
    OBVIOUS
  <2>1. Len(s) = 0 /\ dots = {}
    BY <1>1
  <2>2. Label(SubSeq(s, 0 + 1, 1 - 1))
    BY <1>2, <2>1
  <2>3. SubSeq(s, 0 + 1, 1 - 1) = <<>>
    BY SubSeqEmpty
  <2> QED
    BY <2>2, <2>3 DEF Label
<1>5. \A k \in 1..Len(s) : s[k] \in HostChars
  <2>1. "." \in HostChars
    BY DEF HostChars
  <2> QED
    BY <1>3, <2>1
<1> QED
  BY <1>4, <1>5

\* What a plain URL is made of: an authority of address characters, with a
\* first colon, or none, and digits after it.
LEMMA PlainIs ==
  ASSUME NEW u, Url(u), Plain(u)
  PROVE  LET s == Authority(u)
             h == Len(UrlHost(u))
         IN  /\ s \in Seq(Chars) /\ h \in 1..Len(s) /\ UrlHost(u) = SubSeq(s, 1, h)
             /\ \A k \in 1..h : s[k] \in HostChars /\ s[k] \in AddrChars
             /\ h < Len(s) =>
                  /\ s[h + 1] = ":" /\ UrlPort(u) = SubSeq(s, h + 2, Len(s))
                  /\ h + 2 =< Len(s)
                  /\ \A k \in h + 2..Len(s) : s[k] \in Digit
             /\ \A k \in 1..Len(s) : s[k] \in AddrChars
<1> DEFINE s == Authority(u)
           C == Chars \ {":"}
           h == Run(s, C)
           p == UrlPort(u)
<1>1. s \in Seq(Chars)
  BY AuthorityIs
<1>2. /\ h \in 0..Len(s) /\ \A k \in 1..h : s[k] \in C
      /\ h < Len(s) => s[h + 1] \notin C
  BY <1>1, RunExists
<1>3. /\ UrlHost(u) = SubSeq(s, 1, h) /\ UrlHost(u) \in Seq(Chars) /\ Len(UrlHost(u)) = h
      /\ \A k \in 1..h : UrlHost(u)[k] = s[k]
  BY <1>1, PrefixRest DEF UrlHost, Prefix
<1>4. UrlHost(u) # <<>> /\ \A k \in 1..h : UrlHost(u)[k] \in HostChars
  BY <1>3, LabelsAre DEF Plain
<1>5. \A k \in 1..h : UrlHost(u)[k] \notin Upper
  <2>1. \A k \in DOMAIN UrlHost(u) : UrlHost(u)[k] \notin Upper
    BY DEF Plain
  <2> HIDE DEF s, h
  <2>2. DOMAIN UrlHost(u) = 1..h
    BY <1>3
  <2> QED
    BY <2>1, <2>2
<1>6. UrlHost(u) # s => p = SubSeq(s, h + 2, Len(s))
  BY <1>3 DEF UrlPort
<1>7. p # <<>> /\ \A k \in DOMAIN p : p[k] \in Digit
  BY DEF Plain
<1> HIDE DEF s, C, h, p
<1>8. h \in 1..Len(s)
  <2>1. h # 0
    BY <1>3, <1>4, EmptySeq
  <2> QED
    BY <1>1, <1>2, <2>1
<1>9. \A k \in 1..h : s[k] \in HostChars /\ s[k] \in AddrChars
  BY <1>3, <1>4, <1>5 DEF HostChars, AddrChars, LetterDigit
<1>10. ASSUME h < Len(s)
       PROVE  /\ s[h + 1] = ":" /\ p = SubSeq(s, h + 2, Len(s)) /\ h + 2 =< Len(s)
              /\ \A k \in h + 2..Len(s) : s[k] \in Digit
  <2>1. s[h + 1] = ":"
    <3>1. s[h + 1] \in Chars /\ s[h + 1] \notin C
      BY <1>1, <1>2, <1>10
    <3> QED
      BY <3>1 DEF C
  <2>2. p = SubSeq(s, h + 2, Len(s))
    <3>1. UrlHost(u) # s
      BY <1>3, <1>10
    <3> QED
      BY <1>6, <3>1
  <2>3. h + 2 \in 1..Len(s) + 1 /\ Len(s) \in (h + 2) - 1..Len(s)
    BY <1>1, <1>2, <1>10
  <2>4. /\ p \in Seq(Chars) /\ Len(p) = Len(s) - (h + 2) + 1
        /\ \A k \in 1..Len(s) - (h + 2) + 1 : p[k] = s[(h + 2) + k - 1]
    BY <1>1, <2>2, <2>3, SubSeqIs
  <2>5. Len(p) # 0
    BY <1>7, <2>4, EmptySeq
  <2>6. h + 2 =< Len(s)
    BY <1>1, <1>2, <1>10, <2>4, <2>5
  <2>7. ASSUME NEW k \in h + 2..Len(s) PROVE s[k] \in Digit
    <3>1. k - h - 1 \in 1..Len(s) - (h + 2) + 1 /\ (h + 2) + (k - h - 1) - 1 = k
      BY <1>1, <1>2, <2>7
    <3>2. p[k - h - 1] = s[k] /\ k - h - 1 \in DOMAIN p
      BY <2>4, <3>1
    <3> QED
      BY <1>7, <3>2
  <2> QED
    BY <2>1, <2>2, <2>6, <2>7
<1>11. ASSUME NEW k \in 1..Len(s) PROVE s[k] \in AddrChars
  <2>1. CASE k =< h
    BY <1>8, <1>9, <2>1
  <2>2. CASE k = h + 1
    <3>1. h < Len(s)
      BY <1>1, <1>8, <2>2
    <3> QED
      BY <1>10, <2>2, <3>1, CharsAre
  <2>3. CASE h + 1 < k
    <3>1. h < Len(s) /\ k \in h + 2..Len(s)
      BY <1>1, <1>8, <2>3
    <3> QED
      BY <1>10, <3>1, CharsAre
  <2> QED
    BY <1>1, <1>8, <2>1, <2>2, <2>3
<1>12. Len(UrlHost(u)) = h
  BY <1>3
<1> HIDE DEF h
<1> QED
  BY <1>1, <1>3, <1>8, <1>9, <1>10, <1>11, <1>12 DEF s, p

\* So the first expression finds all of the authority.
LEMMA PlainFound ==
  ASSUME NEW u, Url(u), Plain(u)
  PROVE  Found(u) = Authority(u) /\ Run(u.rest, AddrChars) = Len(Authority(u)) /\ Matches(u)
<1> DEFINE s == Authority(u)
<1>1. /\ s \in Seq(Chars) /\ Len(s) \in 0..Len(u.rest) /\ u.rest \in Seq(Chars)
      /\ \A k \in 1..Len(s) : s[k] = u.rest[k]
      /\ Len(s) < Len(u.rest) => u.rest[Len(s) + 1] \notin ServerChars
  BY AuthorityIs, FoundIs
<1>2. \A k \in 1..Len(s) : s[k] \in AddrChars
  BY PlainIs
<1> HIDE DEF s
<1>3. Run(u.rest, AddrChars) = Len(s)
  <2>1. \A k \in 1..Len(s) : u.rest[k] \in AddrChars
    BY <1>1, <1>2
  <2>2. Len(s) < Len(u.rest) => u.rest[Len(s) + 1] \notin AddrChars
    BY <1>1, CharsAre
  <2> QED
    BY <1>1, <2>1, <2>2, RunIs
<1>4. /\ Found(u) \in Seq(Chars) /\ Len(Found(u)) = Len(s)
      /\ \A k \in 1..Len(s) : Found(u)[k] = u.rest[k]
  BY <1>3, FoundIs
<1>5. Found(u) = s
  <2>1. \A k \in 1..Len(s) : Found(u)[k] = s[k]
    BY <1>1, <1>4
  <2> QED
    BY <1>1, <1>4, <2>1, SeqEqual
<1>6. Matches(u)
  <2>1. Len(s) >= MinAddr /\ u.proto \in Protos
    BY DEF Plain, s
  <2> QED
    BY <1>3, <2>1 DEF Matches
<1> QED
  BY <1>3, <1>5, <1>6 DEF s

LEMMA PlainNoUser ==
  ASSUME NEW u, Url(u), Plain(u)
  PROVE  Places(Authority(u), "@") = {}
<1>1. \A k \in 1..Len(Authority(u)) : Authority(u)[k] \in AddrChars
  BY PlainIs
<1>2. "@" \notin AddrChars
  BY DEF AddrChars, Lower, Digit
<1> QED
  BY <1>1, <1>2, AuthorityIs DEF Places

\* With a port, the second parser reads the same two parts.
LEMMA PlainWithPort ==
  ASSUME NEW u, Url(u), Plain(u), Len(UrlHost(u)) < Len(Authority(u))
  PROVE  HostAndPort(Found(u)) /\ GoodServer(Authority(u))
<1> DEFINE s == Authority(u)
           h == Len(UrlHost(u))
<1>1. /\ s \in Seq(Chars) /\ h \in 1..Len(s) /\ UrlHost(u) = SubSeq(s, 1, h)
      /\ \A k \in 1..h : s[k] \in HostChars
      /\ h < Len(s)
      /\ s[h + 1] = ":" /\ UrlPort(u) = SubSeq(s, h + 2, Len(s)) /\ h + 2 =< Len(s)
      /\ \A k \in h + 2..Len(s) : s[k] \in Digit
  BY PlainIs
<1>2. Found(u) = s
  BY PlainFound
<1>3. Places(s, "@") = {}
  BY PlainNoUser
<1>4. /\ UrlPort(u) # <<>>
      /\ \A k \in DOMAIN UrlPort(u) : UrlPort(u)[k] \in Digit
  BY DEF Plain
<1>5. Labels(UrlHost(u))
  BY DEF Plain
<1> HIDE DEF s, h
<1>6. h + 1 \in Places(s, ":")
  BY <1>1 DEF Places
<1>7. LastPlace(s, ":") = h + 1
  <2> DEFINE p == LastPlace(s, ":")
  <2>1. p \in Places(s, ":") /\ \A j \in Places(s, ":") : j =< p
    BY <1>1, <1>6, LastPlaceExists
  <2>2. p \in 1..Len(s) /\ s[p] = ":" /\ h + 1 =< p
    BY <1>1, <1>6, <2>1 DEF Places
  <2> HIDE DEF p
  <2>3. ~(h + 2 =< p)
    BY <1>1, <2>2, CharsAre
  <2>4. p = h + 1
    BY <1>1, <2>2, <2>3
  <2> QED
    BY <2>4 DEF p
<1>8. HostAndPort(s)
  <2>1. (h + 1) - 1 = h /\ (h + 1) + 1 = h + 2 /\ h + 1 < Len(s)
    BY <1>1
  <2> QED
    BY <1>1, <1>5, <1>6, <1>7, <2>1 DEF HostAndPort
<1>9. HostPart(s) = s
  BY <1>3 DEF HostPart
<1>10. Run(s, HostChars) = h
  <2>1. h \in 0..Len(s) /\ s[h + 1] \notin HostChars
    BY <1>1, CharsAre
  <2> QED
    BY <1>1, <2>1, RunIs
<1>11. HostOf(s) = SubSeq(s, 1, h) /\ Len(HostOf(s)) = h /\ HostOf(s) # <<>>
  <2>1. HostOf(s) = SubSeq(s, 1, h) /\ Len(Prefix(s, HostChars)) = h
    BY <1>1, <1>9, <1>10, PrefixRest DEF HostOf, Prefix
  <2>2. Len(HostOf(s)) = h
    BY <1>9, <2>1 DEF HostOf
  <2> QED
    BY <1>1, <2>1, <2>2
<1>12. PortOf(s) = UrlPort(u)
  BY <1>1, <1>9, <1>11 DEF PortOf
<1>13. GoodServer(s)
  BY <1>1, <1>4, <1>9, <1>11, <1>12 DEF GoodServer, HasPort
<1> QED
  BY <1>2, <1>8, <1>13 DEF s

\* Without one, it reads the host and the default port.
LEMMA PlainWithout ==
  ASSUME NEW u, Url(u), Plain(u), Len(UrlHost(u)) = Len(Authority(u))
  PROVE  ~HostAndPort(Found(u)) /\ GoodServer(ServerText(u))
<1> DEFINE a == Authority(u)
           s == ServerText(u)
           n == Len(a)
           x == Added(u)
<1>1. /\ a \in Seq(Chars) /\ n \in Nat \ {0} /\ UrlHost(u) = SubSeq(a, 1, n)
      /\ \A k \in 1..n : a[k] \in HostChars
  BY PlainIs
<1>2. Found(u) = a
  BY PlainFound
<1>3. Places(a, ":") = {}
  BY <1>1, CharsAre DEF Places
<1>4. ~HostAndPort(Found(u))
  BY <1>2, <1>3 DEF HostAndPort
<1>5. UrlHost(u) = a
  BY <1>1, SubSeqFull
<1>7. /\ s \in Seq(Chars) /\ Len(s) = n + x /\ x \in Nat /\ 2 =< x
      /\ \A k \in 1..n + x : s[k] = Text(u)[k]
  BY <1>2, <1>4, ServerWithout, TextWithout
<1>8. /\ \A k \in 1..n : Text(u)[k] = u.rest[k] /\ a[k] = u.rest[k]
      /\ Text(u)[n + 1] = ":" /\ \A k \in n + 2..n + x : Text(u)[k] \in Digit
  BY <1>2, <1>4, TextWithout, FoundIs
<1>9. Places(s, "@") = {}
  BY <1>4, PlainNoUser, NoUserWithout
<1> HIDE DEF a, s, n, x
<1>10. /\ s[n + 1] = ":" /\ \A k \in n + 2..n + x : s[k] \in Digit
       /\ \A k \in 1..n : s[k] \in HostChars
  BY <1>1, <1>7, <1>8
<1>11. HostPart(s) = s
  BY <1>9 DEF HostPart
<1>12. Run(s, HostChars) = n
  <2>1. n \in 0..Len(s) /\ s[n + 1] \notin HostChars
    BY <1>1, <1>7, <1>10, CharsAre
  <2> QED
    BY <1>7, <1>10, <2>1, RunIs
<1>13. Len(HostOf(s)) = n /\ HostOf(s) # <<>>
  <2>1. Len(HostOf(s)) = n
    BY <1>7, <1>11, <1>12, PrefixRest DEF HostOf
  <2> QED
    BY <1>1, <2>1
<1>14. PortOf(s) # <<>> /\ \A k \in DOMAIN PortOf(s) : PortOf(s)[k] \in Digit
  <2> DEFINE q == SubSeq(s, n + 2, n + x)
  <2>1. PortOf(s) = q
    BY <1>7, <1>11, <1>13 DEF PortOf
  <2>2. n + 2 \in 1..Len(s) + 1 /\ n + x \in (n + 2) - 1..Len(s)
    BY <1>1, <1>7
  <2>3. /\ q \in Seq(Chars) /\ Len(q) = (n + x) - (n + 2) + 1
        /\ \A k \in 1..(n + x) - (n + 2) + 1 : q[k] = s[(n + 2) + k - 1]
    BY <1>7, <2>2, SubSeqIs
  <2> HIDE DEF q
  <2>4. (n + x) - (n + 2) + 1 = x - 1 /\ 1 =< x - 1
    BY <1>1, <1>7
  <2>5. q # <<>>
    BY <2>3, <2>4, EmptySeq
  <2>6. ASSUME NEW k \in 1..x - 1 PROVE q[k] \in Digit
    <3>1. (n + 2) + k - 1 \in n + 2..n + x
      BY <1>1, <1>7
    <3> QED
      BY <1>10, <2>3, <2>4, <3>1
  <2>7. DOMAIN q = 1..x - 1
    BY <2>3, <2>4
  <2> QED
    BY <2>1, <2>5, <2>6, <2>7
<1>15. GoodServer(s)
  BY <1>1, <1>7, <1>10, <1>11, <1>13, <1>14 DEF GoodServer, HasPort
<1> QED
  BY <1>4, <1>15 DEF s

\* strtoul() reads the port and no more of it.
LEMMA PortTextIs ==
  ASSUME NEW u, Url(u), Matches(u), Fits(u),
         GoodServer(ServerText(u)), Places(ServerText(u), "@") = {}, HasPort(ServerText(u))
  PROVE  Prefix(PortText(Elements(u)), Digit) = PortOf(ServerText(u))
<1> DEFINE s == ServerText(u)
           t == Text(u)
           w == Whole(Elements(u))
           b == Start(Elements(u))
           h == Run(s, HostChars)
           p == PortOf(s)
           m == Len(p)
           off == b + Len(s) - m
           q == SubSeq(w, off + 1, Len(w))
<1>1. /\ s \in Seq(Chars) /\ t \in Seq(Chars) /\ Len(s) =< Len(t)
      /\ \A k \in 1..Len(s) : s[k] = t[k]
  BY SplitIs, TextTyped
<1>2. /\ b \in Nat /\ w \in Seq(Chars) /\ Len(w) = b + Len(t) /\ Len(w) < FieldMod
      /\ \A k \in 1..Len(t) : w[b + k] = t[k]
  BY WholeIs DEF Fits
<1>3. Len(s) < Len(t) => t[Len(s) + 1] \notin Digit
  <2>1. s = Prefix(t, ServerChars)
    BY DEF ServerText
  <2> HIDE DEF s, t
  <2>2. Len(s) = Run(t, ServerChars)
    BY <1>1, <2>1, PrefixRest
  <2>3. Run(t, ServerChars) < Len(t) => t[Run(t, ServerChars) + 1] \notin ServerChars
    BY <1>1, RunExists
  <2> QED
    BY <2>2, <2>3, CharsAre
<1>4. /\ HostPart(s) = s /\ HostOf(s) = Prefix(s, HostChars) /\ h \in 0..Len(s)
      /\ h < Len(s) => \A k \in h + 2..Len(s) : s[k] \in Digit
  BY <1>1, HostPartIs
<1>5. Len(HostOf(s)) = h
  <2> HIDE DEF s
  <2> QED
    BY <1>1, <1>4, PrefixRest
<1>6. h < Len(s) /\ p = SubSeq(s, h + 2, Len(s))
  BY <1>4, <1>5 DEF HasPort, PortOf
<1>7. PortText(Elements(u)) = SubSeq(w, Short(off) + 1, Len(w))
  BY CutIs DEF PortText
<1> HIDE DEF s, t, w, b, h, p
<1>8. h + 2 \in 1..Len(s) + 1 /\ Len(s) \in (h + 2) - 1..Len(s)
  BY <1>1, <1>4, <1>6
<1>9. /\ p \in Seq(Chars) /\ m = Len(s) - (h + 2) + 1
      /\ \A k \in 1..Len(s) - (h + 2) + 1 : p[k] = s[(h + 2) + k - 1]
  BY <1>1, <1>6, <1>8, SubSeqIs
<1>10. m \in Nat /\ m = Len(s) - h - 1 /\ h \in Nat /\ Len(s) \in Nat /\ Len(t) \in Nat
  BY <1>1, <1>4, <1>6, <1>9
<1> HIDE DEF m
<1>11. off \in Nat /\ off + m =< Len(w) /\ off + m = b + Len(s)
  BY <1>1, <1>2, <1>10
<1>12. Short(off) = off
  <2>1. off < FieldMod
    BY <1>2, <1>10, <1>11, AddressAssumption
  <2> HIDE DEF off
  <2> QED
    BY <1>11, <2>1, AddressAssumption DEF Short
<1>13. PortText(Elements(u)) = q
  BY <1>7, <1>12
<1>14. off + 1 \in 1..Len(w) + 1 /\ Len(w) \in (off + 1) - 1..Len(w)
  BY <1>2, <1>10, <1>11
<1>15. off = b + h + 1
  BY <1>2, <1>10
<1> HIDE DEF off
<1>16. /\ q \in Seq(Chars) /\ Len(q) = Len(w) - (off + 1) + 1
       /\ \A k \in 1..Len(w) - (off + 1) + 1 : q[k] = w[(off + 1) + k - 1]
  BY <1>2, <1>14, SubSeqIs
<1> HIDE DEF q
<1>17. Len(w) - (off + 1) + 1 = Len(t) - h - 1
  BY <1>2, <1>10, <1>15
<1>18. ASSUME NEW k \in 1..Len(t) - h - 1 PROVE q[k] = t[h + 1 + k]
  <2>1. h + 1 + k \in 1..Len(t) /\ (off + 1) + k - 1 = b + (h + 1 + k)
    BY <1>2, <1>10, <1>15
  <2>2. q[k] = w[(off + 1) + k - 1]
    BY <1>16, <1>17
  <2> QED
    BY <1>2, <2>1, <2>2
<1>19. ASSUME NEW k \in 1..m PROVE q[k] = p[k] /\ q[k] \in Digit
  <2>1. k \in 1..Len(t) - h - 1 /\ h + 1 + k \in 1..Len(s) /\ h + 1 + k \in h + 2..Len(s)
    BY <1>1, <1>10
  <2>2. q[k] = t[h + 1 + k] /\ t[h + 1 + k] = s[h + 1 + k]
    BY <1>1, <1>18, <2>1
  <2>3. p[k] = s[h + 1 + k]
    <3>1. k \in 1..Len(s) - (h + 2) + 1 /\ (h + 2) + k - 1 = h + 1 + k
      BY <1>10
    <3> QED
      BY <1>9, <3>1
  <2>4. s[h + 1 + k] \in Digit
    BY <1>4, <1>6, <2>1
  <2> QED
    BY <2>2, <2>3, <2>4
<1>20. ASSUME m < Len(q) PROVE q[m + 1] \notin Digit
  <2>1. m + 1 \in 1..Len(t) - h - 1 /\ h + 1 + (m + 1) = Len(s) + 1 /\ Len(s) < Len(t)
    BY <1>1, <1>10, <1>16, <1>17, <1>20
  <2> QED
    BY <1>3, <1>18, <2>1
<1>21. Run(q, Digit) = m
  <2>1. m \in 0..Len(q)
    BY <1>1, <1>4, <1>10, <1>16, <1>17
  <2>2. \A k \in 1..m : q[k] \in Digit
    BY <1>19
  <2> QED
    BY <1>16, <1>20, <2>1, <2>2, RunIs
<1>22. Prefix(q, Digit) = p
  <2>1. /\ Prefix(q, Digit) \in Seq(Chars) /\ Len(Prefix(q, Digit)) = m
        /\ \A k \in 1..m : Prefix(q, Digit)[k] = q[k]
    BY <1>16, <1>21, PrefixRest
  <2>2. p \in Seq(Chars) /\ Len(p) = m
    BY <1>9 DEF m
  <2>3. \A k \in 1..m : Prefix(q, Digit)[k] = p[k]
    BY <1>19, <2>1
  <2> QED
    BY <2>1, <2>2, <2>3, SeqEqual
<1> QED
  BY <1>13, <1>22 DEF p, s

LEMMA PlainAccepted ==
  ASSUME NEW u, Url(u), Plain(u), Fits(u)
  PROVE  Matches(u) /\ Accepted(Elements(u))
<1> DEFINE s == ServerText(u)
<1>1. Matches(u) /\ Places(Authority(u), "@") = {}
  BY PlainFound, PlainNoUser
<1>2. GoodServer(s) /\ PortOf(s) = UrlPort(u) /\ Places(s, "@") = {}
  <2>1. Len(UrlHost(u)) \in 1..Len(Authority(u)) /\ Authority(u) \in Seq(Chars)
    BY PlainIs
  <2>2. CASE Len(UrlHost(u)) < Len(Authority(u))
    <3>1. HostAndPort(Found(u)) /\ GoodServer(Authority(u))
      BY <2>2, PlainWithPort
    <3>2. s = Authority(u)
      BY <3>1, TextWithPort, AuthorityIs DEF ServerText
    <3> QED
      BY <1>1, <3>1, <3>2, AgreedWithPort
  <2>3. CASE Len(UrlHost(u)) = Len(Authority(u))
    <3>1. ~HostAndPort(Found(u)) /\ GoodServer(s)
      BY <2>3, PlainWithout
    <3> QED
      BY <1>1, <3>1, AgreedWithout, NoUserWithout
  <2> QED
    BY <2>1, <2>2, <2>3
<1>3. Server(Elements(u)) = s /\ Cut(Elements(u)) = s
  BY <1>1, SplitIs, CutIs
<1>4. Cardinality(Places(s, "@")) =< 1
  BY <1>2, FS_EmptySet
<1>5. HasPort(s) => PortValue(Prefix(PortText(Elements(u)), Digit)) =< MaxPort
  BY <1>1, <1>2, PortTextIs DEF Plain
<1>6. Rest(u.rest, ServerChars) # <<>> => Rest(u.rest, ServerChars)[1] # "#"
  <2> SUFFICES ASSUME Rest(u.rest, ServerChars) # <<>>
               PROVE  Rest(u.rest, ServerChars)[1] # "#"
    OBVIOUS
  <2>1. Len(Rest(u.rest, ServerChars)) \in Nat \ {0}
    BY RestStarts, EmptySeq
  <2>2. Len(Authority(u)) < Len(u.rest)
    BY <2>1, RestStarts, AuthorityIs, FoundIs
  <2>3. u.rest[Len(Authority(u)) + 1] # "#"
    BY <2>2 DEF Plain
  <2> QED
    BY <2>3, RestStarts
<1>7. After(Elements(u)) = Rest(u.rest, ServerChars)
  BY SplitIs
<1> HIDE DEF s
<1> QED
  BY <1>1, <1>2, <1>3, <1>4, <1>5, <1>6, <1>7 DEF Accepted

(***************************************************************************)
(* The theorems                                                            *)
(***************************************************************************)

\* The inductive invariant: what is stored and sent is a function of the URL.
Inv ==
    /\ url \in [proto : Schemes, rest : Seq(Chars)]
    /\ refused \in BOOLEAN
    /\ el = Nothing \/ (Matches(url) /\ el = Elements(url))
    /\ sent = Nothing \/ (Matches(url) /\ Accepted(el) /\ el = Elements(url)
                             /\ sent = Requested(el))
    /\ refused => ~Matches(url) \/ ~Accepted(Elements(url))

LEMMA InitInv == Init => Inv
<1> SUFFICES ASSUME Init PROVE Inv
  OBVIOUS
<1>1. PICK p \in Schemes, n \in 0..MaxLength :
        \E r \in [1..n -> Letters] : url = [proto |-> p, rest |-> r]
  BY DEF Init
<1>2. PICK r \in [1..n -> Letters] : url = [proto |-> p, rest |-> r]
  BY <1>1
<1>3. n \in Nat /\ r \in [1..n -> Chars]
  BY AddressAssumption, <1>2
<1>4. r \in Seq(Chars)
  BY <1>3
<1>5. url \in [proto : Schemes, rest : Seq(Chars)]
  BY <1>2, <1>4
<1> QED
  BY <1>5 DEF Init, Inv

LEMMA NextInv == Inv /\ [Next]_vars => Inv'
<1> SUFFICES ASSUME Inv, [Next]_vars PROVE Inv'
  OBVIOUS
<1>1. CASE Prepare
  <2>1. url' = url /\ sent' = sent
    BY <1>1 DEF Prepare
  <2>2. CASE Matches(url)
    <3>1. el' = Elements(url) /\ (refused' <=> refused)
      BY <1>1, <2>2 DEF Prepare
    <3>2. refused' \in BOOLEAN /\ (refused' => ~Matches(url) \/ ~Accepted(Elements(url)))
      BY <1>1, <2>2 DEF Prepare, Inv
    <3>3. sent = Nothing \/ (Matches(url) /\ Accepted(el') /\ sent = Requested(el'))
      BY <3>1 DEF Inv
    <3> QED
      BY <2>1, <2>2, <3>1, <3>2, <3>3 DEF Inv
  <2>3. CASE ~Matches(url)
    <3>1. el' = el /\ refused' = TRUE
      BY <1>1, <2>3 DEF Prepare
    <3> QED
      BY <2>1, <2>3, <3>1 DEF Inv
  <2> QED
    BY <2>2, <2>3
<1>2. CASE Submit
  <2>1. url' = url /\ el' = el /\ el # Nothing
    BY <1>2 DEF Submit
  <2>2. Matches(url) /\ el = Elements(url)
    BY <2>1 DEF Inv
  <2>3. CASE Accepted(el)
    <3>1. sent' = Requested(el) /\ (refused' <=> refused)
      BY <1>2, <2>3 DEF Submit, Requested
    <3>2. refused' \in BOOLEAN /\ (refused' => ~Matches(url) \/ ~Accepted(Elements(url)))
      BY <1>2, <2>3 DEF Submit, Inv
    <3> QED
      BY <2>1, <2>2, <2>3, <3>1, <3>2 DEF Inv
  <2>4. CASE ~Accepted(el)
    <3>1. sent' = sent /\ refused' = TRUE
      BY <1>2, <2>4 DEF Submit
    <3> QED
      BY <2>1, <2>2, <2>4, <3>1 DEF Inv
  <2> QED
    BY <2>3, <2>4
<1>3. CASE UNCHANGED vars
  BY <1>3 DEF vars, Inv
<1> QED
  BY <1>1, <1>2, <1>3 DEF Next

LEMMA InvHolds == Spec => []Inv
  BY InitInv, NextInv, PTL DEF Spec

\* Every URL gives elements, and every request a path, of the right kinds of
\* characters, for URLs of any length (those whose path submit() cuts included) and
\* with a user name in them too.
THEOREM TypesKept == Spec => []TypeOK
<1>1. Inv => TypeOK
  <2> SUFFICES ASSUME Inv PROVE TypeOK
    OBVIOUS
  <2>1. Url(url)
    BY DEF Inv, Url
  <2>2. el = Nothing \/ el \in [addr : Seq(Chars), port : Seq(Digit), proto : Protos,
                                urn : Seq(Chars)]
    BY <2>1, ElementsTyped DEF Inv
  <2>3. sent = Nothing \/ sent \in [scheme : Protos, path : Seq(Chars)]
    BY <2>1, RequestedTyped DEF Inv
  <2> QED
    BY <2>2, <2>3 DEF Inv, TypeOK
<1> QED
  BY <1>1, InvHolds, PTL

\* Nothing of a URL is lost or invented between open() and fetch().
THEOREM NothingLost == Spec => []Spelled
<1>1. Inv => Spelled
  <2> SUFFICES ASSUME Inv, el # Nothing PROVE Spelled
    BY DEF Spelled
  <2>1. Url(url) /\ el = Elements(url)
    BY DEF Inv, Url
  <2>2. CASE HostAndPort(Found(url))
    BY <2>1, <2>2, TextWithPort DEF Spelled, Text, Joined
  <2>3. CASE ~HostAndPort(Found(url))
    <3> DEFINE r == Run(url.rest, AddrChars)
    <3>1. el.addr = SubSeq(url.rest, 1, r) /\ el.urn = SubSeq(url.rest, r + 1, Len(url.rest))
      BY <2>1, <2>3, ElementsAre DEF Found, Prefix, Rest
    <3>2. url.rest \in Seq(Chars) /\ r \in 0..Len(url.rest)
      BY <2>1, FoundIs, RunExists
    <3> HIDE DEF r
    <3>3. /\ 1 \in 1..Len(url.rest) + 1 /\ r \in 1 - 1..Len(url.rest)
          /\ Len(url.rest) \in r..Len(url.rest)
      BY <3>2
    <3>4. SubSeq(url.rest, 1, r) \o SubSeq(url.rest, r + 1, Len(url.rest))
            = SubSeq(url.rest, 1, Len(url.rest))
      BY <3>2, <3>3, ConcatAdjacentSubSeq
    <3>5. SubSeq(url.rest, 1, Len(url.rest)) = url.rest
      BY <3>2, SubSeqFull
    <3>6. el.addr \o el.urn = url.rest
      BY <3>1, <3>4, <3>5
    <3>7. el.port = DefaultPort(url.proto)
      BY <2>1, <2>3, ElementsAre
    <3> QED
      BY <3>6, <3>7 DEF Spelled
  <2> QED
    BY <2>2, <2>3
<1> QED
  BY <1>1, InvHolds, PTL

\* A request that leaves goes where its URL says: for every URL that stays shorter
\* than the parser's fields can count, the session's host and port are the URL's and
\* the path that submit() makes of what fetch() joined is the one the URL names.
THEOREM ParsersAgree == Spec => []SentAsAsked
<1>1. Inv => SentAsAsked
  <2> SUFFICES ASSUME Inv, sent # Nothing, Fits(url), Places(Authority(url), "@") = {}
               PROVE  /\ el.addr = UrlHost(url) /\ el.port = UrlPort(url)
                      /\ sent.scheme = url.proto
                      /\ sent.path = Target(url)
    BY DEF SentAsAsked
  <2>1. /\ Url(url) /\ Matches(url) /\ el = Elements(url) /\ Accepted(Elements(url))
        /\ sent = Requested(Elements(url))
    BY DEF Inv, Url
  <2> QED
    BY <2>1, Agreed
<1> QED
  BY <1>1, InvHolds, PTL

\* No URL of lower-case labels, with or without a path, a query and a port up to
\* the highest, is refused while it is shorter than the parser's fields can count.
THEOREM PlainUrlsPass == Spec => []PlainIsSent
<1>1. Inv => PlainIsSent
  <2> SUFFICES ASSUME Inv, Plain(url), Fits(url) PROVE ~refused
    BY DEF PlainIsSent
  <2>1. Url(url)
    BY DEF Inv, Url
  <2> QED
    BY <2>1, PlainAccepted DEF Inv
<1> QED
  BY <1>1, InvHolds, PTL
=============================================================================
