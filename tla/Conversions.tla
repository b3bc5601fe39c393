---------------------------- MODULE Conversions ----------------------------
(***************************************************************************)
(* The conversions of sessionutil.h and jsfunctions.h.  Each is a loop     *)
(* over its input, and a step of the model is a turn of the loop; encoders *)
(* are followed by their decoders.  Characters are their codes, bytes.     *)
(* With them goes the choice of a protocol (utilities.h), a loop of the    *)
(* same kind over the list a server offers.                                *)
(***************************************************************************)
EXTENDS Integers, FiniteSets, Sequences

CONSTANTS
    Jobs,       \* the functions that are called
    Letters,    \* characters of their inputs
    MaxLength,  \* bound: length of the inputs
    MaxNumber,  \* bound: numbers to print
    NameBytes,  \* bytes of the other protocols a server offers
    MaxName,    \* bound: length of their names
    MaxOffers,  \* bound: protocols that it offers
    MaxInt      \* the largest int64_t

JobNames == {"parse_uint", "utos", "percent_decode", "URIComponent", "base64", "selectH2"}
Byte == 0..255

ASSUME ConversionsAssumption ==
    /\ Jobs \subseteq JobNames /\ Letters \subseteq Byte
    /\ MaxLength \in Nat /\ MaxNumber \in Nat /\ MaxInt \in Nat
    /\ NameBytes \subseteq Byte /\ MaxName \in 0..255 /\ MaxOffers \in Nat

VARIABLES
    job,    \* the function that runs
    in,     \* its input
    i,      \* characters of the input it has read; what utos() has left to print
    out,    \* what it has written
    back,   \* what the decoder of an encoder's output has written
    num,    \* the number being read or printed; the protocol being looked for
    stage   \* "run", "scaled" (inside parse_uint's loop), "back", "done", "refused"

vars == <<job, in, i, out, back, num, stage>>

\* "h2", "h2-16" and "h2-14", the best one first.
Wanted == <<<<104, 50>>, <<104, 50, 45, 49, 54>>, <<104, 50, 45, 49, 52>>>>

\* A protocol as it stands in a list: its length, then its name.
Entry(name) == <<Len(name)>> \o name
OtherNames == UNION {[1..k -> NameBytes] : k \in 1..MaxName}
Names == OtherNames \cup {Wanted[1], Wanted[2], Wanted[3]}

\* The lists of the servers, one entry after the other.
Entries == {Entry(name) : name \in Names}
Longer(lists) == {p[1] \o p[2] : p \in lists \X Entries}
Offers ==
    LET upTo[k \in 0..MaxOffers] ==
          IF k = 0 THEN {<<>>} ELSE upTo[k - 1] \cup Longer(upTo[k - 1])
    IN  upTo[MaxOffers]

\* decode() reads the last character of its input, so there must be one.
Init ==
    /\ job \in Jobs
    /\ CASE job = "selectH2" -> in \in Offers
         [] job = "utos" -> in = <<>>
         [] OTHER -> \E k \in 0..MaxLength : in \in [1..k -> Letters]
    /\ job = "base64" => in # <<>>
    /\ CASE job = "utos" -> num \in 0..MaxNumber /\ i = num
         [] job = "selectH2" -> num = 1 /\ i = 0
         [] OTHER -> num = 0 /\ i = 0
    /\ out = <<>> /\ back = <<>>
    /\ stage = "run"

More == i < Len(in)
Next1 == in[i + 1]
End(s) == stage' = s /\ UNCHANGED <<job, in, i, out, back, num>>
-----------------------------------------------------------------------------
(* parse_uint()                                                            *)

IsDigit(c) == c \in 48..57

\* n *= 10, unless that is too large.
TooLargeToScaleLate(n) == n > (MaxInt \div 10) + 1
TooLargeToScale(n) == n > MaxInt \div 10
ParseScale ==
    /\ job = "parse_uint" /\ stage = "run"
    /\ More /\ IsDigit(Next1)
    /\ IF TooLargeToScale(num)
       THEN End("refused")
       ELSE /\ num' = num * 10 /\ stage' = "scaled"
            /\ UNCHANGED <<job, in, i, out, back>>

\* n += the digit, unless that is too large.
TooLargeToAdd(n, d) == n > MaxInt - d
ParseAdd ==
    /\ job = "parse_uint" /\ stage = "scaled"
    /\ IF TooLargeToAdd(num, Next1 - 48)
       THEN End("refused")
       ELSE /\ num' = num + (Next1 - 48) /\ i' = i + 1 /\ stage' = "run"
            /\ UNCHANGED <<job, in, out, back>>

\* Some digits and nothing else, or -1.
AllDigitsPrefix == i > 0
AllDigits == i > 0 /\ ~More
ParseEnd ==
    /\ job = "parse_uint" /\ stage = "run"
    /\ ~(More /\ IsDigit(Next1))
    /\ End(IF AllDigits THEN "done" ELSE "refused")
-----------------------------------------------------------------------------
(* utos()                                                                  *)

\* One digit, written before the others.
PrintDigitOfTen == <<48 + ((i \div 10) % 10)>>
PrintDigit == <<48 + (i % 10)>>
WriteDigit ==
    /\ job = "utos" /\ stage = "run"
    /\ i > 0 \/ out = <<>>
    /\ out' = PrintDigit \o out
    /\ i' = i \div 10
    /\ UNCHANGED <<job, in, num, back, stage>>

WriteEnd ==
    /\ job = "utos" /\ stage = "run"
    /\ i = 0 /\ out # <<>>
    /\ End("done")
-----------------------------------------------------------------------------
(* percent_decode()                                                        *)

Percent == 37
Plus == 43
Space == 32

IsHexDigit(c) == c \in 48..57 \cup 65..70 \cup 97..102
HexToUint(c) == IF c =< 57 THEN c - 48 ELSE IF c =< 90 THEN c - 65 + 10 ELSE c - 97 + 10
FromHex(h, l) == HexToUint(h) * 16 + HexToUint(l)

\* "%" and two hexadecimal digits follow the first j characters of s.
EscapeAtUnchecked(s, j) == s[j + 1] = Percent /\ j + 3 =< Len(s)
EscapeAt(s, j) ==
    /\ s[j + 1] = Percent /\ j + 3 =< Len(s)
    /\ IsHexDigit(s[j + 2]) /\ IsHexDigit(s[j + 3])

PercentDecode ==
    /\ job = "percent_decode" /\ stage = "run"
    /\ More
    /\ IF EscapeAt(in, i)
       THEN out' = Append(out, FromHex(in[i + 2], in[i + 3])) /\ i' = i + 3
       ELSE out' = Append(out, Next1) /\ i' = i + 1
    /\ UNCHANGED <<job, in, back, num, stage>>

PercentEnd == job = "percent_decode" /\ stage = "run" /\ ~More /\ End("done")
-----------------------------------------------------------------------------
(* encodeURIComponent(), decodeURIComponent()                              *)

\* Letters, digits and - _ . ! ~ * ' ( )
Unreserved == 48..57 \cup 65..90 \cup 97..122 \cup {45, 95, 46, 33, 126, 42, 39, 40, 41}

HexChar(d) == IF d =< 9 THEN d + 48 ELSE d + 97 - 10
Escape(c) == <<Percent, HexChar(c \div 16), HexChar(c % 16)>>

UnescapedPlus(c) ==
    IF c \in Unreserved \cup {Plus} THEN <<c>>
    ELSE IF c = Space THEN <<Plus>> ELSE Escape(c)
Escaped(c) ==
    IF c \in Unreserved THEN <<c>> ELSE IF c = Space THEN <<Plus>> ELSE Escape(c)

EncodeComponent ==
    /\ job = "URIComponent" /\ stage = "run"
    /\ More
    /\ out' = out \o Escaped(Next1)
    /\ i' = i + 1
    /\ UNCHANGED <<job, in, back, num, stage>>

\* The encoder's output is given to the decoder.
StartBack ==
    /\ job = "URIComponent" /\ stage = "run"
    /\ ~More
    /\ stage' = "back" /\ i' = 0
    /\ UNCHANGED <<job, in, out, back, num>>

DecodeComponent ==
    /\ job = "URIComponent" /\ stage = "back"
    /\ i < Len(out)
    /\ IF out[i + 1] = Percent
       THEN back' = Append(back, FromHex(out[i + 2], out[i + 3])) /\ i' = i + 3
       ELSE back' = Append(back, IF out[i + 1] = Plus THEN Space ELSE out[i + 1])
            /\ i' = i + 1
    /\ UNCHANGED <<job, in, out, num, stage>>

ComponentEnd == job = "URIComponent" /\ stage = "back" /\ i = Len(out) /\ End("done")
-----------------------------------------------------------------------------
(* encodeFromArray(), decode()                                             *)

Pad == 61

\* uriCharset, and the table decode() inverts it to: 0 for other characters.
Charset(v) ==
    IF v < 26 THEN v + 65 ELSE IF v < 52 THEN v + 71 ELSE IF v < 62 THEN v - 4
    ELSE IF v = 62 THEN 43 ELSE 47
Index(c) ==
    IF c \in 65..90 THEN c - 65 ELSE IF c \in 97..122 THEN c - 71
    ELSE IF c \in 48..57 THEN c + 4 ELSE IF c = 43 THEN 62 ELSE IF c = 47 THEN 63 ELSE 0

\* getVectorValue(): 0 beyond the end.
ByteAt(s, j) == IF j < Len(s) THEN s[j + 1] ELSE 0

\* Three bytes are four characters, four characters three bytes.
GroupUnmasked(a, b, c) ==
    <<Charset(a \div 4), Charset(((a % 4) * 16) + (b \div 16)),
      Charset((b % 16) * 4), Charset(c % 64)>>
Group(a, b, c) ==
    <<Charset(a \div 4), Charset(((a % 4) * 16) + (b \div 16)),
      Charset(((b % 16) * 4) + (c \div 64)), Charset(c % 64)>>
Ungroup(p, q, r, s) ==
    <<((p * 4) + (q \div 16)) % 256, ((q % 16) * 16) + (r \div 4), ((r % 4) * 64) + (s % 64)>>

EncodeGroup ==
    /\ job = "base64" /\ stage = "run"
    /\ More
    /\ out' = out \o Group(ByteAt(in, i), ByteAt(in, i + 1), ByteAt(in, i + 2))
    /\ i' = i + 3
    /\ UNCHANGED <<job, in, back, num, stage>>

\* The last characters, which stand for no byte, become "=".
Padding == (3 - (Len(in) % 3)) % 3
Padded(s) == SubSeq(s, 1, Len(s) - Padding) \o [k \in 1..Padding |-> Pad]
EncodePad ==
    /\ job = "base64" /\ stage = "run"
    /\ ~More
    /\ out' = Padded(out)
    /\ stage' = "back" /\ i' = 0
    /\ UNCHANGED <<job, in, back, num>>

DecodeGroup ==
    /\ job = "base64" /\ stage = "back"
    /\ i < Len(out)
    /\ back' = back \o Ungroup(Index(out[i + 1]), Index(out[i + 2]),
                               Index(out[i + 3]), Index(out[i + 4]))
    /\ i' = i + 4
    /\ UNCHANGED <<job, in, out, num, stage>>

\* Two bytes are taken off for "==", and none for "=".
StripNothing(s) == s
Strip(s) ==
    IF out[Len(out)] = Pad /\ out[Len(out) - 1] = Pad THEN SubSeq(s, 1, Len(s) - 2) ELSE s
DecodeStrip ==
    /\ job = "base64" /\ stage = "back"
    /\ i >= Len(out)
    /\ back' = Strip(back)
    /\ stage' = "done"
    /\ UNCHANGED <<job, in, i, out, num>>
-----------------------------------------------------------------------------
(* selectH2(): selectProto() for each wanted protocol in turn              *)

\* The rest of the list is as long as the entry, and begins with it.
Fits(entry) == i + Len(entry) =< Len(in)
Here(entry) == SubSeq(in, i + 1, i + Len(entry)) = entry

Select ==
    /\ job = "selectH2" /\ stage = "run"
    /\ Fits(Entry(Wanted[num])) /\ Here(Entry(Wanted[num]))
    /\ out' = SubSeq(in, i + 2, i + 1 + Next1)
    /\ stage' = "done"
    /\ UNCHANGED <<job, in, i, back, num>>

\* p += *p + 1
SkipByte == i + 1
SkipEntry == i + Next1 + 1
SelectNext ==
    /\ job = "selectH2" /\ stage = "run"
    /\ Fits(Entry(Wanted[num])) /\ ~Here(Entry(Wanted[num]))
    /\ i' = SkipEntry
    /\ UNCHANGED <<job, in, out, back, num, stage>>

\* At the end of the list: the next wanted protocol, or none.
SelectOther ==
    /\ job = "selectH2" /\ stage = "run"
    /\ ~Fits(Entry(Wanted[num]))
    /\ IF num < Len(Wanted)
       THEN num' = num + 1 /\ i' = 0 /\ UNCHANGED stage
       ELSE stage' = "refused" /\ UNCHANGED <<num, i>>
    /\ UNCHANGED <<job, in, out, back>>
-----------------------------------------------------------------------------
Next ==
    \/ ParseScale \/ ParseAdd \/ ParseEnd
    \/ WriteDigit \/ WriteEnd
    \/ PercentDecode \/ PercentEnd
    \/ EncodeComponent \/ StartBack \/ DecodeComponent \/ ComponentEnd
    \/ EncodeGroup \/ EncodePad \/ DecodeGroup \/ DecodeStrip
    \/ Select \/ SelectNext \/ SelectOther

Spec == Init /\ [][Next]_vars
-----------------------------------------------------------------------------
TypeOK ==
    /\ job \in JobNames
    /\ in \in Seq(Byte) /\ out \in Seq(Byte) /\ back \in Seq(Byte)
    /\ i \in Nat /\ num \in Nat
    /\ stage \in {"run", "scaled", "back", "done", "refused"}

\* parse_uint() never computes a number that an int64_t cannot hold, however
\* long its input: n *= 10 and n += digit are undefined beyond.
NoOverflow == job = "parse_uint" => num =< MaxInt

\* What the first digits of s say when they follow the number n, for each
\* number of them; and what a sequence of decimal digits says.
Values(n, s) ==
    LET v[k \in 0..Len(s)] == IF k = 0 THEN n ELSE v[k - 1] * 10 + (s[k] - 48)
    IN  v
Value(s) == Values(0, s)[Len(s)]

\* parse_uint() takes exactly the sequences of digits that an int64_t can hold,
\* and returns what they say.
Readable(s) == s # <<>> /\ (\A k \in DOMAIN s : IsDigit(s[k])) /\ Value(s) =< MaxInt
ParsedExactly ==
    /\ job = "parse_uint" /\ stage = "done" => Readable(in) /\ num = Value(in)
    /\ job = "parse_uint" /\ stage = "refused" => ~Readable(in)

\* utos() writes the digits of its number, with no zero before them.
PrintedExactly ==
    job = "utos" /\ stage = "done" =>
        /\ Value(out) = num
        /\ out[1] = 48 => Len(out) = 1

\* percent_decode() replaces each "%" that two hexadecimal digits follow, and
\* them, by one byte, and keeps every other character, a lone "%" at the end too.
Inside(k) == (k > 1 /\ EscapeAt(in, k - 2)) \/ (k > 2 /\ EscapeAt(in, k - 3))
Kept == {k \in DOMAIN in : ~Inside(k)}
PercentDecoded ==
    job = "percent_decode" /\ stage = "done" =>
        /\ Len(out) = Cardinality(Kept)
        /\ \A k \in Kept :
             out[Cardinality({j \in Kept : j =< k})] =
                 IF EscapeAt(in, k - 1) THEN FromHex(in[k + 1], in[k + 2]) ELSE in[k]

\* decodeURIComponent() undoes encodeURIComponent(), for every string.
ComponentReturns == job = "URIComponent" /\ stage = "done" => back = in

\* selectH2() takes the best protocol of HTTP/2 that the server offers, and none
\* if it offers none, whatever bytes its other names are made of.
Following(list, S) == {j + list[j + 1] + 1 : j \in S}
EntryStarts(list) ==
    LET upTo[k \in 0..Len(list)] ==
          IF k = 0 THEN {0} ELSE upTo[k - 1] \cup ({k} \cap Following(list, upTo[k - 1]))
    IN  upTo[Len(list)]
OfferedIn(name, list) ==
    \E k \in EntryStarts(list) :
        k + Len(name) < Len(list) /\ SubSeq(list, k + 1, k + 1 + Len(name)) = Entry(name)
BestIsChosen ==
    /\ job = "selectH2" /\ stage = "done" =>
         /\ out = Wanted[num] /\ OfferedIn(out, in)
         /\ \A k \in 1..num - 1 : ~OfferedIn(Wanted[k], in)
    /\ job = "selectH2" /\ stage = "refused" =>
         \A k \in DOMAIN Wanted : ~OfferedIn(Wanted[k], in)

\* Base64 as RFC 4648 has it: character p says bits 6p to 6p + 5 of the bytes,
\* zeros after the last, and "=" fills the last group of four.
Weight == <<128, 64, 32, 16, 8, 4, 2, 1>>
Bit(b) == (ByteAt(in, b \div 8) \div Weight[(b % 8) + 1]) % 2
Sextet(p) ==
    32 * Bit(6 * p) + 16 * Bit(6 * p + 1) + 8 * Bit(6 * p + 2) + 4 * Bit(6 * p + 3)
        + 2 * Bit(6 * p + 4) + Bit(6 * p + 5)
Base64Standard ==
    job = "base64" /\ stage \in {"back", "done"} =>
        /\ Len(out) = 4 * ((Len(in) + 2) \div 3)
        /\ \A p \in 0..Len(out) - 1 :
             out[p + 1] = IF 6 * p < 8 * Len(in) THEN Charset(Sextet(p)) ELSE Pad

\* decode() undoes encodeFromArray(): every byte comes back in its place.  Where
\* the text ends in one "=", the byte that stands for may be left, a zero, after
\* them (see Base64Exact).
Base64Returns ==
    job = "base64" /\ stage = "done" =>
        \/ back = in
        \/ Len(in) % 3 = 2 /\ back = in \o <<0>>

\* jsfunctions.h:258, the padding that is taken off: one byte for each "=".
Base64Exact == job = "base64" /\ stage = "done" => back = in
=============================================================================
