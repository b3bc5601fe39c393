------------------------------ MODULE Address ------------------------------
(***************************************************************************)
(* What becomes of the URL given to open(): proccessUri() splits it with   *)
(* two regular expressions, the session connects to the address and port   *)
(* it found, fetch() puts the pieces together again, and submit() takes    *)
(* that apart with a second parser (url_parser.cpp) for the request's      *)
(* :scheme and :path.                                                      *)
(*                                                                         *)
(* A URL is the letters before "://" and the sequence of characters after  *)
(* it; a character stands for its class.                                   *)
(***************************************************************************)
EXTENDS Naturals, Sequences, FiniteSets

CONSTANTS
    Schemes,    \* what stands before "://" in the URLs given to open()
    Letters,    \* the characters after it
    MaxLength,  \* bound: how many of them
    MinAddr,    \* least length of an address (3 in the code)
    FieldMod,   \* http_parser keeps offsets and lengths modulo this (2^16 in the code)
    MaxPort     \* the highest port it takes (65535 in the code)

\* A lower-case letter, an upper-case one, the digits, "%" for every other
\* character of a user name or a path, and the characters that mean something.
Lower == {"a"}
Upper == {"A"}
Digit == {"0", "1", "2", "3", "4", "5", "6", "7", "8", "9"}
Mark == {".", "-", ":", "/", "?", "#", "@", "%"}
Chars == Lower \cup Upper \cup Digit \cup Mark

\* [https]{4,5} takes any four or five of these letters.
Protos == {"http", "https", "tptp"}
SchemeLength == [http |-> 4, https |-> 5, tptp |-> 4]

ASSUME AddressAssumption ==
    /\ Letters \subseteq Chars
    /\ MaxLength \in Nat /\ MinAddr \in Nat \ {0}
    /\ FieldMod \in Nat /\ FieldMod > 8   \* "https://"
    /\ MaxPort \in Nat

VARIABLES
    url,     \* what open() was given
    el,      \* Impl's addr, port, proto and urn, once open() has set them
    sent,    \* what submit() put into the request: scheme and path
    refused  \* open() or submit() has refused the URL

vars == <<url, el, sent, refused>>

Nothing == [none |-> TRUE]

Init ==
    /\ \E p \in Schemes, n \in 0..MaxLength :
         \E r \in [1..n -> Letters] : url = [proto |-> p, rest |-> r]
    /\ el = Nothing /\ sent = Nothing
    /\ refused = FALSE
-----------------------------------------------------------------------------
\* The longest prefix of s whose characters are all in C, and what follows it.
Run(s, C) ==
    CHOOSE n \in 0..Len(s) :
        /\ \A k \in 1..n : s[k] \in C
        /\ n < Len(s) => s[n + 1] \notin C
Prefix(s, C) == SubSeq(s, 1, Run(s, C))
Rest(s, C) == SubSeq(s, Run(s, C) + 1, Len(s))

Places(s, c) == {k \in DOMAIN s : s[k] = c}
LastPlace(s, c) == CHOOSE k \in Places(s, c) : \A j \in Places(s, c) : j =< k

LetterDigit == Lower \cup Upper \cup Digit

\* A label: letters, digits and, inside, hyphens.
Label(s) ==
    /\ s # <<>>
    /\ \A k \in DOMAIN s : s[k] \in LetterDigit \cup {"-"}
    /\ s[1] # "-" /\ s[Len(s)] # "-"

\* Labels with a dot between each two.
Labels(s) ==
    \A j, k \in {0, Len(s) + 1} \cup Places(s, ".") :
        (j < k /\ \A i \in Places(s, ".") : i =< j \/ k =< i)
            => Label(SubSeq(s, j + 1, k - 1))

\* checkHostPort, a whole match: labels, a colon, digits.
HostAndPort(s) ==
    /\ Places(s, ":") # {}
    /\ LET p == LastPlace(s, ":")
       IN  /\ Labels(SubSeq(s, 1, p - 1))
           /\ p < Len(s)
           /\ \A k \in p + 1..Len(s) : s[k] \in Digit

AddrCharsNoHyphen == Lower \cup Digit \cup {".", ":"}
AddrChars == Lower \cup Digit \cup {".", ":", "-"}

DefaultPortOfTls(proto) == <<"4", "4", "3">>
DefaultPort(proto) == IF proto = "https" THEN <<"4", "4", "3">> ELSE <<"8", "0">>

\* substr() and erase() around the last colon, at p.
AfterColonAndIt(a, p) == SubSeq(a, p, Len(a))
AfterColon(a, p) == SubSeq(a, p + 1, Len(a))
BeforeColonLess(a, p) == SubSeq(a, 1, p - 2)
BeforeColon(a, p) == SubSeq(a, 1, p - 1)

\* proccessUri() on a URL that its first expression matches.
Elements(u) ==
    LET a == Prefix(u.rest, AddrChars)
        p == LastPlace(a, ":")
    IN  [addr |-> IF HostAndPort(a) THEN BeforeColon(a, p) ELSE a,
         port |-> IF HostAndPort(a) THEN AfterColon(a, p) ELSE DefaultPort(u.proto),
         proto |-> u.proto,
         urn |-> Rest(u.rest, AddrChars)]

Matches(u) == u.proto \in Protos /\ Run(u.rest, AddrChars) >= MinAddr

\* open() -> prepare(): the elements are stored, or nothing is.
Prepare ==
    /\ el = Nothing /\ ~refused
    /\ IF Matches(url)
       THEN el' = Elements(url) /\ UNCHANGED refused
       ELSE refused' = TRUE /\ UNCHANGED el
    /\ UNCHANGED <<url, sent>>
-----------------------------------------------------------------------------
(* submit() and the parser it calls                                        *)

\* fetch(): proto + "://" + addr + ":" + port + urn.
Joined(e) == e.addr \o <<":">> \o e.port \o e.urn
Start(e) == SchemeLength[e.proto] + 3
Whole(e) == [k \in 1..SchemeLength[e.proto] |-> "a"] \o <<":", "/", "/">> \o Joined(e)

\* What copy_url_component() and http_parse_host() take of it for a field of n
\* characters, off characters from its start: both are kept as uint16_t.
Short(n) == n % FieldMod
Field(text, off, n) == SubSeq(text, Short(off) + 1, Short(off) + Short(n))

\* parse_url_char() as far as the path or the query: what may stand there.
ServerChars == Chars \ {"/", "?", "#"}
HostChars == LetterDigit \cup {".", "-"}

Server(e) == Prefix(Joined(e), ServerChars)
After(e) == Rest(Joined(e), ServerChars)
Cut(e) == Field(Whole(e), Start(e), Len(Server(e)))

\* http_parse_host(): a user name before "@", which is skipped, a host, a port.
HostPart(server) ==
    IF Places(server, "@") = {}
    THEN server
    ELSE SubSeq(server, LastPlace(server, "@") + 1, Len(server))
HostOf(server) == Prefix(HostPart(server), HostChars)
HasPort(server) == Len(HostOf(server)) < Len(HostPart(server))
PortOf(server) == SubSeq(HostPart(server), Len(HostOf(server)) + 2, Len(HostPart(server)))

GoodServer(server) ==
    /\ HostOf(server) # <<>>
    /\ HasPort(server) => /\ HostPart(server)[Len(HostOf(server)) + 1] = ":"
                          /\ PortOf(server) # <<>>
                          /\ \A k \in DOMAIN PortOf(server) : PortOf(server)[k] \in Digit

\* strtoul(): the number of the digits that the port's offset points at.
Numerals == <<"0", "1", "2", "3", "4", "5", "6", "7", "8", "9">>
DigitValue(d) == CHOOSE n \in 0..9 : Numerals[n + 1] = d
PortValue(s) ==
    LET v[n \in 0..Len(s)] == IF n = 0 THEN 0 ELSE 10 * v[n - 1] + DigitValue(s[n])
    IN  v[Len(s)]
PortText(e) ==
    LET off == Start(e) + Len(Cut(e)) - Len(PortOf(Cut(e)))
    IN  SubSeq(Whole(e), Short(off) + 1, Len(Whole(e)))

\* Two "@" are an error, and one that is not in what http_parse_host() reads; a
\* "#" straight after the server is another (after a path or a query what follows
\* it is left out), and so is a port above the highest.
Accepted(e) ==
    /\ Cardinality(Places(Server(e), "@")) =< 1
    /\ Places(Server(e), "@") # {} => Places(Cut(e), "@") # {}
    /\ GoodServer(Cut(e))
    /\ HasPort(Cut(e)) => PortValue(Prefix(PortText(e), Digit)) =< MaxPort
    /\ After(e) # <<>> => After(e)[1] # "#"

\* What the parser counts as path and query in what follows the server ...
PathRun(after) == IF after = <<>> \/ after[1] # "/" THEN <<>> ELSE Prefix(after, Chars \ {"?", "#"})
QueryRun(after) ==
    LET q == SubSeq(after, Len(PathRun(after)) + 1, Len(after))
    IN  IF q = <<>> \/ q[1] # "?" THEN <<>> ELSE Prefix(Tail(q), Chars \ {"#"})

\* ... and what submit() copies of them.
PathOf(e) == Field(Whole(e), Start(e) + Len(Server(e)), Len(PathRun(After(e))))
QueryOf(e) ==
    Field(Whole(e), Start(e) + Len(Server(e)) + Len(PathRun(After(e))) + 1,
          Len(QueryRun(After(e))))

\* submit(): "/" for an empty path, then "?" and the query, if there is one.
FullPath(e) ==
    (IF PathOf(e) = <<>> THEN <<"/">> ELSE PathOf(e))
        \o (IF QueryRun(After(e)) = <<>> THEN <<>> ELSE <<"?">> \o QueryOf(e))

\* The host and the port leave neither here nor in :authority, which is
\* commented out: they only decide whether the URL is taken.
Submit ==
    /\ el # Nothing /\ sent = Nothing /\ ~refused
    /\ IF Accepted(el)
       THEN sent' = [scheme |-> el.proto, path |-> FullPath(el)] /\ UNCHANGED refused
       ELSE refused' = TRUE /\ UNCHANGED sent
    /\ UNCHANGED <<url, el>>
-----------------------------------------------------------------------------
Next == Prepare \/ Submit

Spec == Init /\ [][Next]_vars
-----------------------------------------------------------------------------
(* What a URL means, read the other way round: the authority ends at the   *)
(* first "/", "?" or "#", its port follows its first ":".                  *)

Authority(u) == Prefix(u.rest, Chars \ {"/", "?", "#"})
UrlHost(u) == Prefix(Authority(u), Chars \ {":"})
UrlPort(u) ==
    IF UrlHost(u) = Authority(u)
    THEN IF u.proto = "https" THEN <<"4", "4", "3">> ELSE <<"8", "0">>
    ELSE SubSeq(Authority(u), Len(UrlHost(u)) + 2, Len(Authority(u)))

\* The path and query, up to "#"; an empty path is "/" and an empty query none.
Target(u) ==
    LET after == SubSeq(u.rest, Len(Authority(u)) + 1, Len(u.rest))
        t == Prefix(after, Chars \ {"#"})
        q == IF t # <<>> /\ Run(t, Chars \ {"?"}) = Len(t) - 1
             THEN Prefix(t, Chars \ {"?"}) ELSE t
    IN  IF q = <<>> \/ q[1] # "/" THEN <<"/">> \o q ELSE q

TypeOK ==
    /\ url \in [proto : Schemes, rest : Seq(Chars)]
    /\ refused \in BOOLEAN
    /\ el = Nothing
       \/ el \in [addr : Seq(Chars), port : Seq(Digit), proto : Protos, urn : Seq(Chars)]
    /\ sent = Nothing
       \/ sent \in [scheme : Protos, path : Seq(Chars)]

\* What fetch() makes of the URL is short enough for the fields of http_parser.
Fits(u) == Len(Whole(Elements(u))) < FieldMod

\* The session connects to the server the URL names, and a request that leaves
\* asks it for the path the URL names: where the two parsers and the reassembly
\* between them read a URL differently, nothing is sent.  (With a user name in the
\* URL they disagree, and past 65535 characters submit() cuts the path.)
SentAsAsked ==
    (sent # Nothing /\ Fits(url) /\ Places(Authority(url), "@") = {})
        => /\ el.addr = UrlHost(url) /\ el.port = UrlPort(url)
           /\ sent.scheme = url.proto
           /\ sent.path = Target(url)

\* url_parser.h:57-58, a field's `off' and `len' are the "Offset into buffer in
\* which field starts" and the "Length of run in buffer": of long URLs too.
SentWhole ==
    (sent # Nothing /\ Places(Authority(url), "@") = {}) => sent.path = Target(url)

\* A URL made of lower-case labels and, maybe, a port up to the highest, a path
\* and a query is not refused, if its host and port are long enough and it fits.
Plain(u) ==
    /\ u.proto \in Protos
    /\ Labels(UrlHost(u)) /\ \A k \in DOMAIN UrlHost(u) : UrlHost(u)[k] \notin Upper
    /\ UrlPort(u) # <<>> /\ \A k \in DOMAIN UrlPort(u) : UrlPort(u)[k] \in Digit
    /\ PortValue(UrlPort(u)) =< MaxPort
    /\ Len(Authority(u)) >= MinAddr
    /\ Len(Authority(u)) < Len(u.rest) => u.rest[Len(Authority(u)) + 1] # "#"
PlainIsSent == (Plain(url) /\ Fits(url)) => ~refused

\* Nothing of the URL is lost or invented on the way to fetch(): the elements
\* spell it, with the port where the URL has one and the default one where not.
Spelled ==
    el # Nothing =>
        \/ el.addr \o el.urn = url.rest /\ el.port = DefaultPort(url.proto)
        \/ el.addr \o <<":">> \o el.port \o el.urn = url.rest
=============================================================================
