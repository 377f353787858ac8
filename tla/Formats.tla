------------------------------ MODULE Formats ------------------------------
(***************************************************************************)
(* The conversions of the program, as operators on one input each: the     *)
(* pairing URL (pairing.rs, pairing_window.rs, client.rs), the TXT record  *)
(* (discovery.rs), payload maps (cbor.rs), the emoji of a digest           *)
(* (crypto.rs) and the text of a toast (toast.rs).                         *)
(*                                                                         *)
(* The text of a toast is a sequence of characters, the name of an entity  *)
(* ("amp;") counting as one.  The text of a URL is a sequence of the bytes *)
(* of its UTF-8 and of words: a word, a number above 255, stands for a run *)
(* of unreserved characters that the code does not look into.  The state   *)
(* is the input, chosen once.                                              *)
(***************************************************************************)
EXTENDS Integers, Sequences, FiniteSets, SequencesExt

CONSTANTS
  MaxNameBytes,  \* MAX_NAME_BYTES
  ToastChars,    \* TOAST_PREVIEW_CHARS
  SasBits,       \* bits of a digest that one emoji stands for
  SasSpare,      \* bits of a digest that no emoji stands for
  NoXml,         \* characters that XML 1.0 forbids, as U+000C
  Inputs         \* bound: inputs, records whose field "of" names the conversion

(* Digests have as many bits as four emoji and the spare ones take. *)
DigestBits == 4 * SasBits + SasSpare
Pow2[i \in 0..DigestBits] == IF i = 0 THEN 1 ELSE 2 * Pow2[i - 1]
Digests == 0..(Pow2[DigestBits] - 1)

BadTxtIds == {"not hex", "short"}

(* The bytes of a URL the code names, and the words of a pairing URL. *)
Space == 32
Hash == 35
Percent == 37
Amp == 38
Plus == 43
Comma == 44
Slash == 47
One == 49
Colon == 58
Equals == 61
Question == 63
Open == 91
Close == 93

Word == [v |-> 256, id |-> 257, pk |-> 258, nm |-> 259, hosts |-> 260, tok |-> 261,
         airclip |-> 262, pair |-> 263, port |-> 264, pk1 |-> 265, pk2 |-> 266,
         id1 |-> 267, id2 |-> 268, token |-> 269, malformed |-> 270, other |-> 271]

Byte == 0..255

(* The characters that have a meaning of their own in a toast's XML. *)
Special == {"&", "<", ">", "\"", "'"}

ASSUME FormatsAssumption ==
  /\ MaxNameBytes \in Nat /\ ToastChars \in Nat
  /\ SasBits \in Nat \ {0} /\ SasSpare \in Nat
  /\ NoXml \subseteq STRING
  /\ NoXml \cap (Special \cup {"\n", "\r", " ", "...", "amp;", "lt;", "gt;", "quot;", "apos;"}) = {}
  /\ {[of |-> "nothing"], [of |-> "limiter"]} \cap Inputs = {}
  /\ \A x \in Inputs :
       /\ x.of \in {"name", "txt"} => x.name \in Seq(Nat \ {0})
       /\ x.of = "txt" => /\ x.id \in STRING \ {"none"}
                          /\ x.extra[1] # "new" => x.extra[1] = "id" /\ x.extra[2] \in BadTxtIds
                          /\ x.order \in [1..4 -> 1..4] /\ \A j \in 1..4 : \E i \in 1..4 : x.order[i] = j
       /\ x.of = "qr" => /\ x.name \in Seq(Byte) /\ x.pk \in {Word.pk1, Word.pk2}
                         /\ x.ifaces \in Seq([ip : Seq(Nat \ {Comma}), kind : STRING])
       /\ x.of = "map" => x.pairs \in Seq(Int \X STRING)
       /\ x.of = "digest" => x.digest \in Digests
       /\ x.of = "text" => x.text \in Seq(STRING)

VARIABLE in

NoInput == [of |-> "nothing"]
FormatsInit == in \in Inputs \cup {NoInput}
FormatsSpec == FormatsInit /\ [][FALSE]_in

Failed == [ok |-> FALSE]
Ok(v) == [ok |-> TRUE, val |-> v]

-----------------------------------------------------------------------------
(* Texts. *)

(* The elements of s that are in K, in their order. *)
Keep(s, K) ==
  LET kept[i \in 0..Len(s)] ==
        IF i = 0 THEN <<>> ELSE IF s[i] \in K THEN Append(kept[i - 1], s[i]) ELSE kept[i - 1]
  IN kept[Len(s)]

(* str::split: the parts that have ended and the last one. *)
SplitAt(r, c, x) ==
  IF x = c THEN [parts |-> Append(r.parts, r.last), last |-> <<>>]
  ELSE [parts |-> r.parts, last |-> Append(r.last, x)]

SplitScan(s, c) ==
  LET at[i \in 0..Len(s)] ==
        IF i = 0 THEN [parts |-> <<>>, last |-> <<>>] ELSE SplitAt(at[i - 1], c, s[i])
  IN at[Len(s)]

Split(s, c) == Append(SplitScan(s, c).parts, SplitScan(s, c).last)

(* slice::join. *)
Joined(parts, c) ==
  LET out[i \in 0..Len(parts)] ==
        IF i = 0 THEN <<>> ELSE IF i = 1 THEN parts[1] ELSE (out[i - 1] \o <<c>>) \o parts[i]
  IN out
Join(parts, c) == Joined(parts, c)[Len(parts)]

(* The value of the last of several pairs with one key. *)
LastOf(pairs, k, none) ==
  LET at == {i \in DOMAIN pairs : pairs[i][1] = k}
  IN IF at = {} THEN none ELSE pairs[CHOOSE i \in at : \A j \in at : j <= i][2]

-----------------------------------------------------------------------------
(* truncate_name: a name is the sequence of its characters' widths.        *)

Widths(name) ==
  LET w[k \in 0..Len(name)] == IF k = 0 THEN 0 ELSE w[k - 1] + name[k] IN w
NameBytes(name) == Widths(name)[Len(name)]

IsCharBoundary(name, n) == \E k \in 0..Len(name) : Widths(name)[k] = n

FirstBytes(name, n) == SubSeq(name, 1, CHOOSE k \in 0..Len(name) : Widths(name)[k] = n)

(* Where the search for a boundary ends that starts at n. *)
Ends(name) ==
  LET end[n \in 0..MaxNameBytes] == IF n > 0 /\ ~IsCharBoundary(name, n) THEN end[n - 1] ELSE n
  IN end

TruncateName(name) ==
  IF NameBytes(name) <= MaxNameBytes THEN name ELSE FirstBytes(name, Ends(name)[MaxNameBytes])

(* A TXT record; its id is an identifier or a text that is none. *)
TxtPairs(id, name) == << <<"v", "1">>, <<"id", id>>, <<"nm", TruncateName(name)>> >>

(* TxtRecord::parse: a malformed id fails at once, wherever it stands.     *)
TxtParse(pairs) ==
  IF \/ \E i \in DOMAIN pairs : pairs[i][1] = "id" /\ pairs[i][2] \in BadTxtIds
     \/ LastOf(pairs, "v", "none") # "1"
     \/ LastOf(pairs, "id", "none") = "none"
  THEN Failed
  ELSE Ok([id |-> LastOf(pairs, "id", "none"), name |-> LastOf(pairs, "nm", <<>>)])

(* hint_from_resolved. *)
HintFrom(pairs, addrs) ==
  IF ~TxtParse(pairs).ok \/ addrs = <<>> THEN Failed
  ELSE Ok([id |-> TxtParse(pairs).val.id, name |-> TxtParse(pairs).val.name, addrs |-> addrs])

-----------------------------------------------------------------------------
(* The pairing URL. *)

(* urlencode: every byte but 66 becomes "%" and two hexadecimal digits.    *)
Unreserved == (48..57) \cup (65..90) \cup (97..122) \cup {45, 46, 95, 126}
Reserved == Byte \ Unreserved

HexDigit(n) == IF n < 10 THEN 48 + n ELSE 55 + n

Percented_KeepsHash(c) ==  \* mutant: "#" stays as it is
  IF c \in Reserved \ {Hash} THEN <<Percent, HexDigit(c \div 16), HexDigit(c % 16)>> ELSE <<c>>
Percented(c) ==
  IF c \in Reserved THEN <<Percent, HexDigit(c \div 16), HexDigit(c % 16)>> ELSE <<c>>

UrlEncode(s) ==
  LET out[i \in 0..Len(s)] == IF i = 0 THEN <<>> ELSE out[i - 1] \o Percented(s[i])
  IN out[Len(s)]

(* query_pairs of the url crate: "+" is a space, "%" and two hexadecimal   *)
(* digits a byte, and a "%" before anything else is itself.                *)
HexDigits == (48..57) \cup (65..70) \cup (97..102)
HexValue(c) == IF c < 65 THEN c - 48 ELSE IF c < 97 THEN c - 55 ELSE c - 87

Pending(r) ==
  CASE r.at = "text" -> r.val
    [] r.at = "percent" -> Append(r.val, Percent)
    [] r.at = "digit" -> Append(Append(r.val, Percent), r.high)

DecodeChar(r, c) ==
  CASE r.at = "percent" /\ c \in HexDigits -> [at |-> "digit", high |-> c, val |-> r.val]
    [] r.at = "digit" /\ c \in HexDigits ->
         [at |-> "text", high |-> 0, val |-> Append(r.val, 16 * HexValue(r.high) + HexValue(c))]
    [] (r.at = "text" \/ c \notin HexDigits) /\ c = Percent ->
         [at |-> "percent", high |-> 0, val |-> Pending(r)]
    [] OTHER -> [at |-> "text", high |-> 0, val |-> Append(Pending(r), IF c = Plus THEN Space ELSE c)]

UrlScan(s) ==
  LET after[i \in 0..Len(s)] ==
        IF i = 0 THEN [at |-> "text", high |-> 0, val |-> <<>>] ELSE DecodeChar(after[i - 1], s[i])
  IN after[Len(s)]

UrlDecode(s) == Pending(UrlScan(s))

(* What stands before and after the first character of C; all and nothing  *)
(* where there is none.                                                    *)
First(s, C) ==
  LET at == {i \in DOMAIN s : s[i] \in C} \cup {Len(s) + 1} IN CHOOSE i \in at : \A j \in at : i <= j
Before(s, C) == SubSeq(s, 1, First(s, C) - 1)
After(s, C) == SubSeq(s, First(s, C) + 1, Len(s))

PairOf(p) == <<UrlDecode(Before(p, {Equals})), UrlDecode(After(p, {Equals}))>>

QueryPairs(s) == LET parts == Split(s, Amp) IN [i \in DOMAIN parts |-> PairOf(parts[i])]

(* Url::parse: a scheme, the host of an authority, and a query that ends   *)
(* where a fragment begins.                                                *)
HasScheme(u) == Colon \in Range(u) /\ Before(u, {Colon}) # <<>>
HostPart(u) ==
  LET rest == After(u, {Colon})
  IN IF SubSeq(rest, 1, 2) = <<Slash, Slash>>
     THEN Before(SubSeq(rest, 3, Len(rest)), {Slash, Question, Hash}) ELSE <<>>
QueryPart(u) == After(Before(u, {Hash}), {Question})

(* An interface is [ip, kind]; is_loopback, is_link_local and the version  *)
(* of its address are its kind.  An IPv6 host is written in brackets.      *)
HostOf(iface, port) ==
  IF iface.kind = "v6" THEN (<<Open>> \o iface.ip) \o <<Close, Colon, port>>
  ELSE iface.ip \o <<Colon, port>>

OfKind(ifaces, kind) == Keep(ifaces, {f \in Range(ifaces) : f.kind = kind})

LocalHosts(ifaces, port) ==
  LET all == OfKind(ifaces, "v4") \o OfKind(ifaces, "v6")
  IN [i \in DOMAIN all |-> HostOf(all[i], port)]

(* The fields of a QrPayload that are one word have no reserved character. *)
Query(q) ==
  Join(<< <<Word.v, Equals, q.version>>, <<Word.id, Equals, q.id>>, <<Word.pk, Equals, q.pk>>,
          <<Word.nm, Equals>> \o UrlEncode(q.name),
          <<Word.hosts, Equals>> \o UrlEncode(Join(q.hosts, Comma)),
          <<Word.tok, Equals, q.tok>> >>, Amp)

Url(scheme, host, query) == <<scheme, Colon, Slash, Slash, host, Question>> \o query
ToUrl(q) == Url(Word.airclip, Word.pair, Query(q))

DeviceIdOf(pk) == IF pk = Word.pk1 THEN Word.id1 ELSE Word.id2

NotEmpty(parts) == Keep(parts, Range(parts) \ {<<>>})

QrParse(u) ==
  LET pairs == QueryPairs(QueryPart(u))
      field(k) == LastOf(pairs, <<k>>, <<>>)
  IN IF \/ ~HasScheme(u) \/ Before(u, {Colon}) # <<Word.airclip>> \/ HostPart(u) # <<Word.pair>>
        \/ \E i \in DOMAIN pairs : pairs[i][1] \in {<<Word.id>>, <<Word.pk>>, <<Word.tok>>}
                                    /\ pairs[i][2] = <<Word.malformed>>
        \/ field(Word.v) # <<One>>
        \/ field(Word.id) = <<>> \/ field(Word.pk) = <<>> \/ field(Word.tok) = <<>>
        \/ DeviceIdOf(field(Word.pk)[1]) # field(Word.id)[1]
     THEN Failed
     ELSE Ok([version |-> One, id |-> field(Word.id)[1], pk |-> field(Word.pk)[1],
              name |-> field(Word.nm), tok |-> field(Word.tok)[1],
              hosts |-> NotEmpty(Split(field(Word.hosts), Comma))])

(* resolve_hosts: a host that is not an address and a port is dropped. *)
SocketAddrs(ifaces) == {HostOf(f, Word.port) : f \in Range(ifaces)}
ResolveHosts(hosts, addrs) == Keep(hosts, addrs)

-----------------------------------------------------------------------------
(* Payload maps: MapReader::from_value on the entries of a map, whose keys *)
(* should be integers and all different.                                   *)

NotAnInteger == -1

FromValue(pairs) ==
  IF \/ \E i \in DOMAIN pairs : pairs[i][1] = NotAnInteger
     \/ \E i, j \in DOMAIN pairs : i # j /\ pairs[i][1] = pairs[j][1]
  THEN Failed
  ELSE Ok([k \in {pairs[i][1] : i \in DOMAIN pairs} |-> LastOf(pairs, k, "none")])

-----------------------------------------------------------------------------
(* sas_emoji: four symbols, from the high bits down. *)
Symbol(digest, shift) == (digest \div Pow2[shift]) % Pow2[SasBits]

SasEmoji(digest) ==
  <<Symbol(digest, SasSpare + 3 * SasBits), Symbol(digest, SasSpare + 2 * SasBits),
    Symbol(digest, SasSpare + SasBits), Symbol(digest, SasSpare)>>

-----------------------------------------------------------------------------
(* Toasts. *)

Flat(c) == IF c \in {"\n", "\r"} THEN " " ELSE c

ToastPreview(text) ==
  IF Len(text) <= ToastChars THEN [i \in DOMAIN text |-> Flat(text[i])]
  ELSE [i \in 1..ToastChars |-> Flat(text[i])] \o <<"...">>

EntityOf(c) ==
  CASE c = "&" -> "amp;" [] c = "<" -> "lt;" [] c = ">" -> "gt;" [] c = "\"" -> "quot;"
    [] c = "'" -> "apos;"

Escaped_KeepsAmp(c) ==  \* mutant
  IF c \in Special \ {"&"} THEN <<"&", EntityOf(c)>> ELSE <<c>>
Escaped(c) == IF c \in Special THEN <<"&", EntityOf(c)>> ELSE <<c>>

XmlEscape(s) ==
  LET out[i \in 0..Len(s)] == IF i = 0 THEN <<>> ELSE out[i - 1] \o Escaped(s[i])
  IN out[Len(s)]

(* The text an XML reader gets from character data; markup, a "&" that     *)
(* starts no entity and a character XML has no place for are errors, which *)
(* LoadXml reports.                                                        *)
NamedBy(c) == {d \in Special : EntityOf(d) = c}

ReadChar(r, c) ==
  CASE r.at = "text" /\ c \notin {"&", "<"} \cup NoXml -> [at |-> "text", val |-> Append(r.val, c)]
    [] r.at = "text" /\ c = "&" -> [at |-> "entity", val |-> r.val]
    [] r.at = "entity" /\ NamedBy(c) # {} ->
         [at |-> "text", val |-> Append(r.val, CHOOSE d \in NamedBy(c) : TRUE)]
    [] OTHER -> [at |-> "error", val |-> r.val]

XmlScan(s) ==
  LET after[i \in 0..Len(s)] ==
        IF i = 0 THEN [at |-> "text", val |-> <<>>] ELSE ReadChar(after[i - 1], s[i])
  IN after[Len(s)]

XmlRead(s) == IF XmlScan(s).at = "text" THEN Ok(XmlScan(s).val) ELSE Failed

-----------------------------------------------------------------------------
(* Properties, each about the inputs of its kind. *)

(* A name that is too long is cut to the longest whole characters that     *)
(* fit, and no other name is changed.                                      *)
NameCut ==
  in.of = "name" =>
    LET cut == TruncateName(in.name) IN
      /\ cut = SubSeq(in.name, 1, Len(cut)) /\ NameBytes(cut) <= MaxNameBytes
      /\ cut # in.name => NameBytes(cut) + in.name[Len(cut) + 1] > MaxNameBytes

(* Whoever resolves an advertised record gets the id and the cut name it   *)
(* was advertised with, whatever the order of the pairs and whatever pair  *)
(* of a later version is among them; a record with a bad pair is no hint.  *)
HintIsAdvertised ==
  in.of = "txt" =>
    LET pairs == TxtPairs(in.id, in.name) \o <<in.extra>>
        seen == [i \in DOMAIN pairs |-> pairs[in.order[i]]]
    IN HintFrom(seen, in.addrs) =
         IF in.id \in BadTxtIds \/ in.extra[1] # "new" \/ in.addrs = <<>> THEN Failed
         ELSE Ok([id |-> in.id, name |-> TruncateName(in.name), addrs |-> in.addrs])

(* The phone that scans the pairing code gets the payload it was made of,  *)
(* whatever bytes the name has, and dials what local_hosts lists: the      *)
(* addresses of all interfaces but the loopback and IPv4 link-local ones,  *)
(* IPv4 first.  A code of another scheme, host or version, or with an id   *)
(* that is not that of the key, is refused.                                *)
ScanYieldsOffer ==
  in.of = "qr" =>
    LET q == [version |-> One, id |-> DeviceIdOf(in.pk), pk |-> in.pk, name |-> in.name,
              hosts |-> LocalHosts(in.ifaces, Word.port), tok |-> Word.token]
        offered == OfKind(in.ifaces, "v4") \o OfKind(in.ifaces, "v6")
    IN /\ QrParse(ToUrl(q)) = Ok(q)
       /\ ResolveHosts(QrParse(ToUrl(q)).val.hosts, SocketAddrs(in.ifaces))
            = [i \in DOMAIN offered |-> HostOf(offered[i], Word.port)]
       /\ \A bad \in {[q EXCEPT !.version = One + 1], [q EXCEPT !.id = Word.other],
                      [q EXCEPT !.tok = Word.malformed]} : QrParse(ToUrl(bad)) = Failed
       /\ \A bad \in {Url(Word.other, Word.pair, Query(q)), Url(Word.airclip, Word.other, Query(q)),
                      Query(q)} : QrParse(bad) = Failed

(* What a payload map says does not depend on the order of its entries. *)
MapOrderFree ==
  in.of = "map" =>
    FromValue(in.pairs) = FromValue([i \in DOMAIN in.pairs |-> in.pairs[Len(in.pairs) + 1 - i]])

(* Two digests that differ in the bits the emoji stand for show different  *)
(* emoji; the spare bits alone make no difference.                         *)
EmojiTellApart ==
  in.of = "digest" =>
    \A d \in Digests :
      SasEmoji(d) = SasEmoji(in.digest) <=> d \div Pow2[SasSpare] = in.digest \div Pow2[SasSpare]

(* A toast is well-formed whatever markup the clip contains, and reads as  *)
(* the start of the clip on one line; it fails to load exactly when what   *)
(* it would show has a character that XML forbids, which xml_escape leaves *)
(* as it is.                                                               *)
ToastReadable ==
  in.of = "text" =>
    LET preview == ToastPreview(in.text)
        shown == XmlRead(XmlEscape(preview))
    IN /\ shown.ok <=> \A i \in DOMAIN preview : preview[i] \notin NoXml
       /\ shown.ok =>
            /\ Len(shown.val) <= ToastChars + 1
            /\ \A i \in DOMAIN shown.val :
                 /\ shown.val[i] \notin {"\n", "\r"}
                 /\ i <= ToastChars => shown.val[i] \in {in.text[i], " "}
            /\ Len(in.text) <= ToastChars => Len(shown.val) = Len(in.text)

(* What one device puts into a TXT record, a pairing code or a payload map *)
(* is what the other reads.                                                *)
WireFormats == NameCut /\ HintIsAdvertised /\ ScanYieldsOffer /\ MapOrderFree

(* What a user is shown says what it stands for. *)
ScreenFormats == EmojiTellApart /\ ToastReadable

=============================================================================
