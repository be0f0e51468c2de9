------------------------------ MODULE Matchers ------------------------------
(***************************************************************************)
(* The argument matchers (matchers.py): what compile() accepts and what    *)
(* match() answers.  Text matters here, so a string is the sequence of its *)
(* characters; a URL is the record of what urlsplit finds in it.  An       *)
(* address is "global" or "local" and no more: what Python's libraries     *)
(* make of the spelling of one is a parameter.                             *)
(***************************************************************************)
EXTENDS Integers, Sequences, SequencesExt, FiniteSets

CONSTANTS
  None,                \* Python's None: no such value
  IpAddress(_),        \* ipaddress.ip_address of a text, None where it raises ValueError
  IntegerAddress(_),   \* ipaddress.ip_address of the low 32 bits of an integer
  InetAton(_)          \* socket.inet_aton of a text, None where it raises OSError

Addresses == {"global", "local"}

\* JSON values: strings, numbers (one that is not finite has number = None),
\* lists, objects with their members, and the two others.
Text(s) == [kind |-> "text", text |-> s]
Number(n) == [kind |-> "number", number |-> n]
List(items) == [kind |-> "list", items |-> items]
Object(members) == [kind |-> "object", members |-> members]
Flag(b) == [kind |-> "flag", flag |-> b]
Null == [kind |-> "null"]

\* A string that urlsplit can parse: hostname and port may be None.
Url(scheme, hostname, port, path) ==
  [kind |-> "url",
   url |-> [scheme |-> scheme, hostname |-> hostname, port |-> port, path |-> path]]

-----------------------------------------------------------------------------
(***************************************************************************)
(* Text                                                                    *)
(***************************************************************************)
Lower(s) == [i \in DOMAIN s |-> IF s[i] = "A" THEN "a" ELSE s[i]]
Upper(s) == [i \in DOMAIN s |-> IF s[i] = "a" THEN "A" ELSE s[i]]

Chars(s) == ToSet(s)

\* What a character is: any string.  Those that the matchers look for or put
\* in are named, because the provers do not know that they are strings.
Char == STRING \union {"/", ".", " ", "@", ";", "-", "a", "A"}

ASSUME NoneAssumption == None \notin Seq(Char) \union Addresses \union {"raises"}

\* FoldLeft, as a recursive function.
Folded(op(_, _), base, s) ==
  LET folded[n \in 0..Len(s)] == IF n = 0 THEN base ELSE op(folded[n - 1], s[n])
  IN folded[Len(s)]

Split(s, separator) ==
  Folded(LAMBDA parts, c : IF c = separator THEN Append(parts, <<>>)
                           ELSE [parts EXCEPT ![Len(parts)] = Append(@, c)],
         << <<>> >>, s)

\* The parts that are not empty.
NonEmpty(parts) ==
  Folded(LAMBDA out, part : IF part = <<>> THEN out ELSE Append(out, part), <<>>, parts)

RStrip(s, chars) == SubSeq(s, 1, Max({0} \union {i \in DOMAIN s : s[i] \notin chars}))

LStrip(s, chars) == SubSeq(s, Min({Len(s) + 1} \union {i \in DOMAIN s : s[i] \notin chars}), Len(s))

Strip(s, chars) == LStrip(RStrip(s, chars), chars)

\* The first word of a text that does not start with a space.
FirstWord(s) == Split(s, " ")[1]

\* The characters that may close the class that starts at position i of p: not
\* the first in it.  Negation and ranges are left out: no pattern here holds
\* "!" or "-".
Closing(p, i) == {k \in (i + 2)..Len(p) : p[i] = "[" /\ p[k] = "]"}

\* The positions that character c leads to from position i of p.
Led(p, i, c) ==
  IF i > Len(p) THEN {}
  ELSE IF p[i] = "*" THEN {i}
  ELSE IF Closing(p, i) = {} THEN {j \in {i + 1} : p[i] \in {"?", c}}
  ELSE {j \in {Min(Closing(p, i)) + 1} : \E k \in (i + 1)..(j - 2) : p[k] = c}

\* Positions in p, and those behind stars that match nothing.
OverStars(p, positions) ==
  {j \in 1..(Len(p) + 1) : \E i \in positions : i <= j /\ \A k \in i..(j - 1) : p[k] = "*"}

\* The positions in p that the first n characters of s can lead to.
Reached(p, s) ==
  LET reached[n \in 0..Len(s)] ==
        OverStars(p, IF n = 0 THEN {1} ELSE UNION {Led(p, i, s[n]) : i \in reached[n - 1]})
  IN reached

GlobMatch(p, s) == Len(p) + 1 \in Reached(p, s)[Len(s)]

-----------------------------------------------------------------------------
(***************************************************************************)
(* compile                                                                 *)
(***************************************************************************)
\* The fields of each operator in the order match() looks at them, and what
\* each must be.
Fields ==
  [url |-> << <<"scheme", "texts">>, <<"hostname", "texts">>, <<"port", "ports">>,
              <<"path", "affix">>, <<"deny_private_networks", "flag">> >>,
   path |-> << <<"equals", "text">>, <<"within", "text">> >>,
   domain |-> << <<"equals", "text">>, <<"suffix", "text">> >>,
   http_method |-> << <<"equals", "text">>, <<"in", "texts">> >>,
   number |-> << <<"min", "decimal">>, <<"max", "decimal">> >>,
   sql |-> << <<"equals", "text">>, <<"in", "texts">> >>,
   command |-> << <<"executable", "text">>, <<"argv_prefix", "texts">> >>]

NonEmptyText(v) == v.kind = "text" /\ v.text # <<>>

IsPort(v) == v.kind = "number" /\ v.number \in 0..65535

\* _to_decimal and _value_decimal: a finite number or its digits, else None.
Decimal(v) ==
  IF v.kind = "number" THEN v.number
  ELSE IF v.kind = "text" /\ v.text \in {<<"1">>, <<"2">>}
       THEN IF v.text = <<"1">> THEN 1 ELSE 2
  ELSE None

\* Mutant: any list will do.
ValidAnyList(type, v) ==
  \/ type \in {"text", "texts"} /\ NonEmptyText(v)
  \/ type = "texts" /\ v.kind = "list"
  \/ type = "ports" /\ (IsPort(v) \/ v.kind = "list")
  \/ type = "affix" /\ v.kind = "object" /\ \A m \in DOMAIN v.members : NonEmptyText(v.members[m])
  \/ type = "flag" /\ v.kind = "flag"
  \/ type = "decimal" /\ Decimal(v) # None

Valid(type, v) ==
  \/ type \in {"text", "texts"} /\ NonEmptyText(v)
  \/ /\ type = "texts" /\ v.kind = "list" /\ v.items # <<>>
     /\ \A item \in ToSet(v.items) : NonEmptyText(item)
  \/ type = "ports" /\ IsPort(v)
  \/ type = "ports" /\ v.kind = "list" /\ v.items # <<>> /\ \A item \in ToSet(v.items) : IsPort(item)
  \/ /\ type = "affix" /\ v.kind = "object"
     /\ Cardinality(DOMAIN v.members) = 1
     /\ \A m \in DOMAIN v.members :
          m \in {"equals", "prefix", "suffix"} /\ NonEmptyText(v.members[m])
  \/ type = "flag" /\ v.kind = "flag"
  \/ type = "decimal" /\ Decimal(v) # None

\* A typed matcher p has an operator and fields, a function from their names.
Compile(p) ==
  LET names == DOMAIN p.fields IN
  /\ p.operator \in DOMAIN Fields
  /\ names # {}
  /\ \A name \in names :
       \E field \in ToSet(Fields[p.operator]) :
         field[1] = name /\ Valid(field[2], p.fields[name])
  /\ p.operator \in {"http_method", "sql"} => ~({"equals", "in"} \subseteq names)

-----------------------------------------------------------------------------
(***************************************************************************)
(* What match() looks at in a value: its subject, or None when the value   *)
(* has not the right shape.                                                *)
(***************************************************************************)
Components(path) ==
  Folded(LAMBDA out, part :
           IF part \in {<<>>, <<".">>} THEN out
           ELSE IF part = <<".", ".">> THEN IF out = <<>> THEN out ELSE Front(out)
           ELSE Append(out, part),
         <<>>, Split(path, "/"))

\* POSIX keeps exactly two leading slashes apart from one.
LeadingSlashes(path) ==
  IF IsPrefix(<<"/", "/">>, path) /\ ~IsPrefix(<<"/", "/", "/">>, path)
  THEN <<"/", "/">> ELSE <<"/">>

Join(parts) ==
  Folded(LAMBDA out, part : IF out = <<>> THEN part ELSE out \o <<"/">> \o part, <<>>, parts)

\* normpath(join("/", path))
LexicalAbs(path) == LeadingSlashes(path) \o Join(Components(path))

\* The domain of a single mail address.
Domain(s) ==
  IF "@" \in Chars(s) /\ Chars(s) \intersect {",", ";", "<", ">", " "} = {}
  THEN Lower(Last(Split(s, "@"))) ELSE None

\* The position of the end of the line that position i of s is in.
LineEnd(s, i) == Min({Len(s) + 1} \union {k \in i..Len(s) : s[k] = "\n"})

\* The position behind the end of the block comment that position i is in.
BlockEnd(s, i) ==
  Min({Len(s) + 1} \union {k + 2 : k \in {k \in i..(Len(s) - 1) : s[k] = "*" /\ s[k + 1] = "/"}})

StripSqlComments(s) ==
  LET opens(i, a, b) == i < Len(s) /\ s[i] = a /\ s[i + 1] = b
      from[i \in 1..(Len(s) + 1)] ==
        CASE i > Len(s) -> <<>>
          [] i <= Len(s) /\ (s[i] = "#" \/ opens(i, "-", "-")) -> from[LineEnd(s, i)]
          [] opens(i, "/", "*") -> from[BlockEnd(s, i + 2)]
          [] OTHER -> <<IF s[i] = "\n" THEN " " ELSE s[i]>> \o from[i + 1]
  IN from[1]

\* Mutant: a second statement is not looked for.
SqlOperationOfAny(s) ==
  LET stripped == Strip(StripSqlComments(s), {" "}) IN
  IF stripped = <<>> THEN None ELSE Upper(FirstWord(stripped))

SqlOperation(s) ==
  LET stripped == Strip(StripSqlComments(s), {" "}) IN
  IF stripped = <<>> \/ ";" \in Chars(RStrip(stripped, {";"})) THEN None
  ELSE Upper(FirstWord(stripped))

\* shlex: words end at spaces, and a run of control characters is a word.
Backquote == "backquote"

Control == {";", "&", "|", "<", ">", "(", ")", Backquote}

Words(s) ==
  LET word(words, c) ==
        IF c = " " THEN Append(words, <<>>)
        ELSE IF Last(words) # <<>> /\ (c \in Control) # (Last(Last(words)) \in Control)
             THEN Append(words, <<c>>)
        ELSE [words EXCEPT ![Len(words)] = Append(@, c)]
  IN NonEmpty(Folded(word, << <<>> >>, s))

Unmodeled(token) ==
  \/ "\n" \in Chars(token)
  \/ token # <<>> /\ Chars(token) \subseteq Control
  \/ Backquote \in Chars(token)
  \/ \E i \in 1..(Len(token) - 1) : token[i] = "$" /\ token[i + 1] \in {"(", "{"}

Argv(v) ==
  LET argv == IF v.kind = "text" THEN Words(v.text) ELSE [i \in DOMAIN v.items |-> v.items[i].text]
  IN IF argv = <<>> \/ \E token \in ToSet(argv) : Unmodeled(token) THEN None ELSE argv

Subject(operator, v) ==
  CASE operator = "url" /\ v.kind = "url" -> v.url
    [] operator = "path" /\ v.kind = "text" -> LexicalAbs(v.text)
    [] operator = "domain" /\ v.kind = "text" -> Domain(v.text)
    [] operator = "http_method" /\ v.kind = "text" -> Upper(Strip(v.text, {" "}))
    [] operator = "number" -> Decimal(v)
    [] operator = "sql" /\ v.kind = "text" -> SqlOperation(v.text)
    [] operator = "command" /\ v.kind = "text" ->
         IF "\n" \in Chars(v.text) THEN None ELSE Argv(v)
    [] operator = "command" /\ v.kind = "list" ->
         IF \A item \in ToSet(v.items) : item.kind = "text" THEN Argv(v) ELSE None
    [] OTHER -> None

-----------------------------------------------------------------------------
(***************************************************************************)
(* _is_private_literal: the literal addresses among the host names         *)
(***************************************************************************)
HexDigits == <<"0", "1", "2", "3", "4", "5", "6", "7", "8", "9", "a", "b", "c", "d", "e", "f">>

DigitsOf(base) == {HexDigits[i] : i \in 1..base}

\* _legacy_integer_syntax: the digits and base of an integer as resolvers
\* still read it, or None.
LegacySyntax(s) ==
  LET spelling == CASE IsPrefix(<<"0", "x">>, s) -> [digits |-> SubSeq(s, 3, Len(s)), base |-> 16]
                    [] Len(s) > 1 /\ s[1] = "0" /\ s[2] # "x" -> [digits |-> Tail(s), base |-> 8]
                    [] OTHER -> [digits |-> s, base |-> 10]
  IN IF spelling.digits = <<>> \/ ~(Chars(spelling.digits) \subseteq DigitsOf(spelling.base))
     THEN None ELSE spelling

MaxDigits == 32

\* int(digits, base)
IntegerOf(spelling) ==
  Folded(LAMBDA n, c : n * spelling.base + (CHOOSE i \in 1..16 : HexDigits[i] = c) - 1,
         0, spelling.digits)

\* A NUL and a lone surrogate: no text with one of them is a C string in UTF-8.
Inconvertible == {"NUL", "surrogate"}

\* What the libraries answer for a host: inet_aton raises an exception that is
\* no OSError for those characters, and for no others.
HostText(h) ==
  LET spelling == LegacySyntax(h)
      garbled == Chars(h) \intersect Inconvertible # {}
  IN /\ IpAddress(h) \in Addresses \union {None}
     /\ garbled => IpAddress(h) = None
     /\ InetAton(h) \in Addresses \union {None, "raises"}
     /\ InetAton(h) = "raises" <=> garbled
     /\ spelling # None /\ Len(spelling.digits) <= MaxDigits =>
          IntegerAddress(IntegerOf(spelling)) \in Addresses

OversizedNumeric(h) ==
  LET parts == Split(h, ".") IN
  /\ \A i \in DOMAIN parts : LegacySyntax(parts[i]) # None
  /\ \E i \in DOMAIN parts : Len(LegacySyntax(parts[i]).digits) > MaxDigits

AsIpAddress(h) ==
  LET spelling == LegacySyntax(h) IN
  IF IpAddress(h) # None THEN IpAddress(h)
  ELSE IF spelling # None /\ Len(spelling.digits) <= MaxDigits
       THEN IntegerAddress(IntegerOf(spelling))
  ELSE InetAton(h)

\* str(int(part)) of each of four parts, read as an address once more.
DecimalDotted(h) ==
  LET parts == Split(h, ".")
      plain(part) == LET digits == LStrip(part, {"0"}) IN IF digits = <<>> THEN <<"0">> ELSE digits
      dot == <<".">>
  IN IF /\ Len(parts) = 4
        /\ \A i \in DOMAIN parts : /\ parts[i] # <<>> /\ Len(parts[i]) <= MaxDigits
                                   /\ Chars(parts[i]) \subseteq DigitsOf(10)
     THEN IpAddress(plain(parts[1]) \o dot \o plain(parts[2]) \o dot \o
                    plain(parts[3]) \o dot \o plain(parts[4]))
     ELSE None

\* The host without its zone.
Zoneless(hostname) == Split(hostname, "%")[1]

\* Any reading as an address that is not global makes the host private; only
\* an OSError of inet_aton is caught.
PrivateLiteral(hostname) ==
  IF hostname = None THEN "no"
  ELSE LET h == Zoneless(hostname) IN
       CASE OversizedNumeric(h) -> "yes"
         [] ~OversizedNumeric(h) /\ AsIpAddress(h) = "raises" -> "raises"
         [] OTHER -> IF "local" \in {AsIpAddress(h), DecimalDotted(h)} THEN "yes" ELSE "no"

-----------------------------------------------------------------------------
(***************************************************************************)
(* match                                                                   *)
(***************************************************************************)
\* The conversions of the matching code go through for v; otherwise it raises.
Usable(type, v) ==
  CASE type = "text" -> v.kind = "text"
    [] type = "texts" ->
         \/ v.kind = "text"
         \/ v.kind = "list" /\ \A item \in ToSet(v.items) : item.kind = "text"
    [] type = "affix" -> v.kind = "object" /\ \A m \in DOMAIN v.members : v.members[m].kind = "text"
    [] type = "decimal" -> Decimal(v) # None
    [] OTHER -> TRUE

Items(v) == IF v.kind = "list" THEN v.items ELSE <<v>>

Texts(v) == {item.text : item \in ToSet(Items(v))}

\* Mutant: the root is compared as plain text.
WithinText(root, actual) == IsPrefix(RStrip(root, {"/"}), actual)

Within(root, actual) ==
  LET target == RStrip(root, {"/"}) IN
  actual = target \/ IsPrefix(target \o <<"/">>, actual)

Basename(s) == Last(Split(s, "/"))

AffixHolds(members, path) ==
  LET expected(m) == members[m].text IN
  \E m \in DOMAIN members :
    \/ m = "equals" /\ path = expected(m)
    \/ m = "prefix" /\ IsPrefix(expected(m), path)
    \/ m = "suffix" /\ IsSuffix(expected(m), path)

\* One condition of a matcher, of the field called name, on the subject x.
Holds(operator, name, v, x) ==
  CASE name = "scheme" -> x.scheme \in {Lower(s) : s \in Texts(v)}
    [] name = "hostname" ->
         x.hostname # None /\ \E s \in Texts(v) : GlobMatch(Lower(s), Lower(x.hostname))
    [] name = "port" -> x.port # None /\ Number(x.port) \in ToSet(Items(v))
    [] name = "path" -> AffixHolds(v.members, x.path)
    [] name = "deny_private_networks" -> ~(v.flag /\ PrivateLiteral(x.hostname) = "yes")
    [] name = "within" -> Within(LexicalAbs(v.text), x)
    [] name = "suffix" -> x = Lower(v.text) \/ IsSuffix(<<".">> \o Lower(v.text), x)
    [] name = "in" -> x \in {Upper(s) : s \in Texts(v)}
    [] name = "min" -> x >= Decimal(v)
    [] name = "max" -> x <= Decimal(v)
    [] name = "executable" -> GlobMatch(v.text, x[1]) \/ GlobMatch(v.text, Basename(x[1]))
    [] name = "argv_prefix" ->
         /\ Len(Items(v)) <= Len(x)
         /\ \A i \in DOMAIN Items(v) : GlobMatch(Items(v)[i].text, x[i])
    [] name = "equals" ->
         x = CASE operator = "path" -> LexicalAbs(v.text)
               [] operator = "domain" -> Lower(v.text)
               [] OTHER -> Upper(v.text)

\* Looking at one condition raises an exception.
Raises(name, type, v, x) ==
  \/ ~Usable(type, v)
  \/ name = "deny_private_networks" /\ v.flag /\ PrivateLiteral(x.hostname) = "raises"

\* "no" at the first condition that fails, unless looking at it raises.
Match(p, v) ==
  LET x == Subject(p.operator, v)
      fields == Fields[p.operator]
      expected(i) == p.fields[fields[i][1]]
      raises(i) == Raises(fields[i][1], fields[i][2], expected(i), x)
      fails == {i \in DOMAIN fields :
                  /\ fields[i][1] \in DOMAIN p.fields
                  /\ raises(i) \/ ~Holds(p.operator, fields[i][1], expected(i), x)}
      first == CHOOSE i \in fails : \A j \in fails : i <= j
  IN IF x = None THEN "no"
     ELSE IF fails = {} THEN "yes"
     ELSE IF raises(first) THEN "raises" ELSE "no"
=============================================================================
