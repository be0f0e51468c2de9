---------------------------- MODULE MCCommandLine ----------------------------
(***************************************************************************)
(* lint and doctor: patterns of two letters, with and without wildcards    *)
(* and classes of letters, against all names of up to four letters.        *)
(*                                                                         *)
(* check: every text of a few characters that matter to the matcher,       *)
(* against the paths, domains, operations and command prefixes that can be *)
(* confused with it, and every field of every operator with values of      *)
(* every type; host names of a few characters, and spellings of addresses  *)
(* in the local networks 0 and 10 and in others.                           *)
(*                                                                         *)
(* benchmark and replay: four calls with every labelling, by a policy that *)
(* allows two of them, edited to one that allows them all, with a gate on  *)
(* each rate; and files that are invalid, or become so.                    *)
(***************************************************************************)
EXTENDS CommandLine

MCPattern ==
  (SeqOf({"a", "b", "?", "*"}, 2) \ {<<>>}) \union
  {<<"a", "a", "*">>, <<"a", "*", "b">>, <<"a", "?", "*">>, <<"*", "a", "*">>, <<"a", "b", "a">>,
   <<"[", "a", "]">>, <<"[", "a", "]", "*">>}

\* Patterns with classes that the linter reads as text.
MCClassPattern == {<<"?">>, <<"[", "?", "]">>, <<"?", "?", "?", "?">>, <<"[", "a", "b", "]">>}

MCName == SeqOf({"a", "b"}, 4) \ {<<>>}

MCProbe == <<"u", "n", "k", "n", "o", "w", "n">>

-----------------------------------------------------------------------------
Asking(operator, field, expected, values) ==
  [operator |-> operator, field |-> field, expected |-> expected, values |-> values]

TextsOf(S, n) == {Text(s) : s \in SeqOf(S, n)}

Texts1(S, n) == TextsOf(S, n) \ {Text(<<>>)}

Commands ==
  {List(<<Text(<<"a">>)>>), List(<<Text(<<"a">>), Text(<<"*">>)>>), List(<<Text(<<"a", "*">>)>>)}

\* Values of every type; the last are no values of arguments that match.
Values ==
  {Text(<<"a">>), Text(<<>>), Text(<<"1">>), Number(1), Number(None), Number(70000), Flag(TRUE), Null,
   List(<<>>), List(<<Text(<<"a">>)>>), List(<<Number(1)>>), List(<<Text(<<"a">>), Number(1)>>),
   Object(<<>>), Object([prefix |-> Text(<<"a">>)]), Object([prefix |-> Number(1)]),
   Object([other |-> Text(<<"a">>)]),
   Object([prefix |-> Text(<<"a">>), suffix |-> Text(<<"a">>)])}

Urls == {Url(<<"a">>, h, p, <<"/", "a">>) : h \in {None, <<"a">>}, p \in {None, 1}}

\* Four parts, in decimal without leading zeros.
MCIpAddress(h) ==
  LET parts == Split(h, ".") IN
  IF Len(parts) = 4 /\ ToSet(parts) \subseteq {<<"0">>, <<"1">>, <<"8">>, <<"1", "0">>}
  THEN IF parts[1] \in {<<"0">>, <<"1", "0">>} THEN "local" ELSE "global"
  ELSE IF h = <<":", ":", "1">> THEN "local" ELSE None

\* 1.0.0.0 is 16777216; no integer here is as large as 10.0.0.0.
MCIntegerAddress(n) == IF n < 16777216 THEN "local" ELSE "global"

\* Two to four parts, each in octal, decimal or hexadecimal.
MCInetAton(h) ==
  LET parts == Split(h, ".") IN
  IF Chars(h) \intersect Inconvertible # {} THEN "raises"
  ELSE IF Len(parts) \in 2..4 /\ \A i \in DOMAIN parts : LegacySyntax(parts[i]) # None
       THEN IF IntegerOf(LegacySyntax(parts[1])) \in {0, 10} THEN "local" ELSE "global"
  ELSE None

Dotted(part, rest) == part \o <<".">> \o rest

Oversized == [i \in 1..33 |-> "1"]

Hosts ==
  SeqOf({"0", "1", "x", ".", "%", "NUL"}, 4)
  \union {Dotted(part, <<"1", ".", "1", ".", "1">>) :
             part \in {<<"1">>, <<"8">>, <<"1", "0">>, <<"0", "1", "0">>, <<"0", "1", "2">>, <<"0", "8">>,
                       <<"0", "x", "a">>, <<"surrogate">>, <<>>}}
  \union {Oversized, Dotted(<<"1">>, Oversized), Dotted(<<"NUL">>, Oversized), <<":", ":", "1">>,
           <<"0", "x", "1", "0", "0", "0", "0", "0", "0">>, <<"a">>, <<"a", "surrogate">>}

FieldNames(operator) == {field[1] : field \in ToSet(Fields[operator])}

Typed ==
  UNION {{Asking(o, name, Values,
                      IF o = "url" THEN Urls \union {v \in Values : v.kind # "text"} ELSE Values) : name \in FieldNames(o)} :
         o \in DOMAIN Fields}

MCAsked ==
  {Asking("path", "within", Texts1({"/", ".", "a"}, 3), TextsOf({"/", ".", "a"}, 5)),
   Asking("domain", "suffix", Texts1({".", "a", "A"}, 2), TextsOf({"@", ".", "a", "A", ","}, 4)),
   Asking("sql", "equals", Texts1({"a"}, 2) \union {Text(<<";">>)},
          TextsOf({"a", " ", "\n", ";", "-", "#", "/", "*"}, 5)),
   Asking("sql", "equals", {Text(<<"a">>)},
          TextsOf({"a", " ", ";", Quote, "#"}, 5) \union
          TextsOf({"a", ";", Quote, "-", "/", "*"}, 5)),
   Asking("command", "argv_prefix", Commands,
          TextsOf({"a", " ", ";", "/", "$", "(", "{", "\n", Backquote}, 4)),
   Asking("url", "deny_private_networks", {Flag(TRUE), Flag(FALSE)},
          {Url(<<"a">>, h, None, <<>>) : h \in Hosts \union {None}})}
  \union Typed

-----------------------------------------------------------------------------
CallOf(tool) == [name |-> tool, arguments |-> "none", estimated_cost_usd |-> 0]

RuleOf(tool, kind) == [tool |-> {tool}, arguments |-> {"none"}, decision |-> kind]

MCPolicyVersions ==
  <<[rules |-> <<RuleOf("read", "allow")>>, default |-> "require_approval", max_calls |-> 2],
    [rules |-> <<RuleOf("send", "block")>>, default |-> "allow", max_calls |-> Absent],
    Absent>>

FourCalls(expected) ==
  [id |-> 1, expected |-> expected,
   calls |-> <<CallOf("read"), CallOf("send"), CallOf("read"), CallOf("read")>>]

Reads(id, expected) ==
  [id |-> id, expected |-> expected, calls |-> [i \in 1..2 |-> CallOf("read")]]

MCCasesVersions ==
  {<<<<FourCalls(expected)>>, <<>>>> : expected \in [1..4 -> Kinds]} \union
  {<<<<Reads(1, <<"allow", "allow">>), Reads(id, expected)>>, Absent>> :
     id \in 1..2, expected \in {<<"allow", "allow">>, <<"allow">>}} \union
  {<<<<Reads(1, <<"allow", "block">>)>>, <<Reads(1, <<"allow", "allow">>)>>>>}

Rates == {"max_dangerous_allow_rate", "max_safe_friction_rate", "min_intervention_recall",
          "min_approval_accuracy", "min_exact_accuracy"}

Fractions == {[n |-> 0, d |-> 1], [n |-> 3, d |-> 10], [n |-> 7, d |-> 10], [n |-> 1, d |-> 1]}

MCGates ==
  {[rate \in Rates |-> IF rate = gated THEN bound ELSE Absent] : gated \in Rates, bound \in Fractions}
  \union {Absent}
=============================================================================
