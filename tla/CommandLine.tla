----------------------------- MODULE CommandLine -----------------------------
(***************************************************************************)
(* The commands of cli.py that take no part in a run: check, policy lint,  *)
(* doctor, benchmark and replay, each a process of its own that ends with  *)
(* an exit code.  They compose the argument matchers, the linter and the   *)
(* benchmark; what they print is left out.                                 *)
(***************************************************************************)
EXTENDS Lint, Benchmark, TLC

CONSTANTS
  Asked,        \* what check is asked: an operator, a field, its values and arguments
  Probe,        \* the tool name that doctor looks up
  DoctorRules   \* bound: rules of a policy that doctor looks at

\* The texts of matchers and arguments are made of characters, and the
\* libraries read the host names among them.
ASSUME AskedAssumption ==
  \A q \in Asked : \A v \in q.expected \union q.values :
    /\ v.kind = "text" => v.text \in Seq(Char)
    /\ v.kind = "url" => v.url # None
    /\ v.kind = "url" /\ v.url.hostname # None =>
         v.url.hostname \in Seq(Char) /\ HostText(Zoneless(v.url.hostname))

VARIABLES
  command,   \* the command that was given
  asked      \* what check was asked

cliVars == <<command, asked>>
allVars == <<cliVars, lintVars, benchmarkVars>>

NoLint == policy = Absent /\ findings = {}

NoBenchmark ==
  /\ request = [kind |-> "none"] /\ casesFile = <<>> /\ at = Frozen /\ step = "idle"
  /\ loaded = Neither /\ hashed = Neither /\ written = {} /\ exit = Absent
  /\ slipped = {}

Init ==
  \/ /\ command = "check" /\ NoLint /\ NoBenchmark
     /\ \E q \in Asked : \E expected \in q.expected, value \in q.values :
          asked = [pattern |-> [operator |-> q.operator, fields |-> [name \in {q.field} |-> expected]],
                   value |-> value]
  \/ command = "lint" /\ asked = Absent /\ LintInit /\ NoBenchmark
  \/ /\ command = "doctor" /\ asked = Absent /\ NoBenchmark
     /\ policy \in {p \in Policies : Len(p.rules) <= DoctorRules} /\ findings = {}
  \/ command = "benchmark" /\ asked = Absent /\ NoLint /\ BenchmarkInit

-----------------------------------------------------------------------------
Runs(name) == command = name /\ exit = Absent

\* The command ends at once, without a benchmark.
Exits(code) ==
  /\ exit' = code
  /\ UNCHANGED <<cliVars, request, casesFile, at, step, loaded, hashed, written, slipped>>

\* EXIT_BY_DECISION of a policy that allows what the matcher matches and blocks
\* the rest.  Policy.load rejects a matcher that does not compile; an exception
\* of match() that main() does not expect ends the process with code 1.
Check ==
  /\ Runs("check")
  /\ LET answer == Match(asked.pattern, asked.value) IN
     Exits(IF ~Compile(asked.pattern) THEN 2
           ELSE CASE answer = "yes" -> 0 [] answer = "no" -> 4 [] OTHER -> 1)
  /\ UNCHANGED lintVars

LintErrors(found) == {f \in found : f[1] \in Errors}

PolicyLint ==
  /\ Runs("lint")
  /\ LintPolicy
  /\ Exits(IF LintErrors(findings') # {} THEN 1 ELSE 0)

\* What an unknown tool without arguments is decided as, with nothing used.
ProbeDecision ==
  LET matching == {i \in DOMAIN policy.rules : /\ GlobMatch(policy.rules[i].tool, Probe)
                                               /\ policy.rules[i].arguments = "none"}
  IN IF matching = {} THEN policy.default
     ELSE policy.rules[CHOOSE i \in matching : \A j \in matching : i <= j].decision

\* run_checks: the environment is whether the directories of the state and the
\* audit log are writable and the MCP command can be run.
Doctor ==
  /\ Runs("doctor")
  /\ LintPolicy
  /\ \E environment \in [{"state", "audit", "mcp"} -> BOOLEAN] :
       LET ok == /\ LintErrors(findings') = {}
                 /\ \A part \in DOMAIN environment : environment[part]
                 /\ ProbeDecision = "block"
       IN Exits(IF ok THEN 0 ELSE 1)

Benchmark ==
  command = "benchmark" /\ (BenchmarkStep \/ Edit) /\ UNCHANGED <<cliVars, lintVars>>

Next == Check \/ PolicyLint \/ Doctor \/ Benchmark

Spec == Init /\ [][Next]_allVars

-----------------------------------------------------------------------------
(***************************************************************************)
(* What the argument matchers promise                                      *)
(***************************************************************************)
Checked == command = "check" /\ exit # Absent

Asks(operator, field) ==
  /\ Checked /\ asked.value.kind = "text"
  /\ asked.pattern.operator = operator /\ field \in DOMAIN asked.pattern.fields

\* A host name with a character that inet_aton cannot convert.
InconvertibleHost(v) ==
  /\ v.kind = "url" /\ v.url.hostname # None
  /\ Chars(Zoneless(v.url.hostname)) \intersect Inconvertible # {}

\* A policy that loads can be applied: a matcher that compile() accepts has an
\* answer for every argument ("Anything that is not the right shape simply does
\* not match", docstring of match), with one exception, which is exactly this:
\* deny_private_networks makes match() raise for a host name with a NUL or a
\* lone surrogate before its zone, and for no other, however it is spelled.
RaisesOnlyForHosts ==
  Checked /\ Compile(asked.pattern) =>
    /\ exit \in {0, 1, 4}
    /\ exit = 1 <=> /\ asked.pattern.operator = "url"
                    /\ "deny_private_networks" \in DOMAIN asked.pattern.fields
                    /\ asked.pattern.fields["deny_private_networks"].flag
                    /\ InconvertibleHost(asked.value)

\* The labels of a domain name.
Labels(s) == Split(Lower(s), ".")

\* A path within a root goes down from it component by component, and a domain
\* below a suffix ends with its labels: no sibling that only shares a part of
\* a name matches, and all that is below does.
Contained ==
  LET v == asked.value.text
      expected(field) == asked.pattern.fields[field].text
  IN /\ Asks("path", "within") /\ exit \in {0, 4} =>
          LET root == expected("within") IN
          (exit = 0) <=>
            \/ Components(root) = <<>>
            \/ /\ LeadingSlashes(root) = LeadingSlashes(v)
               /\ IsPrefix(Components(root), Components(v))
     /\ Asks("domain", "suffix") /\ exit \in {0, 4} =>
          (exit = 0) <=>
            /\ Domain(v) # None
            /\ IsSuffix(Labels(expected("suffix")), Labels(Last(Split(v, "@"))))

\* SQL text as a scanner reads it, one character at a time: mode is where it
\* is, pending a character that may open or close a comment, and seen what
\* lies outside of comments.  In a string literal no comment opens: there a
\* scanner parts from matchers.py, which knows no literals, and the text is
\* veiled, because what follows is a comment to one and not to the other.
Scanned(mode, pending, seen) == [mode |-> mode, pending |-> pending, seen |-> seen]

Quote == "'"

Commented(r, mode, seen) == Scanned(IF r.mode = "string" THEN "veiled" ELSE mode, <<>>, seen)

ScanText(r, c) ==
  LET toggled == IF r.mode = "string" THEN "code" ELSE "string" IN
  CASE c = "#" -> Commented(r, "line", r.seen \o r.pending)
    [] r.pending = <<"-">> /\ c = "-" -> Commented(r, "line", r.seen)
    [] r.pending = <<"/">> /\ c = "*" -> Commented(r, "block", r.seen)
    [] c \in {"-", "/"} /\ ~(r.pending = <<"-">> /\ c = "-") ->
         Scanned(r.mode, <<c>>, r.seen \o r.pending)
    [] OTHER -> Scanned(IF c = Quote THEN toggled ELSE r.mode, <<>>,
                        (r.seen \o r.pending) \o <<IF c = "\n" THEN " " ELSE c>>)

ScanNext(r, c) ==
  CASE r.mode \in {"code", "string"} -> ScanText(r, c)
    [] r.mode = "line" -> IF c = "\n" THEN Scanned("code", <<>>, r.seen \o <<" ">>) ELSE r
    [] r.mode = "block" -> IF r.pending = <<"*">> /\ c = "/" THEN Scanned("code", <<>>, r.seen)
                           ELSE Scanned("block", <<c>>, r.seen)
    [] r.mode = "veiled" -> r

ScanEnd(s) == Folded(ScanNext, Scanned("code", <<>>, <<>>), s)

Veiled(s) == ScanEnd(s).mode = "veiled"

Scan(s) ==
  LET end == ScanEnd(s)
  IN IF end.mode \in {"code", "string"} THEN end.seen \o end.pending ELSE end.seen

\* A semicolon separates, within a literal too ("fails closed", the docs).
Statements(s) == NonEmpty([i \in DOMAIN Split(s, ";") |-> Strip(Split(s, ";")[i], {" "})])

\* What a matcher accepts is one statement or command and begins as the policy
\* says: SQL that is not veiled has a single statement outside of its comments,
\* wherever its literals begin and end, and a command text no control character
\* that would start another, so each of its words is an argument.  The operation
\* of the policy is a word: compile() takes any text, and text without a
\* statement has the operation ";".
OneStatement ==
  LET v == asked.value.text
      fields == asked.pattern.fields
      words == NonEmpty(Split(v, " "))
  IN /\ Asks("sql", "equals") /\ exit = 0 /\ ~Veiled(v) /\ ";" \notin Chars(fields["equals"].text) =>
          LET statements == Statements(Scan(v)) IN
          Len(statements) = 1 /\ Upper(FirstWord(statements[1])) = Upper(fields["equals"].text)
     /\ Asks("command", "argv_prefix") /\ exit = 0 =>
          LET prefix == Items(fields["argv_prefix"]) IN
          /\ Chars(v) \intersect (Control \union {"\n"}) = {}
          /\ Len(prefix) <= Len(words)
          /\ \A i \in DOMAIN prefix : GlobMatch(prefix[i].text, words[i])

-----------------------------------------------------------------------------
\* A policy that lint or doctor ends with exit code 0 for is guarded.
CleanIsGuarded == command \in {"lint", "doctor"} /\ exit = 0 => Guarded
=============================================================================
