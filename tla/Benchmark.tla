------------------------------ MODULE Benchmark ------------------------------
(***************************************************************************)
(* The benchmark and replay commands (benchmark.py and their handlers in   *)
(* cli.py): what they read, when, what they write and the exit code they   *)
(* end with.  Someone may edit the policy and the cases meanwhile, and     *)
(* bring earlier contents back (undo, git checkout).                       *)
(*                                                                         *)
(* The versions of a file are its different contents, and the number of a  *)
(* version stands for its hash.  A rate is the fraction it is computed     *)
(* from and so is a threshold; the rounding of floats below their last     *)
(* digit is not modelled, that of the displayed rates only where it could  *)
(* be mistaken for the rate.                                               *)
(***************************************************************************)
EXTENDS Integers, Sequences, SequencesExt, FiniteSets

CONSTANTS
  PolicyVersions,   \* the contents that the policy file may have, the frozen first
  CasesVersions,    \* what the contents of the cases file may be, as such sequences
  Gates,            \* the thresholds of the command line, as records of fractions
  Digits,           \* the rates of the report are rounded to 1/Digits
  Absent            \* no limit, no threshold, no exit code yet, no valid contents

Kinds == {"allow", "block", "require_approval"}
Tools == {"read", "send"}

\* A policy that loads, a case, and the thresholds of a gate.
CaseRule == [tool : SUBSET Tools, arguments : SUBSET {"none"}, decision : Kinds]

Contents == [rules : Seq(CaseRule), default : Kinds, max_calls : (Nat \ {0}) \union {Absent}]

CaseCall == [name : Tools, arguments : {"none"}, estimated_cost_usd : Nat]

Case == [id : Nat, calls : Seq(CaseCall), expected : Seq(Kinds)]

Fraction == [n : Nat, d : Nat \ {0}]

Thresholds ==
  LET bound == Fraction \union {Absent} IN
  [max_dangerous_allow_rate : bound, max_safe_friction_rate : bound,
   min_intervention_recall : bound, min_approval_accuracy : bound, min_exact_accuracy : bound]

ASSUME DigitsAssumption == Digits \in Nat \ {0}

\* What Policy.load, load_cases and the options of the command line validate.
ASSUME ContentsAssumption ==
  /\ Absent \notin Nat \union Fraction
  /\ PolicyVersions \in Seq(Contents \union {Absent}) \ {<<>>}
  /\ CasesVersions \subseteq Seq(Seq(Case) \union {Absent}) \ {<<>>}
  /\ Gates \subseteq Thresholds \union {Absent}

VARIABLES
  request,    \* the command: kind, whether it has a freeze manifest, its gate
  casesFile,  \* the contents that the cases file may have, the frozen first
  at,         \* the current versions of both files
  step,       \* what the command does next
  loaded,     \* the versions it has loaded
  hashed,     \* the versions whose hashes it took last
  written,    \* the report files it has written
  exit,       \* its exit code, or Absent while it runs
  slipped     \* history: files edited after they were loaded, before they were hashed

benchmarkVars == <<request, casesFile, at, step, loaded, hashed, written, exit, slipped>>

\* write_freeze ran on the first versions.
Frozen == [policy |-> 1, cases |-> 1]

Neither == [policy |-> 0, cases |-> 0]

Requests == [kind : {"benchmark"}, freeze : BOOLEAN, gate : Gates] \union
            [kind : {"replay"}, freeze : {FALSE}, gate : {Absent}]

BenchmarkInit ==
  /\ request \in Requests
  /\ casesFile \in CasesVersions
  /\ at = Frozen
  /\ step = IF request.freeze THEN "verify_policy" ELSE "load_policy"
  /\ loaded = Neither
  /\ hashed = Neither
  /\ written = {}
  /\ exit = Absent
  /\ slipped = {}

\* The decisions of policy p, a record of rules, default and max_calls.
P(p) == INSTANCE Policy WITH
  Call <- {}, Unencodable <- {}, Tool <- Tools, Arguments <- {"none"},
  Bounded <- [a \in {"none"} |-> a],
  Rules <- p.rules, Default <- p.default, MaxCalls <- p.max_calls,
  MaxCallsPerTool <- Absent, MaxIdenticalCalls <- Absent, MaxCost <- Absent, NoLimit <- Absent

-----------------------------------------------------------------------------
(***************************************************************************)
(* run_benchmark, and _run_scenario of replay                              *)
(***************************************************************************)
\* The calls of a case share a usage record, which counts what was allowed.
Counted(p, u, c) == IF P(p)!Evaluate(u, c).kind = "allow" THEN P(p)!Record(u, c) ELSE u

UsageAfter(p, case) ==
  LET usage[n \in 0..Len(case.calls)] ==
        IF n = 0 THEN P(p)!EmptyUsage ELSE Counted(p, usage[n - 1], case.calls[n])
  IN usage

Actual(p, case) ==
  [k \in DOMAIN case.calls |-> P(p)!Evaluate(UsageAfter(p, case)[k - 1], case.calls[k]).kind]

Outcomes(p, cases) ==
  [i \in DOMAIN cases |-> [expected |-> cases[i].expected, actual |-> Actual(p, cases[i])]]

CurrentPolicy == PolicyVersions[loaded.policy]
CurrentCases == casesFile[loaded.cases]

\* load_cases: a list that is not empty, of cases with distinct ids.
ValidCases(cases) ==
  /\ cases # Absent /\ cases # <<>>
  /\ \A i, j \in DOMAIN cases : cases[i].id = cases[j].id => i = j
  /\ \A i \in DOMAIN cases :
       cases[i].calls # <<>> /\ Len(cases[i].calls) = Len(cases[i].expected)

\* replay asks for less; it runs each scenario as soon as it has looked at it.
ValidScenarios(cases) ==
  cases # Absent /\ \A i \in DOMAIN cases : Len(cases[i].calls) = Len(cases[i].expected)

-----------------------------------------------------------------------------
(***************************************************************************)
(* compute_metrics and check_thresholds                                    *)
(***************************************************************************)
\* The calls that should be decided as in e and were decided as in a.
Cells(o, e, a) ==
  Cardinality(UNION {{<<i, k>> : k \in {j \in DOMAIN o[i].actual :
                                          o[i].expected[j] \in e /\ o[i].actual[j] \in a}} :
                     i \in DOMAIN o})

Stopped == {"block", "require_approval"}

\* Mutant: the rates of the report are compared.
RateRounded(n, d) ==
  IF d = 0 THEN Absent ELSE [n |-> (2 * n * Digits + d) \div (2 * d), d |-> Digits]

\* _rate: n / d, or Absent.
Rate(n, d) == IF d = 0 THEN Absent ELSE [n |-> n, d |-> d]

Less(r, s) == r.n * s.d < s.n * r.d

\* A maximum is met by a rate that is Absent, a minimum is not.
ExceedsMax(rate, max) == max # Absent /\ rate # Absent /\ Less(max, rate)

BelowMin(rate, min) == min # Absent /\ (rate = Absent \/ Less(rate, min))

ThresholdFails(gate, o) ==
  \/ ExceedsMax(Rate(Cells(o, {"block"}, {"allow"}), Cells(o, {"block"}, Kinds)),
                gate.max_dangerous_allow_rate)
  \/ ExceedsMax(Rate(Cells(o, {"allow"}, Stopped), Cells(o, {"allow"}, Kinds)),
                gate.max_safe_friction_rate)
  \/ BelowMin(Rate(Cells(o, Stopped, Stopped), Cells(o, Stopped, Kinds)),
              gate.min_intervention_recall)
  \/ BelowMin(Rate(Cells(o, {"require_approval"}, {"require_approval"}),
                   Cells(o, {"require_approval"}, Kinds)), gate.min_approval_accuracy)
  \/ BelowMin(Rate(  Cells(o, {"allow"}, {"allow"})
                   + Cells(o, {"require_approval"}, {"require_approval"})
                   + Cells(o, {"block"}, {"block"}), Cells(o, Kinds, Kinds)),
              gate.min_exact_accuracy)

-----------------------------------------------------------------------------
(***************************************************************************)
(* The steps of the commands; an error ends them with exit code 2          *)
(***************************************************************************)
Goto(from, to) == step = from /\ step' = to /\ UNCHANGED exit

Ends(from, code) == step = from /\ step' = "done" /\ exit' = code

HashPolicy ==
  /\ Goto("verify_policy", "verify_cases") \/ Goto("hash_policy", "hash_cases")
  /\ hashed' = [hashed EXCEPT !.policy = at.policy]
  /\ UNCHANGED <<loaded, written>>

\* verify_freeze compares both hashes when it has both.
HashCases ==
  /\ hashed' = [hashed EXCEPT !.cases = at.cases]
  /\ \/ Goto("hash_cases", "write_json")
     \/ hashed' = Frozen /\ Goto("verify_cases", "load_policy")
     \/ hashed' # Frozen /\ Ends("verify_cases", 2)
  /\ UNCHANGED <<loaded, written>>

\* Policy.load rejects an invalid policy.
LoadPolicy ==
  /\ loaded' = [loaded EXCEPT !.policy = at.policy]
  /\ IF PolicyVersions[at.policy] = Absent THEN Ends("load_policy", 2)
                                         ELSE Goto("load_policy", "load_cases")
  /\ UNCHANGED <<hashed, written>>

\* Mutant: the hashes are those of the manifest when there is one.
LoadCasesHashed ==
  LET cases == casesFile[at.cases] IN
  /\ request.kind = "benchmark"
  /\ loaded' = [loaded EXCEPT !.cases = at.cases]
  /\ IF ValidCases(cases)
     THEN Goto("load_cases", IF request.freeze THEN "write_json" ELSE "hash_policy")
     ELSE Ends("load_cases", 2)
  /\ UNCHANGED <<hashed, written>>

\* load_cases and the evaluation, before either file is hashed.
LoadCases ==
  LET cases == casesFile[at.cases] IN
  /\ request.kind = "benchmark"
  /\ loaded' = [loaded EXCEPT !.cases = at.cases]
  /\ IF ValidCases(cases) THEN Goto("load_cases", "hash_policy") ELSE Ends("load_cases", 2)
  /\ UNCHANGED <<hashed, written>>

\* Each scenario that passes or not is counted; one is enough for exit code 1.
Replay ==
  /\ request.kind = "replay"
  /\ loaded' = [loaded EXCEPT !.cases = at.cases]
  /\ Ends("load_cases",
          IF ~ValidScenarios(casesFile[at.cases]) THEN 2
          ELSE IF \E o \in ToSet(Outcomes(CurrentPolicy, CurrentCases)') : o.actual # o.expected
               THEN 1 ELSE 0)
  /\ UNCHANGED <<hashed, written>>

Write(file, from, to) == Goto(from, to) /\ written' = written \union {file}

WriteReport ==
  /\ \/ Write("json", "write_json", "write_markdown")
     \/ Write("markdown", "write_markdown", "gate")
     \/ (Ends("write_json", 2) \/ Ends("write_markdown", 2)) /\ UNCHANGED written
  /\ UNCHANGED <<loaded, hashed>>

\* EXIT_THRESHOLDS, when a gate is set and not met.
CheckThresholds ==
  /\ Ends("gate", IF /\ request.gate # Absent
                     /\ ThresholdFails(request.gate, Outcomes(CurrentPolicy, CurrentCases))
                  THEN 5 ELSE 0)
  /\ UNCHANGED <<loaded, hashed, written>>

BenchmarkStep ==
  /\ UNCHANGED <<request, casesFile, at, slipped>>
  /\ HashPolicy \/ HashCases \/ LoadPolicy \/ LoadCases \/ Replay \/ WriteReport \/ CheckThresholds

\* Other contents for a file, at any time and any number of times.
Edit ==
  /\ exit = Absent
  /\ \/ /\ \E version \in DOMAIN PolicyVersions \ {at.policy} : at' = [at EXCEPT !.policy = version]
        /\ slipped' = slipped \union {f \in {"policy"} : step \in {"load_cases", "hash_policy"}}
     \/ /\ \E version \in DOMAIN casesFile \ {at.cases} : at' = [at EXCEPT !.cases = version]
        /\ slipped' = slipped \union {f \in {"cases"} : step \in {"hash_policy", "hash_cases"}}
  /\ UNCHANGED <<request, casesFile, step, loaded, hashed, written, exit>>

-----------------------------------------------------------------------------
(***************************************************************************)
(* What the exit codes should mean                                         *)
(***************************************************************************)
\* The calls that were evaluated.
Scored(cases) == UNION {{<<i, k>> : k \in DOMAIN cases[i].calls} : i \in DOMAIN cases}

Label(cases, x) == cases[x[1]].expected[x[2]]

\* The decision of call k of a case: the rules decide while the budget has
\* room for one call more than were allowed before it.
Decision(p, case, k) ==
  LET rules == [j \in DOMAIN case.calls |-> P(p)!RuleDecision(case.calls[j]).kind]
      allowed == {j \in 1..(k - 1) : rules[j] = "allow"}
  IN IF p.max_calls # Absent /\ Cardinality(allowed) >= p.max_calls
     THEN "block" ELSE rules[k]

Decided(p, cases, x) == Decision(p, cases[x[1]], x[2])

\* At most, and at least, the share t of the calls in S is in T; no minimum is
\* met by no calls.
AtMostShare(t, T, S) ==
  t = Absent \/ Cardinality(S \intersect T) * t.d <= t.n * Cardinality(S)

AtLeastShare(t, T, S) ==
  t = Absent \/ (S # {} /\ Cardinality(S \intersect T) * t.d >= t.n * Cardinality(S))

GateHolds(gate, p, cases) ==
  LET scored == Scored(cases)
      labelled(kinds) == {x \in scored : Label(cases, x) \in kinds}
      decided(kinds) == {x \in scored : Decided(p, cases, x) \in kinds}
  IN /\ AtMostShare(gate.max_dangerous_allow_rate, decided({"allow"}), labelled({"block"}))
     /\ AtMostShare(gate.max_safe_friction_rate, decided(Stopped), labelled({"allow"}))
     /\ AtLeastShare(gate.min_intervention_recall, decided(Stopped), labelled(Stopped))
     /\ AtLeastShare(gate.min_approval_accuracy,
                     decided({"require_approval"}), labelled({"require_approval"}))
     /\ AtLeastShare(gate.min_exact_accuracy,
                     {x \in scored : Label(cases, x) = Decided(p, cases, x)}, scored)

\* The exit code tells a script the truth about the files that were read: a
\* benchmark that ends with 0 or 5 has written both reports, and it is 0
\* exactly when every threshold is met by the calls themselves, however rare
\* the miss ("display rounding cannot hide a rare miss", check_thresholds).
\* A replay ends with 0 exactly when every call is decided as expected.
ExitIsTrue ==
  /\ request.kind = "benchmark" /\ exit \in {0, 5} =>
       /\ written = {"json", "markdown"}
       /\ (exit = 0) <=> \/ request.gate = Absent
                         \/ GateHolds(request.gate, CurrentPolicy, CurrentCases)
  /\ request.kind = "replay" /\ exit \in {0, 1} =>
       ((exit = 0) <=> \A x \in Scored(CurrentCases) :
                         Label(CurrentCases, x) = Decided(CurrentPolicy, CurrentCases, x))

\* A report tells of a drift from the frozen files.  Each file is read three
\* times: verified, loaded and hashed for the report.  An edit after the
\* verification may be evaluated, but the hash that the report shows is then
\* not that of the manifest, however the edits of the two files fall between
\* the six reads, unless the same file is edited once more after it was loaded
\* and before it is hashed: an edit that is undone just then goes unseen.
ReportTellsDrift ==
  "json" \in written /\ hashed = Frozen =>
    /\ loaded.policy = Frozen.policy \/ "policy" \in slipped
    /\ loaded.cases = Frozen.cases \/ "cases" \in slipped
=============================================================================
