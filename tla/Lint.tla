-------------------------------- MODULE Lint --------------------------------
(***************************************************************************)
(* The static linter (lint.py) against what rules match at run time: the   *)
(* globs of matchers.glob_match, and the first match of Policy.evaluate.   *)
(* The text of a pattern matters here, since the linter compares texts;    *)
(* argument patterns are told apart by what the linter asks of them.       *)
(***************************************************************************)
EXTENDS Matchers

CONSTANTS
  Pattern,   \* the tool patterns of rules, as sequences of characters
  Name,      \* tool names, as sequences of characters
  MaxRules   \* bound: rules of a policy

ASSUME TextAssumption ==
  /\ Pattern \subseteq Seq(STRING) \ {<<>>}
  /\ Name \subseteq Seq(STRING)

VARIABLES
  policy,    \* the policy that is linted
  findings   \* what lint_policy reported, as pairs of code and rule index

lintVars == <<policy, findings>>

\* No argument patterns, a plain one, or a string glob that looks like a URL.
Arguments == {"none", "plain", "url_glob"}

DecisionKind == {"allow", "block", "require_approval"}

Rule == [tool : Pattern, arguments : Arguments, decision : DecisionKind]

Policies == [default : DecisionKind, limited : BOOLEAN,
             rules : UNION {[1..n -> Rule] : n \in 1..MaxRules}]

LintInit ==
  /\ policy \in Policies
  /\ findings = {}

-----------------------------------------------------------------------------
(***************************************************************************)
(* What the rules of the policy match                                      *)
(***************************************************************************)
Matched == {m \in Pattern \X Name : GlobMatch(m[1], m[2])}

\* A call: the name of its tool, and the argument patterns its arguments match.
\* No arguments are constrained: every call matches.
Calls == [name : Name, arguments : SUBSET (Arguments \ {"none"})]

RuleMatches(rule, c) ==
  <<rule.tool, c.name>> \in Matched /\ rule.arguments \in c.arguments \union {"none"}

-----------------------------------------------------------------------------
(***************************************************************************)
(* lint_policy                                                             *)
(***************************************************************************)
MatchesEverything(tool) == tool \in {<<"*">>, <<"*", "*">>}

IsBroadTool(tool) == ToSet(tool) \intersect {"*", "?", "["} # {}

\* Mutant: a star at the end is enough.
GlobCoversStar(broad, specific) ==
  broad = specific \/ Last(broad) = "*" \/ GlobMatch(broad, specific)

\* _glob_covers: is every name that matches specific matched by broad?
GlobCovers(broad, specific) ==
  \/ broad = <<"*">>
  \/ broad = specific
  \/ /\ "*" \in ToSet(broad)
     /\ Last(broad) = "*"
     /\ IsPrefix(Front(broad), specific)
  \/ /\ "*" \notin ToSet(broad)
     /\ "*" \notin ToSet(specific)
     /\ GlobMatch(broad, specific)

EmptyArguments(rule) ==
  /\ rule.decision = "allow" /\ rule.arguments = "none"
  /\ ~MatchesEverything(rule.tool) /\ IsBroadTool(rule.tool)

BroadAllowAll(rule) == rule.decision = "allow" /\ MatchesEverything(rule.tool)

UrlGlobLookalike(rule) == rule.arguments = "url_glob"

Equivalent(first, second) ==
  first.tool = second.tool /\ first.arguments = second.arguments

\* Mutant: only the same pattern hides.
HidesApprovalSame(earlier, later) ==
  /\ later.decision = "require_approval"
  /\ earlier.decision = "allow" /\ earlier.arguments = "none"
  /\ earlier.tool = later.tool

HidesApproval(earlier, later) ==
  /\ later.decision = "require_approval"
  /\ earlier.decision = "allow" /\ earlier.arguments = "none"
  /\ GlobCovers(earlier.tool, later.tool)

PolicyFindings ==
  {code \in {"permissive_default", "no_budgets"} :
     \/ code = "permissive_default" /\ policy.default = "allow"
     \/ code = "no_budgets" /\ ~policy.limited} \X {0}

RuleWarnings(i) ==
  LET rule == policy.rules[i] IN
  {code \in {"empty_arguments", "broad_allow_all", "url_glob_lookalike"} :
     \/ code = "empty_arguments" /\ EmptyArguments(rule)
     \/ code = "broad_allow_all" /\ BroadAllowAll(rule)
     \/ code = "url_glob_lookalike" /\ UrlGlobLookalike(rule)} \X {i}

\* The first earlier rule that hides rule i, of which one finding is made.
RuleErrors(i) ==
  LET earlier == {policy.rules[j] : j \in 1..(i - 1)}
      rule == policy.rules[i]
  IN {code \in {"shadowed_equivalent", "approval_shadowed_by_allow"} :
        \E first \in earlier :
          \/ code = "shadowed_equivalent" /\ Equivalent(first, rule)
          \/ code = "approval_shadowed_by_allow" /\ HidesApproval(first, rule)} \X {i}

LintPolicy ==
  /\ findings' =
       PolicyFindings \union
       UNION {RuleWarnings(i) \union RuleErrors(i) : i \in DOMAIN policy.rules}
  /\ UNCHANGED policy

-----------------------------------------------------------------------------
Shadowed == {"shadowed_equivalent", "approval_shadowed_by_allow"}

Errors == {"permissive_default", "no_budgets"} \union Shadowed

\* Policy.evaluate: rule i decides c.
Decides(i, c) ==
  /\ RuleMatches(policy.rules[i], c)
  /\ \A j \in 1..(i - 1) : ~RuleMatches(policy.rules[j], c)

Dead(i) == \A c \in Calls : ~Decides(i, c)

\* A rule that the linter calls unreachable decides no call: deleting it
\* changes nothing ("left unclassified rather than risking a false positive",
\* docstring of _glob_covers).
FlaggedIsDead ==
  \A f \in findings : f[1] \in Shadowed => Dead(f[2])

HasClass(tool) == "[" \in ToSet(tool)

\* A rule that the linter calls unreachable because an earlier rule is its
\* equal, or because an earlier one hides it and no pattern up to it has a
\* class of characters, decides no call.
PlainFlaggedIsDead ==
  \A f \in findings :
    \/ f[1] = "shadowed_equivalent"
    \/ /\ f[1] = "approval_shadowed_by_allow"
       /\ \A i \in 1..f[2] : ~HasClass(policy.rules[i].tool)
    => Dead(f[2])

\* A pattern whose names the linter promises to recognise: no star, or one
\* behind letters.  It leaves approval rules with a class unclassified.
Simple(tool) ==
  \/ "*" \notin ToSet(tool)
  \/ Last(tool) = "*" /\ ToSet(Front(tool)) \intersect {"*", "?", "["} = {}

\* It limits the run, allows nothing that no rule allows, and no rule for
\* approval is dead behind an allow rule of a simple pattern that takes any
\* arguments.
Guarded ==
  /\ policy.limited
  /\ \A c \in Calls :
       (\A i \in DOMAIN policy.rules : ~RuleMatches(policy.rules[i], c)) =>
         policy.default # "allow"
  /\ \A i \in DOMAIN policy.rules, j \in DOMAIN policy.rules :
       LET allow == policy.rules[j]
           held == policy.rules[i]
       IN j < i /\ allow.decision = "allow" /\ allow.arguments = "none"
                /\ Simple(allow.tool)
                /\ held.decision = "require_approval" /\ ~HasClass(held.tool) =>
            \E s \in Name : <<held.tool, s>> \in Matched /\ <<allow.tool, s>> \notin Matched
=============================================================================
