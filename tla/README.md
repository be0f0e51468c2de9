# agent-firewall: specifications and proofs

TLA+ modules for `src/agent_firewall`, the policy firewall that stands between
an agent and its tools, with the TLC runs that check them on small instances and
TLAPS proofs for every value of the constants.

## 1. The system

A tool call arrives at a `Firewall` (in a Python process, or in the MCP proxy
around a server). The policy is evaluated against the usage of the run, the
decision is audited, a held call waits for an approver, the operation runs, and
its end is audited. Several processes may share the SQLite file that holds the
usage counters and the approvals.

| Component | State | Operations | Talks to |
|---|---|---|---|
| Policy (`policy.py`, `models.py`) | none (a frozen policy) | `evaluate`, `budget_decision`, `Usage.record`, `reserves_usage` | called by the stores |
| State store (`state.py`) | counters of the run, per tool, per fingerprint; in memory under a lock or in three SQLite tables | `usage`, `evaluate_and_reserve` | called by the gate and the dashboard; calls the policy inside its lock |
| Audit log (`audit.py`) | a JSONL file, a lock per object | `record` | called by the gate; read by the dashboard |
| Gate (`firewall.py`) | the call in progress, nothing else | `call`, `acall`, `call_with_arguments`, `wrap`, `check` | state store, approver, audit log, the operation |
| Approval queue (`approvals.py`) | a table of approvals | `wait` (`request`, `get`), `decide`, `pending` | the gate waits in it, the dashboard decides in it |
| Dashboard (`dashboard.py`) | a token | list, summary, POST of a decision | approval queue, state store, audit log |
| MCP proxy (`mcp_proxy.py`, `jsonrpc.py`) | pending requests, claimed client ids, the child process, write locks | forward, passthrough, reject, time out, abort | the gate for `tools/call`; client and child over pipes |
| Matchers, lint, explain, benchmark (`matchers.py`, `lint.py`, `explain.py`, `benchmark.py`) | none | pure functions | policy |
| Command line, doctor (`cli.py`, `doctor.py`) | none | `check`, `policy lint`, `doctor`, `benchmark`, `replay`, `explain`, each ends with an exit code | everything |

What is hard, and where it is listed: `PROJECT.json`, `hazards`, gives each
point at its line. In short:

* **Check and count.** A limit is compared and the counter raised in two steps;
  threads, processes, failures and crashes come between (`state.py`).
* **Decide, think, act.** An approver thinks for minutes while other calls spend
  the budget; the decision taken before must not be acted on (`firewall.py`).
* **Evidence.** The audit record, the operation and what the caller is told are
  three things that can each fail; none may contradict another (`firewall.py`,
  `audit.py`).
* **One verdict.** The automatic denial at a deadline races operators, and each
  of them must be told what really happens (`approvals.py`).
* **Pending requests.** Answers, timeouts, a stalled or dead child and id reuse
  (`mcp_proxy.py`).
* **Two reads.** A page reads the table twice while operators and deadlines decide;
  a benchmark hashes, loads, evaluates and hashes files that someone edits
  (`dashboard.py`, `benchmark.py`).
* **Text.** What a matcher means by a path, a domain or a statement is what it makes of
  every string, not of the well-formed ones (`matchers.py`).

What makes each component correct:

* Policy: budgets only ever block; the first matching rule wins; a held call
  reserves nothing.
* State store: evaluation and counting are one step; counters count exactly the
  calls that may run (in memory also those whose count failed half way); every
  invocation ends and frees the lock.
* Audit log: a record is in the file whole, once, in order, or its writer knows
  that it is not; nothing follows an incomplete record.
* Gate: nothing runs outside the budget, without its record, or against its rule;
  the caller is told the truth; no call stays inside.
* Approval queue: one verdict per call; whoever was told one is told that one;
  silence denies, in bounded time.
* MCP proxy: each request is answered exactly once, unless its task raises; a
  `tools/call` reaches the child only through the gate; ids never cross.
* Dashboard: a response tells the truth about the row and about the request; a page
  counts the calls that it hides, but for what happens while it is read.
* Matchers: a pattern that loads raises for host names that are no C strings and for
  nothing else; a match contains what the policy names and is one statement.
* Lint, explain: they agree with `evaluate`.
* Benchmark, command line: an exit code is true of the files that were read, and a
  report of the hashes it prints.

## 2. The modules

| Module | Models |
|---|---|
| `Policy` | the decision function, the counters, and the reference counts they are compared with |
| `Ledger` | the state store as one indivisible step per call: the memory store as it is, and what the SQLite store promises (the constant `Store`) |
| `StateStore` | the SQLite store, statement by statement |
| `AuditTrail` | the promise of an audit log |
| `AuditLog` | `JsonlAuditLog.record`, step by step, threads and processes |
| `Firewall` | the gate, over a ledger and one audit trail per process |
| `ApprovalVerdict` | the promise of the approval queue: one verdict, the same for all |
| `ApprovalQueue` | the approvals table, the waiting loop and `decide`, statement by statement |
| `Exchange` | the promise of the proxy about each message of its client |
| `McpProxy` | the proxy's event loop: tasks, id tables, writes, timeouts, abort, reader, shutdown |
| `LineReader` | the two readers that cut the input of the proxy into lines, with their limit |
| `Dashboard` | the HTTP handlers: a POST with all its responses, the two reads of a summary |
| `Matchers` | `compile` and `match` of the seven typed matchers, globs, and the spellings of an address, on texts |
| `Lint` | the linter, with globs as texts, against first match |
| `Benchmark` | the steps of `benchmark` and `replay`, their metrics and thresholds, under edits |
| `CommandLine` | the commands that take no part in a run, with their exit codes |
| `Explain` | the explanation of a decision, against `Policy` |
| `MC*` | instances for TLC |
| `*Proofs` | theorems |

How they fit together:

```
  Policy <-- Ledger <-- Firewall, Explain   (EXTENDS)
    ^          ^            |
    |          | implements | INSTANCE
    +------ StateStore      v
                        AuditTrail <-- AuditLog     (implements)
            ApprovalVerdict <-- ApprovalQueue       (implements)
                                    ^
                                Dashboard           (EXTENDS, implements)
                   Exchange <-- McpProxy            (implements)

  Matchers <-- Lint <-- CommandLine --> Benchmark   (EXTENDS)
                                            | INSTANCE, once per version of the policy
                                            v
                                         Policy
```

`Firewall` uses the two promises, `Ledger` and `AuditTrail`, in place of the
detailed stores; `StateStore` and `AuditLog` are shown to implement them.
`ApprovalVerdict` is what `Firewall`'s action `ApproverAnswers` assumes of an
approver: one answer, or an exception. `McpProxy` sees the gate from outside:
its state `gate` is a call inside `acall_with_arguments` before the operation,
`GateRefuses` and `GateAdmits` are how `Firewall` can leave that stretch, and
`Outcome` is the terminal record that `Firewall` may fail to write. `LineReader` is
what turns bytes into the messages of `McpProxy`. `Dashboard` puts the handlers of a POST
around the steps of `decide` and adds the reads of a page. `Matchers` and `Lint` are about the
texts of patterns and arguments, which `Policy` abstracts to the sets of what a pattern
matches. `CommandLine` composes them with `Benchmark`: each of its commands is a process
that ends with an exit code, which is what its properties are about.

**State and code.** A call has a program counter whose values are the places
where the code can be interrupted. In `Firewall`, `record_decision` is
the state between the return of `evaluate_and_reserve` and the end of `_audit`,
and so on; the outcomes are named after the exceptions (`AuditWriteError+` is
`AuditWriteError` with `after_execution=True`). In `StateStore` and
`ApprovalQueue` a statement of SQL is a step; `tx` holds what an open
transaction has written. History variables (`granted`, `halfCounted`, `started`,
`verdict`, `result`, `written`, `told`, `since`, `slipped`) record what happened and are read by no
action; `result` stands for the local variable or exception that the gate
carries to its terminal record, and is the one exception.

In `McpProxy` a step is what one asyncio task does between two awaits, which is
why claiming an id, registering a future and testing `_child_failure` need no lock
there and are one action here. `writing` waits for `write_lock`, `draining`
holds it, `aborting` and `terminating` are the two halves of `_abort_child`,
`waiting` is the `wait_for` around the future. `answers` and `escaped` are
histories of what the client was sent; `line` is what became of the bytes
written for a message, which no code of the proxy can see.

In `Dashboard` a request is `open` from its first statement to its response;
`decided` remembers that its UPDATE changed the row while the response is still to come, and
`closed` is a connection that ends without one, because `do_POST` catches no
`sqlite3.Error`. In `Benchmark` `at` numbers the current version of each file, `loaded` and
`hashed` the versions that were read; a step is one read or one write of a file, and an
edit moves `at` to any other version, also back. `slipped` are the files that were edited
after they were loaded and before they were hashed for the report.

Definitions named as mutants (`RecordNoTool`, `BeginDeferred`, ...) are wrong
variants of the definition that follows them. No action uses them; put in place
of that definition, each makes one property fail.

**Abstractions.**

* A rule's glob and argument patterns are the sets of names and arguments they
  match. A fingerprint is the pair that is hashed; `bounded` is a function on
  arguments that may identify two of them. `Unencodable` are the calls whose arguments or
  name hold a lone surrogate: JSON can escape it, and `fingerprint` raises
  `UnicodeEncodeError` for it.
* Money is a natural number. Rounding of the `Decimal` context, which
  `docs/THREAT_MODEL.md` documents as an open limitation, is outside the model.
* An audit record is its event; its other fields, redaction and hashing are data. In the mode
  `hash` the record of a call in `Unencodable` asks for its fingerprint (`audit.py:46`), which
  raises before the file is opened: for the gate this is one more append that fails with
  nothing written, with another exception.
* The gate has an audit log. Without one `_audit` does nothing, and the
  properties about evidence say nothing.
* SQLite is what `state.py` and `approvals.py` use of it: one holder of the write
  lock, isolation until COMMIT, rollback when a connection closes or dies. A
  statement may fail at any time.
* A message of the proxy, or its response, may hold such text too (`Garbled`), and
  `encode_message` then raises: before the line is written, or before the answer is. The
  client's ids are taken to be text that can be encoded.
* The wrapped server is any program that speaks lines: it reads some of them,
  answers those it read any number of times in any order, stops, loses its
  pipes, exits. It knows only the ids it has read (they hold a random prefix).
  What it sends without being asked passes through the proxy unchanged and
  touches none of this state. A response is sent and read in one step: the
  proxy sees nothing in between.
* A line counts as readable once its writer's `drain` is over, and is lost with
  the pipe if it was not read. Timers fire at any time, also the moment
  after the event they wait for.
* `write_lock` is taken in any order; asyncio's is fair, so the code has
  fewer behaviours.
* `LineReader` has the whole input from the start and lets each read of the server's
  output return any prefix of what was asked for; `readline` blocks until it has all.
* Strings are sequences of characters only in `Matchers` and the modules over it, and
  hold only the characters their code tells apart; upper and lower case are one letter
  each. A URL is the record that `urlsplit` makes of it. What `ipaddress.ip_address` and
  `socket.inet_aton` make of a host name is a parameter of `Matchers` (`IpAddress`,
  `IntegerAddress`, `InetAton`; `HostText` says what is assumed of them); the readings that
  `_is_private_literal` tries, their order and what it catches are modelled. An address is
  global or not, and no more. Space stands for every blank but the line break. A literal of
  SQL is in single quotes. Commands have no quotes. Classes of globs
  have no `!` and no `-`. Numbers are small naturals and the texts of two of them.
* In `Lint` an argument pattern is one of three kinds, of which a call may match any
  combination. Only the findings are modelled, without their order and text.
* The age window of `pending()` is set in another process than the timeout of a wait, so
  `Dashboard` lets every read hide any of the rows. The checks of a POST that come before
  the queue (host, origin, path, token, type, size, decision) are one refusal.
* In `Benchmark` a rate is a fraction, where the code has a float; only the rounding of the
  printed rates is modelled, by the mutant that compares them. A hash is the number of
  a version; an edit may restore any version, that of the manifest too. The calls of a case share one
  usage, as in the code; categories, provenance and layout are data.
* `check` is asked for one field of one matcher in a policy that allows what it matches;
  `doctor` sees an environment in which each of its directories and its command may be
  usable or not.
* The proxy's process is not killed in the model: it keeps nothing that
  survives it (the store and the audit log do, and have their own crashes).
* A process dies with all its calls. A call made after a restart is another call.

## 3. The runs

| Run | Instance | Question |
|---|---|---|
| `state_store` | 3 calls, 1 reader, limits 2 / 2 / 2 and cost 3 | do the statements implement the ledger, and does every invocation end? |
| `audit_one_process` | 3 threads, 2 records each | does the file implement the trail? |
| `audit_two_processes` | 2 processes, 2 records each | does it with two writers of one path? (no) |
| `firewall` | 4 calls, 2 processes, SQLite, limits 3 / 2 / 1 and cost 1 | do budgets, approvals, outcomes and evidence agree, for good, and is every decision explained? |
| `firewall_memory` | 4 calls, 1 process, memory, 2 calls without fingerprint, 1 without approver, limits 2 / 2 / none and cost 2 | what do the counters count, and does every call leave the gate? |
| `dashboard` | 2 calls, 2 operators of whom one reads the summary, timeout 1 | one verdict, told to all in time, and how far can the numbers of a page be off? |
| `proxy` | a call, a request and a malformed line with one id, a notification | one answer each, its own, and true, if its text can be encoded; does everything end? |
| `proxy_exit` | a call and a request with different ids | is a request to a dead server answered? (no) |
| `line_reader` | inputs of up to 7 bytes, limit 3, drained by 3 | is every line that fits returned, and every other skipped? |
| `line_reader_small_limit` | up to 8 bytes, limit 2, drained by 6 | also with a limit below the draining read? (no) |
| `command_line` | short texts for every matcher, policies of 2 rules, labellings of 4 calls | is what each command ends with true of what it read? |
| `lint_classes` | 4 patterns, 2 of them with a class of characters | also of patterns with classes? (no) |

**Bounds and why they are enough.**

* Calls: a budget race needs two calls at the last place of a limit and a third
  that took the place before. The instances have these for every limit: two
  calls identical by their bounded arguments, more calls of a tool than its limit,
  costs that fill the budget in some orders and not in others. In `firewall` each of the
  four limits is the first to refuse in some order of the calls.
* `firewall_memory` has the calls without a fingerprint that `firewall` has not: one that is
  allowed at once and one that is held, so that each of the two evaluations of a call can
  raise. It has no limit on identical calls, since with one the budget asks for the
  fingerprint first and nothing is counted.
* Every call asks at most twice (on arrival, and approved), which is the code's
  protocol and no bound.
* `MaxRecords` (2 records per thread) lets a record follow a torn one of its own
  thread and of another.
* Operators make one POST each; two of them contradict each other or repeat
  themselves on one call while it denies itself and the other call's waiter wants the
  lock, or decide one call each.
* Time in `ApprovalQueue` is the time a waiter has left, which stops at 0: the code
  compares it with nothing else.
* `proxy` gives three messages the same id, so that an id is used again while its
  owner is in the gate, in the lock queue, waiting, timed out or answered, with a
  late response of the old owner on its way; the notification competes for the
  write lock, stalls it, or waits for it behind a call whose stalled write aborts the
  server.
* `line_reader`: seven bytes hold a line over the limit, two that fit and an end
  in the middle of a line, and every way to split them. `DrainSize <= Limit + 1` stands
  for the default of 64 MiB against reads of 65536 bytes.
* `dashboard`: a summary is read, decided upon and read again while one call is
  approved or denied, expires or is hidden, and the other is still held.
* `command_line`, `check`: paths of up to 5 characters of `/`, `.` and `a` under roots of up to
  3, which hold `..` above the root, doubled and trailing slashes and siblings that
  share a prefix; mail addresses of up to 4 characters under suffixes of up to 2; SQL of up
  to 5 characters, enough for a comment that hides or ends before a `;`, under operations of up
  to 2 letters and `;`, and with quotes around a `;` or a mark of a comment; commands of up to
  4 characters with `;` for the control characters, a backquote and a line break; host names of
  up to 4 characters, with `NUL`, zones and the prefix of a base, and the longer ones that
  the readings of four parts and the limit of 32 digits need; and for every field of every operator
  values of every JSON type.
* `command_line`, `benchmark`: four calls with every one of the 81 labellings, a gate with one
  bound on each of the five rates, and an edit of either file between any two
  steps; the reports round to tenths (`Digits`), where the code has four digits, so that a
  rate that is rounded onto its bound occurs with four calls. `DoctorRules` is 1: the policies
  of two rules are linted.
* `command_line`, `policy lint`: what lint compares are pairs of rules; every pattern of one or two
  characters over two letters, `?` and `*` is among them, and longer ones for a
  prefix before a star and a star inside, and two with a class of letters.

Deadlock checking is off: calls, records and posts are finite in number, and when
all have ended the system stops. So does a line reader at the end of its input, and
a command when it has ended.

**Fairness.** `StateStore`, `AuditLog` and `ApprovalQueue` assume that a thread
that can take a step of its own eventually does (weak fairness of the union
of its actions, never of one outcome): a caller blocked in `BEGIN IMMEDIATE` has
its busy timeout, a thread blocked on the audit lock waits for threads that are
scheduled too. `ApprovalQueue` assumes also that time passes, and `Dashboard` nothing
more: nobody waits for an operator, a request or a page. `Firewall` assumes that the gate's threads are scheduled
and that an approver answers or raises: for the approval queue this is
`EveryWaitEnds`; for a callback of the user's it is an assumption. Nothing is
assumed of the guarded operation, so `EveryCallLeavesTheGate` ends where the
operation has control. `McpProxy` assumes that its timers fire, that the gate
decides (which is `EveryCallLeavesTheGate`), that a killed server exits, that
a server whose stdin is closed exits (the convention of MCP over stdio, without
which `run` waits in `process.wait` for as long as the server likes), and that the
end of its output is read. It assumes neither that the server reads or answers,
nor that a write or a response comes through.

`LineReader` assumes that what was sent arrives, and the end of the file with it.

**Disagreements with the documentation** (`findings`, each with a run):

1. `audit.py:57`: the look at the last byte and the append are separate, under a
   lock of the object; with two objects or processes on one path a record can
   land on the line of an incomplete one, against `docs/THREAT_MODEL.md:54`.
   Within one object it cannot (`ImplementsTrail` in `audit_one_process`).
2. `mcp_proxy.py:512`: `docs/THREAT_MODEL.md:127` promises an error for a request
   whose server exits. If the pipe is already lost when the request is written,
   `drain` raises `ConnectionResetError`, which `_passthrough_client_message` does
   not catch: the request is never answered and, when the client ends its input,
   `run` raises. `tools/call` is not affected, since the gate's caller catches
   every exception. `AnsweredOnce` and `ReturnsAnswered` name this outcome
   (`raised`) and hold around it.
3. `mcp_proxy.py:106`: `_read_child_line` compares the limit with all it holds
   back instead of with the first line of it. With `--max-line-bytes` below 65536 the
   lines of the server right behind an oversized one are dropped, against the docstring
   of the function (line 95).
4. `lint.py:198`: `_glob_covers` matches the text of the later pattern against the earlier
   one, so that a class of characters is compared as text: `[?]` is taken to cover `?`,
   and an approval rule that decides calls is reported as unreachable, against the docstring
   (line 189). `PlainFlaggedIsDead` is what holds, of policies without classes.

Smaller ones, met while modelling and left without a run:

* `state.py:76`: a reservation whose connection cannot be opened raises
  `sqlite3.Error` (`ConnectFails` in `StateStore`); `docs/THREAT_MODEL.md:126` promises
  `StorageError`. Nothing is reserved or executed.
* `models.py:137`: `Usage.record` raises the count of the run, its cost and the count of the
  tool before it asks for the fingerprint, which raises for text with a lone surrogate.
  `SQLiteStateStore` rolls back; `MemoryStateStore` keeps the three. The call is not granted
  and its caller gets the exception, but the budget has been charged for it: `CountsAgree`
  and `CostAgrees` count these calls apart (`halfCounted`). Budgets are never exceeded by
  it (`GrantedWithinBudget`); they are spent sooner.
* `approvals.py:98`: a row that `pending()` hides for its age can still be waited for and
  consumed, for as long as the insert was delayed or a poll interval lasts; the
  docstring calls its proxy dead.
* `dashboard.py:89`: the hidden calls of a summary are the difference of two reads. If a visible
  call is decided between them, the number is one too low, and a hidden call that still waits
  can be in neither number until the page asks again. `HiddenIsCounted` bounds the
  difference, and says that nothing is missing when nothing is decided in between.
* `mcp_proxy.py:564` and `mcp_proxy.py:511`: a request other than `tools/call` that holds a
  lone surrogate, and any request whose response does, is not answered: `encode_message` raises
  (its docstring speaks only of a message that is nested too deeply), nothing catches it,
  and `run` raises as in 2. A `tools/call` that holds one is answered with -32603.
* `matchers.py:439`: under `deny_private_networks` a host name with a NUL or a lone surrogate
  makes `match` raise `ValueError` (or `UnicodeEncodeError`, which is one), since only
  `OSError` is caught; the docstring of `match` (line 126) says that what is not the right shape
  "simply does not match". `RaisesOnlyForHosts` says that these are the only arguments that do.
* `matchers.py:610`: `_strip_sql_comments` knows no literals. `SELECT '--'; SELECT 2`
  is cut at the `--` and matches the operation `SELECT`, although
  `docs/ARGUMENT_MATCHERS.md:134` says that a separator followed by anything never matches
  (`tests/test_matchers.py:590` tests texts without literals). `OneStatement` is
  about the texts in which no literal holds a mark of a comment; a text that is not `Veiled` has
  one statement, whatever else its literals hold.
* `benchmark.py:566`: the report says that the manifest "rejects later drift", the docstring of
  `verify_freeze` (line 388) that it prevents it. Files edited between `verify_freeze` and the
  load are evaluated. The report then shows their hashes and not those of the manifest, unless
  the edit is undone between the load and the second hash (lines 507-508): then files are
  evaluated that were not frozen, under the hashes of those that were (`ReportTellsDrift`
  says that this is the only way).
* `doctor.py:5`: the probe is called a tool that no policy rule can match; a rule for `*`
  matches it, and doctor then reports what that rule decides.

## 4. What is proved

Checked by TLAPS for every set of calls, tools, processes, operators, texts and files, every
policy and every timeout, from the named assumptions of the modules
(`CallAssumption`, `UnencodableAssumption`, `StoreAssumption`, `BoundedAssumption`, `BudgetAssumption`, `RulesAssumption`,
`NobodyAssumption`, `ProcessAssumption`, `WriterAssumption`, `QueueAssumption`,
`ViewerAssumption`, `MessageAssumption`, `ReaderAssumption`, `TextAssumption`,
`DigitsAssumption`, `ContentsAssumption`, `NoneAssumption`, `AskedAssumption`): these say what
`Policy.from_dict`, `load_cases`, `money` and the constructors validate, and that a text is
made of characters and is not `None`; `AskedAssumption` says also what the libraries answer
for a host name (`HostText`); `ViewerAssumption` says also that the calls are
finitely many, since a page counts them. The type invariants, `CountedIffMayRun` (theorem
`HeldUsesNothing`), `CommittedWithinBudget` (`StoreWithinBudget`), `GateFollowsLedger`,
`GateFollowsTrail` and `DashboardRunsQueue` are proved and not part of a run.

* **`PolicyProofs`** holds the lemmas about the operators of `Policy`, among them those
  about the total cost of a set of calls: that it exists, does not depend on the order,
  and grows by the cost of each call (`TotalCostOfOneMore`, `TotalCostMonotone`).
* **`StateStoreProofs`.** The invariant says what the transaction has written at
  each statement, in terms of the committed tables and the call that holds the
  lock. At COMMIT that is `Record(db, c)`, so COMMIT is the ledger's step and the
  others stutter: `StoreImplementsLedger`; then `StoreWithinBudget`. `TotalsInv` relates the
  three tables by sums (each call raises the counter of the run, of one tool and of one
  fingerprint), and `ReaderInv` orders what a reader has against what is committed:
  `ReadsAreOrdered`.
* **`FirewallProofs`**, for `Ledger`, `Explain` and `Firewall`. `LedgerInv` adds to the budget
  and counting properties that `granted` is finite and that only decided answers hold a
  decision. The heart is `AskersNotCounted`: a call that may ask has not been counted, so
  recording it adds one element to a finite set (`GrantOne`) whose size the budget
  check has just compared (`RoomForOne`); nor has it been counted by half, which adds it to
  another set and to three of the counters. Theorems: `LedgerTypeCorrect`,
  `CountersCorrect`, `CostCorrect`, `BudgetSafe`, `HeldUsesNothing`, `SpentForGood`.
  `ExplanationIsTrue`: the shown checks are triggered exactly when the budget refuses
  (`NoneTriggered`), the first of them names the code, and a rule is marked exactly if one
  matches. `FInv` is the ledger's invariant and, call by call, what the
  place of a call implies about its answer, records, verdict and result
  (`Ready`: nothing but the operation stands between a call and its execution).
  Each step touches one call (`OneCallMoves`), except the death of a process.
  `EInv` is a second invariant on top of it, which gives the exact contents of the log at
  each place: `FInv` alone cannot exclude a record that came too early. Theorems:
  `GateTypeCorrect`, `RunsStayWithinBudget`, `RunsStayWithinCost`, `AdmissionRecordedFirst`,
  `ApprovalIsHonoured`, `OutcomesAreTrue`, `EvidenceNeverLies`, `TornLogFreezes`, and
  that the gate uses the store and the log as their promises say (`GateFollowsLedger`,
  `GateFollowsTrail`).
* **`ApprovalProofs`**, for `ApprovalQueue` and `Dashboard`. `QInv` says that the lock is
  held exactly inside a transaction, so that a row seen pending is pending at its UPDATE,
  and what a waiter past its denial knows of its row. `SInv` adds who is behind a verdict:
  the request of an operator, or a deadline that has passed. `DashboardRunsQueue`: every
  step of the handlers is a step of the queue or none, so all that is proved of the queue
  holds behind the dashboard. `HttpInv` tells where a request is from where its `decide`
  is, which gives `ResponsesAreTrue`; `HiddenCallsCounted` compares the
  cardinalities of what the two reads saw, call by call: hidden, decided since, or new. Theorems: `QueueTypeCorrect`, `ConfirmedIsHonoured`,
  `QueueImplementsVerdict`, `SilenceIsDenial`, and the three named above.
* **`AuditLogProofs`**, under `OneLog`: all threads share the lock of one process (two
  processes on one path break it, see section 3). `AInv` says that a thread past the
  look at the last byte has the lock and what it saw is still so (`LockInv`), that only
  the last piece is torn and no record is there twice (`FileInv`), and that each record
  reported as written has its piece (`WrittenInv`). Theorems: `RecordsStayReadable`;
  `TornStaysLast`, which is the property that the run with two processes refutes; and
  `LogImplementsTrail`: the whole records of each thread in the file are its trail, which
  needs that selecting from a sequence selects from its last element separately.
* **`McpProxyProofs`.** `PInv` says which places of a task go with an internal id
  and a future (`TaskInv`), that a future holds only a response to its own message,
  and that internal ids are never shared (`InternalInv`: they come from a
  counter). `AnswerInv` carries the truth of refusals: a message that was refused
  was not read and cannot be any more (`NeverRead`: nothing was written for it, or
  the pipe was lost first). Most steps touch one task and remove at most its own
  entries (`LeaveKeeps`, `RegisterKeeps`, `OthersKeep`). `ReturnInv` says that `run`
  stops waiting only when no task is left or one has raised. Theorems:
  `ProxyTypeCorrect`, `TablesAreExact`, `OneAnswerEach`, `NoneLeftUnanswered`,
  `ProxyImplementsExchange`.
* **`LineReaderProofs`.** The lines of an input are its newlines in order: the `k`-th line
  ends at the newline of rank `k`. `ReaderInv` says where in the input a reader is: the lines
  it has reported are those up to a newline (`ProgressInv`), and what it holds back is the
  input right behind what it has read from it. `ReaderMemoryBounded` holds for every limit.
  `LinesAreExact` is `Spec => [](Aligned => FramesExact)`: the client's reader always, the
  server's if a draining read is at most a byte longer than the limit. Without
  `Aligned` the property is false, which is the run `line_reader_small_limit`.
* **`CommandLineProofs`**, for `Matchers`, `Lint`, `Benchmark` and `CommandLine`.
  `AcceptedMatchers` goes through the operators and fields that `compile` accepts; only the
  last reading of a host as an address can raise (`HostRaises`), and a host with a character that
  cannot be converted comes to it, since it is no number and no part of it is
  (`GarbledIsNoNumber`).
  `FlaggedRulesAreDead` rests on what a glob without classes means: it matches position by
  position, so that the text of a pattern that another matches, or begins with its letters,
  only matches names that the other does. `DriftInv` says that a file that has been loaded
  is still what it was, or has slipped (`ReportsTellDrift`). `ExitCodesAreTrue` compares
  two ways of counting. A command evaluates the calls of a case one after the other, with a
  usage that it raises; the property looks at each call by itself. `UsageCounts` shows by
  induction that the usage is the number of calls that the rules allow, until it reaches the
  limit; so each outcome is what the property says of the call (`ActualIs`), the cells
  of the confusion matrix are the sizes of the sets of calls (`CellsAre`), and the cross
  products that the thresholds compare decide the shares (`GateIsExact`, `ReplayIsExact`).
  `ExitInv` adds which contents were loaded and which files were written at each step.

  The last three theorems are about every text, and relate two ways of reading it.
  `CheckInv` ties the exit code of `check` to `Match`, and `Match` of a matcher with one field to
  one condition (`MatchIsYes`).
  - `ContainedMatches`: the code joins the components of a path and compares texts; the property
    compares components. Joined components split into the same components again
    (`JoinIsSpelled`), because none is empty or holds a slash, so a text that begins with the
    root and a slash has the components of the root first (`WithinIs`), and one that ends with
    a dot and the suffix its labels last (`BelowDomain`).
  - `OneStatementMatches`: `_strip_sql_comments` jumps from a comment to its end, the property
    reads one character at a time. `Scans` relates the two at each position: what the scanner has
    seen, and what it still leads to, is what the code returns, as long as no comment opens in a
    literal (`ScanIsStrip`). The rest is
    about the text without comments: blanks around it, semicolons only at its end, and a
    first word that is not made of semicolons (`CutExists`), which leaves one statement when
    it is divided (`CutDivides`). The property does not speak of a policy whose operation holds
    a `;`: `compile` accepts `equals: ";"`, and the text `;` has that operation and no statement
    at all; the run asks this too. For commands, `CommandWords`: when no word is all control
    characters there is none anywhere, and the words are those between spaces.
  - `CleanPoliciesAreGuarded` is `Spec => [](AnyName => CleanIsGuarded)`. `AnyName` says that a
    tool can have any name, and that no pattern has every character. Both are so in the code;
    the constant `Name` is a finite set in the run, and a set that lacks the right names has no
    witness. The proof builds one from the approval rule's pattern, a fresh character in place of each
    wildcard (`AsName`), and a longer text in place of a star if the allow rule has none: the
    pattern matches it (`AsNameMatches`), and if the allow rule did, `_glob_covers` would have
    said so (`FreshMatch`, `StarlessLength`, `PrefixMatch`).

**Induction.** The library's induction theorems cannot be instantiated here. Where a proof
needs one, it is stated for a set in place of a predicate: a set of naturals that holds 0
and, with each number, the next one, holds all of them (`InductionOnNat`), which follows from
`LeastOfNat`, the well-foundedness of `<` in the library. From it come the existence of
functions defined by recursion (`RecursionExists`, `SumExists`) and what they compute, and
induction over texts, character by character (`InductionOnTexts`). No module with theorems
declares a recursive operator: globs are sets of positions, sums are functions on counts,
the lines of an input are counted, and the texts of the matchers are read by `Folded`, a
fold that is a recursive function. Its lemmas are stated for one function each (`Split`, `NonEmpty`,
`Join`, `Components`, `Words`, the scanner), since a lemma cannot take an operator.

**Only model-checked.**

* Liveness (`EveryAskEnds`, `EveryRecordEnds`, `EveryCallLeavesTheGate`, `EveryWaitEnds`,
  `NothingHangs`, `ReaderEnds`): the prover has no support for fairness.

Every invariant, action property and refinement that a passing run checks is the subject of a
theorem.

## 5. What is left

All modules of the plan are written. Left, in this order:

1. A module that composes the proxy's `gate` with `Firewall`, so that what the client is
   told, the audit trail and the server's execution are related in one state.
2. In the proxy: the terminal approver, client ids that cannot be encoded, a client
   that stops reading.

Not modelled, and why:

* `urlsplit`, `ipaddress`, `inet_aton` and `shlex` with quotes: the standard library's parsers,
  whose results are data or parameters.
* Option parsing, printing, the HTML of the dashboard, the layout of the reports: no
  state depends on them.
* Loading and validating a policy file: the assumptions on the constants say what it
  leaves.
* The demo, reproductions, examples and corpora: scripts and data that drive the package.
