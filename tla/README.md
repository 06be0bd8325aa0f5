# Verification of openclaw-audit

TLA+ models, TLC runs and TLAPS proofs for the tools of this repository. Paths below are
relative to the repository's root; `harness/` alone is `skills/openclaw-audit/harness/`,
`proof/` is `skills/real-behavior-proof/harness/`.

openclaw-audit looks for reliability defects in another program (openclaw).
Language-model agents write finding cards and verdicts, people start the steps one by
one (`OPERATIONS.md`), and small Python commands move the cards, keep their state, guard
the transitions, run proofs of the defects and talk to GitHub. None of these commands
takes a lock, all of them read, modify and rewrite shared files, and any of them can be
killed. That is where the hard behaviour is, and what the models are about.

## 1. Inventory

| Component | Source | State | Operations | Modelled by |
|---|---|---|---|---|
| FSM store | `harness/local_state.py` | `local-state/state.yaml`, `state.yaml.tmp`, `history.jsonl` | `apply_transition` (load, check, update, save, append), `get_item`, CLI `set`/`get`/`show` | `LocalState` |
| FIND gate | `harness/validate.py` | `findings/{drafts,ready,rejected}/`, the FSM store | `--move` on one draft or on all: rules B-1-1 to B-1-7, `promote`, `move_with_reasons` | `Findings` |
| Gatekeeper pipeline | `harness/gatekeep.py` | verdict files, state and extras of a candidate, `metrics/*.jsonl` | `sanitize`, `apply`, `drafter-gate`, `record-*` | `Candidates` (apply, drafter-gate) |
| Issue publisher | `harness/publish.py` | state and extras of a candidate, issues on GitHub | `--apply`, dry run | `Candidates` (`--apply`) |
| Upstream dedup | `harness/dedup.py` | none | searches, exits 0 or 1 | not modelled (section 7) |
| Diff guard | `harness/diff_guard.py` | none | scans a diff | not modelled (section 7) |
| Cross-review | `skills/cross-review/` | `/tmp/cross-review-<role>-<target>.json`, `metrics/` | prompts, collection, consensus rules of three of its four modes | `Reviews` |
| Proof runner | `proof/run.py`, `state.py`, `build.py`, `env_isolate.py`, `render_proof.py` | worktrees, isolated homes, ports, `proofs/`, frontmatter, the FSM store | `pre-sol`, `post-sol` | `ProofRuns`; its transition also in `Candidates` |
| Proof drivers, mock services | `proof/mock_*`, `telegram_*`, ... | held requests, leases, sessions | scripted answers and faults | two of them in `E2eScenarios` |
| Proof scenarios | `skills/real-behavior-proof/scenarios/` | probes, processes, measurements of trials | `run_scenario`, `evaluate_pre`, `evaluate_post` | `Scenario` and six modules of scenarios |
| Procedure, agents, schemas | `OPERATIONS.md`, `agents/`, `schema/`, `grid.yaml` | cards, verdicts | people and agents | the environment of the models |

**How they interact.** An auditor agent writes a card to `findings/drafts/`. The gate
moves it to `ready/` or `rejected/` and records the state. A clusterer groups findings
of `ready/` into a candidate. A gatekeeper agent writes a verdict file; `gatekeep.py
apply` validates it against the findings on disk and stores the decision, the verdict
and a fingerprint of the evidence lines; `drafter-gate` recomputes the fingerprint
later. `run.py` builds the audited program, lets a scenario measure a defect in it and
records the result on a card and in the store; review agents judge a target and
`aggregate.py` counts their files. `publish.py` checks the state, searches GitHub, files
the issue and records its number. All share one `state.yaml`, which each command loads
and rewrites as a whole.

**Where it is hard, and what makes each part correct.**

- *FSM store.* Two read-modify-write cycles overlap; they share one temporary file; a
  kill comes between the rename and the log. Correct: the file is always whole, nothing
  recorded is lost, an item's transitions chain, the log follows the file.
- *FIND gate.* The duplicate rule reads many files one after another, and a move is
  three writes. Correct: a card is in one place and never lost, `ready/` holds no
  two overlapping cards, the store agrees with the directory, and a target that stays in
  `drafts/` is held up by a card on which the validation raises.
- *Gatekeeper and publisher.* The decision is made from one read and recorded later; an
  issue is created outside the store, and the answer can be lost. Correct: an approval
  has its grounded verdict and fingerprint, a finding gets one issue, a search overlooks
  no issue that it could see, a published candidate has an issue, and the number of an
  issue gets into the store.
- *Cross-review.* Nothing removes a verdict file: an aggregation finds those of earlier
  rounds, other modes and late agents, and skips what it cannot read. Rules are evaluated
  in order and may fail. Correct: a round proceeds to a pull request only when every role
  says so, and never over an objection in a file it reads.
- *Proof runner.* A failed build, a full port range, a scenario that raises or a kill each
  leave by another way; a port is chosen before the build and used after it; one result
  is written in three places. Correct: worktrees, homes and gateways are removed, a build
  whose every trial found the port taken gives no verdict, and record, card and store agree.
- *Proof scenarios.* A probe drives foreign code through a sequence of steps, next to
  servers and writers that it starts and kills, and a number it prints becomes a claim
  about that code. Correct: a collected proof means a base build with the defect (and a
  head build without), a build without a measurement gets no verdict, a real defect is
  confirmed, and nothing is left running. (Three scenarios do judge trials that failed:
  section 5.)

`PROJECT.json` lists each hazard at its line with the properties that watch it.

## 2. Plan

Order of modules, most important first:

1. `ItemRecords`, `LocalState`, abstract `AtomicStore` - done.
2. `Findings`, abstract `FindGate` - done.
3. `Candidates` (gatekeeper and publisher composed over the store and GitHub) - done.
4. `Scenario`, the scenarios in six modules, and their composition `Scenarios` - done.
   They are 60% of the repository's 16,000 lines of code.
5. `ProofRuns` with its proofs - done.
6. `Reviews` - done.
7. Proofs (`*Proofs` modules) of every safety and action property of the runs, and of
   what the two abstract specifications promise - done; liveness stays with TLC.
8. The decision of `dedup.py` as an operator, should it come to keep state or retry.

## 3. The models

### FSM store: `ItemRecords`, `AtomicStore`, `LocalState`

`ItemRecords` has the records of `state.yaml` and `Advance`, the update that
`apply_transition` makes to one item. `LocalState` runs a call as its steps:

| Code (`local_state.py`) | Action |
|---|---|
| `load_state`, `from_state` check, update in memory (147-170) | `Load`, `Refuse` |
| `tmp.open("w")` (119-120) | `OpenTmp` |
| `yaml.safe_dump`, flushes, close (120-121) | `DumpPart`, `Dump` |
| `tmp.replace(STATE_PATH)` (122) | `Replace`, `ReplaceFails` |
| `append_history` (125-128) | `AppendHistory` |
| a kill | `Crash` |

File bodies are separate from names (`Inodes`): a second `open("w")` truncates the body
that the first process is still writing, and a rename publishes whatever body the name
has by then. `content` is a dump, complete or cut; a cut file loads as any part of its
items or not at all. Where two processes write one body, each flush leaves, of each
item, what the one or the other wrote, or nothing (`Mixes`). A mix inside one item is
not modelled: such a file loads as a part of its items or does not load. Data
abstracted: a file is cut at an item's boundary, timestamps, `kind` and texts are left
out, a transition carries the number of its call.

`AtomicStore` promises that a transition takes effect at once and for good and is then
logged, or, after a kill, not logged. `LocalState` with one call at a time implements
it under the mapping `store <- LiveStore, pending <- pendingBar, log <- history`.

### FIND gate: `FindGate`, `Findings`

A run of `validate.py --move` is a process:

| Code (`validate.py`) | Action |
|---|---|
| `main`: targets, their loop, its end | `Start`, `Check` (in the order of the names, `IsFirst`), `Finish` |
| `validate_file` up to B-1-4; an exception in it | `Check`; `CheckRaises` |
| `check_b1_duplicate`, file by file | `ListReady`, `ListDrafts`, `ReadOther` |
| the outcome of the other rules | `Judge` |
| `promote`, `move_with_reasons` (they differ in directory, status and recorded state) | `ReadDraft`, `OpenCopy`, `FillCopy`, `Unlink` |
| their `shutil.move` of a card without frontmatter | `RenamePlain` |
| an exception in them: the draft has gone, or cannot be read | `DraftGone`, `MoveRaises` |
| `apply_transition`; its failure | `LoadState`, `SaveState`; `StoreFails` |
| a kill | `Crash` |

Agents write cards at any time (`WriteDraft`), a fixer returns rejected ones
(`ReturnDraft`).

A card's text is one of the kinds that the code tells apart: good; `odd`, with a value on
which a rule raises (a list as severity); `list`, frontmatter that is YAML but no mapping;
`unread`, a text that cannot be decoded or a date that YAML refuses; not YAML; without
frontmatter; and what the gate itself makes of them. `main` catches no exception, so the
first three kinds after good end a run at the card itself, and `list` also at any target
whose duplicate scan reads it. `HeldUp` says just that, and `TargetsLeave` that nothing
else keeps a target in `drafts/`.

The outcome of the rules other than B-1-4 is a nondeterministic choice (`Judge`): they
compare the card with the audited repository and with `grid.yaml`. The FSM store is the
pair of load and save: what racing saves do to the file is `LocalState`'s subject, and
that they end the run (`StoreFails`) is a step of `Spec`, not of `SerialSpec`, which has
the store to itself. A card's id is its file name (section 7). Without `--move` nothing
changes.

`FindGate` promises that a card is in one place, enters `ready/` only when it overlaps
nothing there, and that what is recorded is its place.

### Candidates: `Candidates`

Commands are processes on shared state: the FSM store's entry of each candidate
(`state`, `gatekeeper`, `stored`, `number`), the findings on disk, the audited
code and the issues on GitHub.

| Code | Action |
|---|---|
| `gatekeep.py` `cmd_apply` 239-271: read, validate, decide | `ReadVerdict` |
| 289 `compute_evidence_fingerprint` | `TakeFingerprint`, `NothingToFingerprint` |
| 300 `apply_transition`, its load | `ApplyVerdict` |
| `cmd_drafter_gate` 434-466, 479-489 | `DrafterGate`, `Demote` |
| `proof/state.py` `record_transition`, its load | `RecordProof` |
| `publish.py` 275-333: load, gates | `StartPublish`, `StopPublish` |
| 335-340 state check | `CheckState` |
| 357-365 `search_existing` | `SearchIssues` |
| 374 `create_issue`, 376-378 its failure | `CreateIssue`, `CreateFails` |
| 386 `apply_transition`, its load | `RecordIssue` |
| `local_state.py` `save_state` of each transition; a load that fails | `Save`, `SaveClashes`; `LoadFails` |
| a kill | `Crash` |
| outside: code changes, cards go, issues are closed | `Drift`, `Retract`, `CloseIssue` |

A transition is a load of the whole store and a save of it, with steps of other commands
in between: a save undoes what others have saved since its load. Commands that save at
the same time write one temporary file; `SaveClashes` then leaves of each candidate what
one of them had of it, what was there, or nothing (`Mixtures`), whether or not the
command finds the file to rename, and a load meanwhile may raise (`LoadFails`). This is
`LocalState`'s behaviour in one step. `raced` and `clashed` are ghosts that remember it.
`answer` is what `gh issue create` has printed: a URL that ends with a number, one that
does not (`publish.py:259-261` then records None), or nothing.

Abstractions: a finding stands for its evidence lines. A verdict file is a record of
what `validate_verdict_schema` looks at, its other fields together in `sound`. A query
may fail, or not show an issue yet that GitHub's index does not have: both are one
choice of the search (`blind`), bounded by `MaxOutages`. The first ten hits contain the
issue. The gates on open PRs, CODEOWNERS and `dedup.py` stop the command or not,
nondeterministically. The queries of one search are one step, and so is what
`drafter-gate` reads of store and code. A candidate may be absent from the store at
first. `solution-drafted` and `abandoned` are set by hand with `local_state.py set`,
which is in `LocalState`. Metrics files and previews are not read back by any tool and
are left out.

### Proof scenarios: `Scenario`, six modules of scenarios, `Scenarios`

A scenario is a script that is to find out one fact which it cannot see: whether the code
of a build has a defect. `truth` holds that fact for each build - it has the `defect`, it
is `fixed`, or it is `inert` and never does what the probe asks of it: it throws, drops
the request, or has another shape. The model of a scenario is the steps of its probe,
what they do to code with each of the three truths (`sut`), what it prints (`out`), what
`run_scenario` makes of that (`measured`) and what `evaluate_pre` and `evaluate_post`
conclude (`status`). The properties then compare `status` with `truth`.

| Code | Definition |
|---|---|
| `build_probe_script`, one action for each step that can fail or interleave | `Handlers026`, `CallTool026`, `Delete047`, `Reload047`, ... |
| `run_scenario`: prerequisites, `subprocess.run`, parsing, `finally` | `RunNNN` with `Launch`, `PrerequisiteMissing`, `LastLine` or `MarkedLine` |
| a probe that crashes, prints something else, times out | `ProbeFails` |
| a process that outlives its killed launcher | `Survivors`, `OrphanWrites`, `OrphansExit` |
| `evaluate_pre`, `evaluate_post` | `PreNNN`, `PostNNN` |
| `run.py`: one build or two, exceptions, the evaluation | `Return`, `Raise`, `Judge` |

The scenarios come in two families: one parses the last line and lets `TimeoutExpired`
through to `run.py`, the other looks for a `PROOF_RESULT:` line and catches it.
`SignalScenarios` holds 026, 030, 032, 037, 038, mcp-pending-ttl and gateway-map-size;
`StoreScenarios` 047, 048 and 049; `AuthScenarios` 045 and its two versions with a real
writer process that the parent kills; `QueueScenarios` 031, 033, 050, 053 and 056;
`GatewayScenarios` 039, 039-e2e, 040 and cron-manual-run; `E2eScenarios` 026-e2e, 038-e2e
and 040-e2e, with the mock of the model and the stub of a channel as actors. In these
three, in the writers and in 039-e2e the other process steps whenever it can, between any
two steps of the script.

Scripts are started by `tsx`, a launcher with a node process of its own. A timeout of
`subprocess.run`, or a `kill()`, reaches the launcher only: the child may live on
(`orphans` in `left`), write to the file once more, and exits in its own time.

What the audited program does with each truth is the environment of the model: it is
written from what the probe and its comments rely on, and its definitions are `external`
in `PROJECT.json` where they stand for nothing but that program. An `inert` build may stay
at any step. Numbers are abstracted to what `evaluate_*` tells apart: a file is the seed,
partial or big; sizes, delays and texts are left out, and a wait that a process may miss
ends nondeterministically. A failure of the set-up of a trial before its first process
(no free port, a device that cannot be seeded) is `blocked-env` without trace and not a
separate action. In the two versions of 045 with a writer, its first line comes or it
exits; a writer that does neither would block `readline` (045-realproc.py:285, v2 278).

### Proof runs: `ProofRuns`

Several invocations of `run.py` share ports, cards, the names of records and the store.

| Code | Action |
|---|---|
| `run.py` `main`, arguments, dry run | `Start`, `Refuse` |
| `build.py` `_create_worktree`, `_build_one`; their failure | `CreateWorktree`, `BuildOne`, `BuildFails` |
| `env_isolate.py` `isolated_home`, `_alloc_free_port` | `OpenHome`, `NoFreePort`, `CloseHome` |
| the scenario, from outside: its trials, its end, its exception | `StartTrial`, `EndTrial`, `Measure`, `ScenarioRaises` |
| `evaluate_post`, the evidence section | `Judge` |
| `BuildResult.cleanup`, `BuildPair.cleanup` | `Cleanup` |
| `_persist`: record, card (read, write) | `WriteRecord`, `ReadCard`, `CardMalformed`, `WriteCard` |
| `record_transition`: load, save, exception | `LoadStore`, `SaveStore`, `StoreFails` |
| a kill; the clock | `Kill`, `Tick` |

A pre-sol run builds inside its home; a post-sol run builds both builds first and has one
home after the other. What a scenario does is `Scenarios`; here it has some number of
trials, each with a gateway of its own on the run's port (038-e2e, 039-e2e, 040-e2e; the
others start none). A trial whose gateway does not get the port is dropped. Only when
that is so of every trial of a build is the verdict blocked (`Judgements`); a run with one
good trial per build may have any. Or the scenario raises, and then may leave its gateway
running (038-e2e and 040-e2e do). The removal of a worktree (`build.py:40-56` looks at no
result) and of a home (a warning) may fail. The transition is a load and a save of the
store of all targets, between which other runs may save; two that save at once leave of
each target what the one or the other had, or nothing, and either may raise after its
card is written. Abstractions: a card is its two proofs; the clock matters only where a
record is named. Two variables are ghosts: `disturbed` has the targets that two runs
persisted at the same time, or on which a run ended while it was persisting, and `raced`
those whose runs were between load and save at the same time.

### Cross-review: `Reviews`

`Ask` is `run.py`, `Answer` and `GiveUp` are the agents, `Aggregate` is `aggregate.py`,
with `--roles` or over every file of the target. A file holds the verdict of its role and
is overwritten, never removed; `stale` is a ghost that remembers which files are of
another round. `Rules` and `Condition` are the `consensus_rules` of the three modes that
`aggregate.py` accepts, `Primary` is the first that matches. A condition that `eval`
cannot evaluate is recorded as a decision, so it matches: all those of
`maintainer-response` are English sentences. Summaries, quotations and the metrics file
are left out.

Each module also defines variants of some actions, with a comment "Variant of": faulty
forms of the code, each of which breaks a property. No specification uses them.

## 4. The runs

| Run | Instance | Shows |
|---|---|---|
| `store_serial` | 2 processes, one call at a time, 2 items, 2 states, 1 extra, 3 calls, 2 kills | `state.yaml` is whole, durable, chained; the log follows; `AtomicStore` is implemented; calls that pass the check land |
| `store_race` | 2 processes at once, 2 items, 3 calls, 1 kill | surviving transitions are in order, every call ends |
| `finds_serial` | 1 validator, 3 cards overlapping in a chain, 6 kinds of text, 2 runs, 1 return | one place for each card, recorded; a target leaves `drafts/` unless a card that raises holds it up; `FindGate` is implemented |
| `finds_killed` | the same cards, 3 runs, 2 kills, 1 return | no card lost, `ready/` disjoint |
| `finds_race` | 2 validators, 2 cards, 2 runs, 1 return | no card lost, every run ends |
| `cands_serial` | 2 candidates sharing a finding, 4 commands one after another, 1 change of code or cards, 1 kill | one issue for a finding |
| `cands_race` | 2 commands at once, 3 in all, 7 kinds of verdict file, 1 outage, 1 kill | approvals grounded, published candidates have issues, no issue overlooked that a search could see, issue numbers recorded; all of it over saves that clash |
| `scenarios` | all 25 scenarios, both modes, 9 pairs of truths, 2 trials, 2 attempts, up to 9 retries | what a collected proof means; no verdict on a build without a measurement; defects are confirmed; what is left behind; orphans end |
| `proof_runs` | 2 runs, 4 pairs of command lines on 3 targets (a solution, a candidate, a card that does not parse), up to 2 trials, 1 port, 2 statuses of a scenario, 1 fault, 1 tick, 1 kill | worktrees, homes and gateways go; a build whose every trial found the port taken gives no verdict; the three places agree; proofs are kept |
| `review_rounds` | 4 roles, 3 selections, 3 kinds of file, any number of rounds | a pull request needs every role; objections prevail |

Two more runs each find the counterexample to one sentence of a document (section 5).

*Why the bounds are enough.* Three calls on two items are one to create, one to change
and one to lose; two kills let a killed call's leftovers meet a second killed call.
Three cards in a chain are the smallest set on which disjointness is not all or nothing:
the middle card excludes both, and these do not exclude each other; three runs let a
copy left by a killed run be promoted over, rejected and returned. Four commands on two
candidates that share a finding are apply, publish, apply, publish, or apply, publish
killed, publish again with one more in between. Two commands at once are enough for a
save to undo another and for two to clash; the third command is the one that finds what
they have left. `cands_race` has one candidate, as the store's entries of two are joined
nowhere but in a save (the proofs have any number), and no changes of code or cards,
which decide nothing that its properties speak of. `Inodes` has one body for each name
and one for each process beyond the first, so none is ever lacking. Two trials show a
mixed outcome, two attempts one after a failed one, nine retries pass the threshold of
eight that 031 compares with. Two proof runs share a port, a card or a second, and with
one port a third party is not needed to run out of them; both meet the boundary of a
second with one tick. Their command lines come in pairs, which meet at the port (with
two trials against one, so that a port is lost in one trial and not in the other), at
the card, in the store only, and at a card that does not parse. Of the statuses that a
scenario may return (`Outcomes`) a blocked one and a verdict are all that the properties
tell apart. `MaxFaults` bounds what fails without another run's doing - builds,
removals, gateways left behind - and one such fault is one run that leaves something for
the other. Reviews have no bound: their states are finite. A readable approval, an
objection and an unreadable file are what the properties tell apart; three of the four
roles are symmetric, since the rules count verdicts and do not look at who gave them.
Deadlock is not checked where behaviours end when the calls, runs or commands are used
up or a proof has its status.

*Fairness.* `WF_vars(Resume(p))` and `WF_vars(Step(v))`: a command that has started goes
on, which the operating system provides, since nothing in the code waits for another
process. No fairness is assumed of the start of a command, of agents, of the outside or
of kills. The nondeterministic failures of gh are steps like others and bounded.
`Scenarios` has `WF_vars(Writers)` and `WF_vars(OrphansExit)`: the writer and the one
that its killed launcher has left are processes of their own, and each ends by its own
clock. Nothing is assumed of the script, which may be killed. `ProofRuns` and `Reviews`
state safety and need none.

## 5. Where the code and a document disagree

| Run | What it shows |
|---|---|
| `store_lost_update` | racing calls drop an applied and logged transition from the "current state" |
| `cands_gate` | a candidate that follows the procedure, approval and then pre-sol proof, fails `drafter-gate` without any change of its evidence |

The lines and the quotations are in `PROJECT.json`. `cands_gate` needs no failure and no
race, the other one two commands at once.

More disagreements are behaviour of the models without a run of their own:

- *Gate and store.* A kill between the rename and the append leaves a transition out of
  `history.jsonl`. Two validators at once can put two overlapping cards into `ready/`:
  each scans `ready/` before, and `drafts/` after the other's move (`ReadyIsDisjoint`
  under `Spec`; B-1-4 in `schema/finding.schema.yaml:250`). After a kill between copy and
  unlink the next run rejects the draft as a duplicate of its own copy, and the card is in
  `ready/` with state rejected (`schema/finding.schema.yaml:151`). A card rejected because
  its frontmatter is not YAML loses that frontmatter (`Rewritten`). One draft on which the
  validation raises ends a run of `--all` with the targets behind it undecided, and one
  whose frontmatter is a list does so for every target that reaches the duplicate scan
  (`CheckRaises`, `ReadOther`).
- *Candidates.* After a creation whose answer was lost or whose command was killed, a
  search that fails counts as one without hits and the findings get a second issue
  (`publish.py:12` promises to skip them). The state is checked before the searches and not
  again: a demotion in between is not seen, and the issue of a candidate that is no longer
  approved is filed. Two publications that both search before either creates file two
  issues. A URL without a number at its end publishes a candidate that has no number. A
  save that clashes may drop the record of an issue, which the next search then finds on
  GitHub (`NoIssueOverlooked`). `apply` on a verdict with null
  `evidence_paths` ends with a TypeError (`NothingToFingerprint`). Every command takes a
  published candidate back to an earlier state when it is run on one.
- *Scenarios that may collect without a defect* (`CollectWithoutDefect`): 045 cuts the
  file itself, whichever code wrote it; 039's docstring speaks of a closing gateway (lines
  16, 29), but nothing in its probe closes one (48-107); 038 registers its runs under
  connection ids that the gateway does not give; 037 and 040 count what did not happen;
  the post-sol evaluation of 026 and 030 drops a condition of the pre-sol one;
  mcp-pending-ttl may be told to sleep for less than the time to live.
- *Scenarios that never confirm a fix* (`BlindToFixes`): the same 037, 038, 039 and 045,
  for the same reasons. gateway-map-size never collects anything: `run.py` hands over
  trials and timeouts, and its probe needs `target_module`.
- *Scenarios that take an inert head build for a fix* (`CollectInertHead`): 030, 032, 039,
  047, 048, 049, 050, 053, 056. 049 records whether the migration threw and its comment
  (line 229) makes that a premise, but no evaluation looks at it.
- *Scenarios that judge a trial that failed* (`FailuresAreNotVerdicts` asks for a
  measurement of every build, and does not deny these): 026-e2e may read the file that its
  tool is still writing, takes the parsing error for a signal that is not defined
  (lines 188-196) and judges it (267-283); 038-e2e keeps a trial whose probe crashed or
  printed no JSON as `ok` (503-508, 534); cron-manual-run counts a job that
  could not be added as one that was not lost (163-173, 241-253).
- *Left behind* (`LeaveBehind`): 038-e2e and 040-e2e do not catch the timeout of their
  probe, so the gateway and the mock go on; both also keep their logs. A timeout or a kill
  ends the launcher `tsx` and not the node process that it has started (`orphans`).
- *Cross-review.* `maintainer-response` always decides `already_satisfied_report_back`,
  the first rule, whatever the verdicts (`aggregate.py:111-118`). `pre-pr` has no rule for
  four approvals, and proceeds with three approvals and a fourth verdict of an upstream
  duplicate. `post-harness` has no rule for two approvals and one insufficient fix. Too
  few verdicts are a warning only.
- *Proof runs.* Two runs on one card at the same time lose one of the proofs; two records
  of one target and phase within a second are one file; a card that does not parse ends a
  run after its record and before its transition; a pre-sol run that finds no free port
  records nothing and leaves its home. Two runs in the store at the same time, be it on
  different targets, may drop a transition or raise when the card is already written. With
  several trials a run whose port was taken in some of them still gets a verdict, from the
  others. A worktree that git does not remove is left without a word, and those of a run
  whose build failed are never removed.

## 6. The proofs

Proved by TLAPS for all values of the constants under the named assumptions of the
modules (sets and bounds only; no assumption on the number of processes):

| Theorem | Statement |
|---|---|
| `TypeCorrect`, `GateTypeCorrect`, `CandTypeCorrect` | `Spec => []TypeOK` of the store, the gate and the candidates |
| `OrderIsKept` | `Spec => []TransitionsInOrder`, with races and kills |
| `NeverTorn`, `ChainsAreKept`, `LogIsFaithful` | `SerialSpec => []Readable`, `[]StateIsChained`, `[]LogFollowsState` |
| `NothingIsLost` | `SerialSpec => Durable` |
| `StoreImplementsAtomicStore` | `SerialSpec => ImplementsAtomicStore` |
| `NoCardIsLost`, `ReadyStaysDisjoint` | `SerialSpec => []NoFindLost`, `[]ReadyIsDisjoint` |
| `RacesNeverLose` | `Spec => []RacesLoseNothing`, for any number of runs at once |
| `CardsHaveOnePlace`, `PlacesAreRecorded` | `SerialSpec => []OnePlace`, `[]PlaceIsRecorded` |
| `GateImplementsFindGate` | `SerialSpec /\ [](crashes = 0) => ImplementsFindGate` |
| `ApprovalsAreGrounded`, `PublishedHaveIssues` | `Spec => []ApprovalIsGrounded`, `[]PublishedHasIssue`, with races, failures and kills |
| `SearchesOverlookNothing` | `Spec => []NoIssueOverlooked`, for any number of publications at once |
| `NoFindHasTwoIssues` | `SerialSpec => []OneIssuePerFind` |
| `RunTypeCorrect` | `Spec => []TypeOK` of proof runs |
| `WorktreesGo`, `HomesGo` | `Spec => []WorktreesAreRemoved`, `[]HomesAreRemoved`, with failures and kills |
| `StolenPortsBlock` | `Spec => []StolenPortBlocks`, for any runs, ports and numbers of trials |
| `PlacesAlwaysAgree`, `ProofsStay` | `Spec => []PlacesAgree`, `ProofsAreKept`, with racing saves |
| `RunsAreTyped`, `ScenarioInvHolds` | `Spec => []TypeOK` of scenarios, and the invariant of the six below |
| `CollectionsShowTheDefect`, `CollectionsExcludeTheDefect`, `CollectionsShowTheFix` | `Spec => []CollectedShowsDefect`, `[]CollectedExcludesDefect`, `[]CollectedShowsFix`, for any number of trials and attempts |
| `DefectsAreConfirmed`, `FailuresBlock` | `Spec => []BuildsAreConfirmed`, `[]FailuresAreNotVerdicts` |
| `RunsCleanUp` | `Spec => []NothingLeftBehind` |
| `PullRequestsNeedEveryRole`, `ObjectionsAlwaysPrevail` | `Spec => []PrNeedsEveryRole`, `[]ObjectionsPrevail`, for any roles and rounds |

*The arguments.* In `LocalStateSerialProofs` the invariant `SerialInv` says what the one
active call holds at each point: what it has in memory is the file's store advanced by
its log line (`MemIsNext`), the body it writes is the temporary file's and complete after
the dump (`TmpIsMine`), and names never share a body (`FilesApart`). Without these
`Replace` could publish anything. `LogInv` adds that the log's calls are older than the
one about to append, whose transition the file already has. `OrderIsKept` needs that
every store anywhere, in memory and in files, is ordered and has only numbers of past
calls, because a race can publish any of them.

`GateInv` (`FindingsProofs`) joins `NoFindLost` and `ReadyIsDisjoint` with four facts: one
run is active; drafts are never cut; the draft is there when the copy is opened and the
copy is whole when the draft is unlinked (`MoveOK`); and the cards of `ready/` that a scan
has read do not overlap the target, which nobody else can change (`ScanOK`). The own
copy that a killed promotion left is excepted: it overlaps itself only.

`FindingsPlacesProofs` has an invariant for races and one for places. `RaceInv`: a card
is a draft, or has a whole copy, or some run that has truncated a copy of it is about to
fill it. The last run to truncate a copy fills it, and a draft is unlinked only when one
of the two other cases holds. It needs that no run is killed, since nobody else would
fill the copy, and that no card is returned: a return removes the copy that a run may
rely on for its unlink. `PlaceInv` adds to `GateInv`, while no run is killed, where the
target of the run is at each point: only among the drafts until the copy, in both places
until the unlink, and from then on only where its verdict says, with the store to be
written next. Every other card is in one place, and the store agrees with it. The
refinement uses this at every step: opening and filling the copy stutter and the unlink is
the move of `FindGate`, because `placeBar` takes a card for a draft as long as its draft
is there. A kill in between would leave the card in two places, so `FindGate` is not claimed
to be implemented when runs are killed.

`ApprovalsAreGrounded` rests on two facts. `HeldInv`: a command about to approve holds a
verdict that approves its candidate, and its fingerprint is of that verdict's claims.
`ItemsInv`: not only the store, but what every command is about to save is grounded, item
by item, because a save may publish any of it, whole or mixed with another's. State,
verdict and fingerprint are set in one item together, so no mixture of items separates
them. `PublishedHaveIssues` has the same shape: `IssueInv` says of the store and of every
command's memory that what is published has an issue, and that a command about to record
has filed one. Issues are never removed.

`SearchesOverlookNothing` rests on `SearchInv`: from its search to its creation, a command
that was not forced shares no finding with the issues that its search has seen, except
through a query that failed. Other commands may file meanwhile, and then the list of issues
is longer, but its first `seen` members have the findings they had. Nothing of it depends
on the store, and so it holds whatever is lost there. `NoFindHasTwoIssues` adds that with
one command at a time (`OneCommandAtATime`) nothing is filed between search and creation,
and without failures of gh no query is blind (`FreshInv`).

`ProofRunsProofs` has invariants for each of its properties. `WorktreeInv` says at which
labels a run may have which worktrees: one before `cleanup`, none after it unless it was
told to keep them, a build failed or git did. `HomeInv` does so for homes and for the ports
on which a run's gateway listens. For `StolenPortsBlock`, `TrialInv` has the order of builds
and trials, `ReadyInv` says that a build which counts as ready had a trial, of those made so
far, that did not find the port taken, and `VerdictInv` that a result or a record with a
verdict needs every build that the run measures to be ready. `StoreInv` says that every
transition in the store or in the memory of a run is `Genuine`: of a run on that target
that has its record, with its phase and status. That withstands any mixture of saves. It
also says that two runs between load and save are marked as `raced`, and that without such
a race the run that saves has every transition that was saved before. `RecordInv` and
`PlacesInv` follow `_persist`: between `record` and the save the run has its entry, the
record of that name exists, and as long as the target is not disturbed nobody else is
between them; so the card that `WriteCard` writes is the one `ReadCard` read, with one
proof replaced (`Agreement`).

`ScenarioInv` (`ScenariosProofs`) has three parts. `RunInv` is about the frame: the base
build is measured first, a build once, and a measurement that is not bad says what its
scenario's measurements say of a build that has the defect, has the fix or is inert
(`Means`, one line or two for each scenario). From that and the scenario's `evaluate_*`
follows that a status is sound. The counts in `Means` are in terms of `Trials`, which is
why the theorems hold for any number of them. `FailuresBlock` is the part of it that
looks at bad measurements: every `evaluate_*` blocks on one, and the four scenarios that
drop failed trials return at least one that has not failed. `KeepsInv` says, for each
scenario, what its probe keeps between its steps so that the measurement will mean that:
a count that grows with the trials, a file that only the defect leaves cut, an abort for
each request that the fixed code has sent, the same sleep for both builds. `LeftInv`
lists for each place of a run what may be outside the isolated home: which processes run
and which files are there, that a writer is gone before its outcome is collected, and
that a process which outlives its launcher is there only after a timeout or where a
writer is killed. `NothingLeftBehind` alone is not inductive, as it speaks of finished
runs only. TLC checked all three with 3 trials, 2 attempts and 8 retries before they
were proved.

`ReviewInv` (`ReviewsProofs`) says that a decision that stands is the one `aggregate.py`
would take of the files as they are, since an answer or a question discards it, and that
a file whose agent of this round is still at work is of another round. The rest is
counting: as many approvals as roles means that every role approves, and the rules of an
objection come before those that proceed. `PrNeedsEveryRole` speaks of decisions on the
three roles asked, as three approvals of four are enough for `aggregate.py`.

*Assumptions.* Every ASSUME is named and stands beside its constants: bounds are natural
numbers, sets hold values of their type, a null value is none of the others. Beyond
that, every card overlaps itself and overlap is symmetric (`OverlapsAssumption`), the
roles are finitely many (`RolesAssumption`, for counting), there is at least one trial
of a scenario (`TrialsAssumption`; a proof run may have none), a blocked status is among
what a scenario returns (`OutcomesAssumption`), and 031 may be retried at least eight
times (`RetriesAssumption`), the number its evaluation asks for. The theorems of
`SerialSpec` assume one command at a time.

*Only model-checked.* Liveness (`CallsEnd`, `CallsLand`, `RunsEnd`, `TargetsLeave`,
`IssueIsRecorded`, `OrphansEnd`), since the prover does not reason about fairness and
ENABLED, and the two counterexamples. The prover has no induction over data and no RECURSIVE
operators, so the modules use none.

## 7. Not modelled

`dedup.py` keeps no state: it searches and exits, and its answer is a nondeterministic
stop of the publisher. `diff_guard.py` is a scan by regular expressions, and the
patterns are all there is to it. The mode `fix-hardening` of cross-review only prints
prompts. `sanitize`, the `record-*` commands and the shadow mode of `gatekeep.py` write
metrics only, and so does the end of `aggregate.py`; no tool reads these files. The
drivers for Telegram and the other mock servers are used from command lines of their
own, by no scenario. The B-1 rules other than duplicates are choices. The ulimit mode of
045-realproc-v2 is reached only by the script's own command line. A `state.yaml` in
which the bytes of two dumps are mixed inside one item and which parses all the same is
left out, and so is a card whose id differs from its file name: the gate would move the
one and record the other (`validate.py:345`), which only an agent that disobeys
`agents/` can bring about. Left out for good: the content of prompts and cards, the
audited program except for what a probe sees of it, and the wording of issues, evidence
and reports.
