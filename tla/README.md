# The Funnel: TLA+ models and proofs

The Funnel (`engine/src/funnel`) is a backtesting service.  A FastAPI server
takes requests to run a pipeline over a universe of assets, runs them one at a
time on a worker thread, spreads each sweep over a process pool, and keeps
everything it knows in files: run status, artifacts, caches, profiles.  Most of
its lines compute numbers.  What is hard to test is the rest: request threads
racing the worker, several processes on one directory, files written in place,
a process dying between two steps, cancellation at any moment.  These models
are about that part, and about the day-by-day loops of the numerical part, whose
state machines (positions, stops, rolls, refits, rebalances, thresholds) are as
hard to test; the formulas inside them are represented by what the control around
them can tell apart.

Line numbers below are those of the modelled commit; `PROJECT.json` maps every
definition to its lines.

## 1. Inventory

| Component | Code | State it keeps | Operations | Interacts with | Status |
|---|---|---|---|---|---|
| Job registry | `api/jobs.py` | `_statuses`, `_cancel_events`, `_started`, `_foreign_running`, `_disk_scanned`, `_lock`, the executor's queue; `runs/<id>/status.json` | `submit`, `cancel`, `_run`, `_update`, `get`, `list_all`, disk scan, correction of stale files | HTTP handlers call it; it calls the pipeline; sibling and earlier processes share the files | modelled, proved |
| Pipeline run | `pipeline.py`, `cancellation.py` | `runs/<id>/*.csv`, `report.json` | the stages, `progress`, `should_stop`, report and cancel requests | registry callbacks, sweeps, caches, data | partly: the control; proved |
| Sweeps | `backtest/sweep.py`, `options/sweep.py` | futures, `pending`, `rows_by_symbol` | serial loop, process pool, tear-down | `should_stop`, executor | modelled, proved |
| Compute cache | `compute_cache.py`, `backtest/sweep_cache.py`, `regime/label_cache.py` | parquet entries, sidecars, mtimes | hit, miss, write, evict | sibling processes | partly: control; proved |
| Data stage | `data/sources.py`, `pipeline._fetch_all` | `_csrf_strategy_active`, `_csrf_lock`, cache files | `fetch`, switch, thread pool | yfinance | modelled, proved |
| Profile store | `profiles/store.py` | `<slug>.json`, `.json.tmp` | save, load, list, delete | handlers on several threads | modelled, proved |
| HTTP API | `api/app.py` | none of its own | handlers | all of the above | partly |
| Walk-forward, funnel, attrition, screener | `backtest/walkforward.py`, `backtest/funnel.py`, `reports/attrition.py`, `profiles/screener.py`, `profiles/mapping.py` | the chunks of one walk; the sweep's rows; the cached metrics | window bounds, split, six filters, thresholds of the sliders, counts, screening | sweeps, cache hits | partly: all but the soft score and the counts by family; proved |
| Overlay simulator | `options/overlays.py` | the open position, rolls, assignments | enter, hold, roll, settle, assign | overlay sweep | modelled, proved |
| Momentum | `momentum/cross_sectional.py` | the weights between rebalances | schedule, ranking, turnover | pipeline | partly: all but returns; proved |
| Strategies | `strategies/*` | positions that latch; four loops with a stop or a state | signals | backtest engine, layers | partly: positions, and three of the four loops; proved |
| Regimes | `regime/*` | labels, the next refit | refit, filter | layers | partly: all but the fits; proved |
| Layers, portfolio | `layers/*`, `portfolio/*` | exposures of each step | size, route, combine, lag | regimes, strategies | partly: what the pipeline calls; proved |
| Backtest engine, pricing, bootstrap, sensitivity | `backtest/engine.py`, `options/pricing.py`, `robustness/*` | none | floating-point functions | sweeps, pipeline | the engine's lag in `LayerStack`; the rest not modelled |
| Web UI, scripts, Docker, workflows | `web/`, `scripts/`, ... | - | - | API | not modelled |

What makes each part correct, and what is hard about it:

* **Job registry.**  A run has one owner, starts at most once, ends once; its
  end is never revised; a run cancelled in the queue never executes; a registry
  says "running" only of what it executes; the file follows memory; a restart
  corrects exactly what died running.  Hard: the lock protects memory, not the
  files; `submit` and a queued `cancel` write the same file outside it, each by
  truncating, writing and renaming one temporary file; `get` and
  `list_all` read a file before the lock and act on it after; sibling processes.
* **Pipeline run.**  Done means every artifact is there and whole; a cancelled or
  failed run stops where it is; a served report is whole.  Hard: cancellation
  between any two steps, and in the stage after the last check.
* **Sweeps.**  Parallel and serial execution give the same table, or an exception
  with its cause; the call always returns.  Hard: completion order, a batch that
  holds a failure beside a cancellation, a broken pool, the call queue.
* **Compute cache.**  An entry is whole and described once its call has returned; only
  a death leaves a torn one, which later calls take for a hit and raise on; capacity is
  restored.  Hard: in-place writes, a write that fails half-way, glob/stat/unlink races.
* **Data stage.**  One switch of the cookie strategy; no empty frame, whether a rate limit
  or a blocked network emptied it, is persisted or survives; errors surface in the order of the symbols.  Hard: threads that
  queued on the lock with an answer from before the switch; one cache file for
  two fetches.
* **Profile store.**  Files are whole whatever crashes; lists and loads miss nothing.
  Hard: one temporary name per slug, list-then-read, slug collisions.
* **Walk-forward and funnel.**  The windows use every row of a history once; what
  is counted as a trade is what pays for one; a sweep judged from cached metrics
  cannot be told from one that computes them; tolerance never costs a survivor.
  Hard: remainders and halves, three copies of the six filters, NaN metrics of
  skipped pairs, values equal to a threshold, a threshold that is rounded.
* **Strategies.**  A row whose indicators are undefined is flat; a stop only moves
  towards its trade and belongs to no earlier one; no trade is held against a
  breakout that would open the opposite one.  Hard: a NaN fails every comparison,
  and what that does depends on how the series is built; a stop that is clamped to
  past rows; exits that look at shorter windows than entries.
* **Regimes.**  Each day of a detector that refits has the label of the latest refit,
  made from rows up to that refit.  Hard: spans cut short by the end of the frame,
  rows without features, a slice too short to fit.
* **Layers.**  Nothing is earned with knowledge of the same day or a later one; the
  route is the regime of the last day both calendars have.  Hard: the proxy and the
  asset trade on different days, every step shares the inputs.
* **Momentum.**  The portfolio is dollar-neutral, what earns was ranked before, and each
  change is charged once.  Hard: assets that are listed late or stop trading, numbers of
  assets that three does not divide, the row before the first rebalance.
* **Overlay simulator.**  No structure loses more than its capital before costs;
  the equity is what the cycle earned, each cost charged once; rolls come on
  schedule.  Hard: a row that closes one position and opens the next, an early
  roll that falls on an expiry, an equity that dies and stays dead.

## 2. Modules

```
JobLifecycle      what the registry promises of one run      (abstract)
JobRegistry       the registry, its handlers and its files   implements JobLifecycle
  MCJobRegistry, JobRegistryProofs
PipelineRun       one run through its stages                  implements JobLifecycle
  PipelineRunProofs
SweepContract     what a sweep promises its caller            (abstract)
Sweep             serial loop and process pool                implements SweepContract
  MCSweep, SweepProofs
ComputeCache      sweep-metrics and regime-label cache;  MCComputeCache, ComputeCacheProofs
DataFetch         thread pool, cached source, cookie switch;  MCDataFetch, DataFetchProofs
ProfileStore      saved profiles;  MCProfileStore, ProfileStoreProofs
WalkForward       one history through its windows
Evaluation        walk, filters, report, screen, cache hit    composes WalkForward
  MCEvaluation, EvaluationProofs
OverlaySim        the day loop of an overlay;  MCOverlaySim
RegimeLabels      four regime detectors over one frame
Signals           what a strategy does with a reading         (operators)
LayerStack        attribution_table on two calendars          composes RegimeLabels, Signals
  MCLayerStack
ParabolicSar      the stop-and-reverse loop
BreakoutExits     turtle and chandelier
CrossSection      the long/short momentum portfolio
MCBooks           all from OverlaySim on, one at a time;  BookProofs
```

**JobRegistry.**  `up`, `mem`, `event`, `started`, `foreign`, `scanned`, `lock`,
`queue` are the fields of `JobRegistry` per process; `worker` is the place of
the one worker thread in `_run`, `req` of each request thread in a handler;
`disk` and `tmp` are `status.json` and its temporary file.  One action per
critical section of `_lock` and per file access outside it.  A `_write_status` of
`submit`, `cancel` or a correction is three of them: `OpenTmp` truncates the temporary
file, `WriteTmp` writes it, `Replace` or `Correct` renames it.  `handle` follows the file a
thread has open through the rename of another; `Onto` says what a file holds when a
second text is written over a first: texts are only told apart by length, a queued run's
being the shortest, and one that leaves the end of another is `"mixed"`, which nothing can
parse.  A correction keeps the lock over the three, as the code does.  `owner` is a history
variable: the process that accepted the run, `"lost"` once it died.  Abstracted:
stage names, timestamps and error texts; a run id is fresh; a pid is not reused
(jobs.py:89-98 documents the exposure);
the worker's update of memory is one step and its file write, which no other
thread of any process competes for by then, is another.

**PipelineRun.**  The registry as one run sees it: `state`, `file`, `event`;
`pc` and `stage` are the worker's place in `_run` and in `run_pipeline` or
`run_overlay_pipeline`; `dir` is what each artifact's file is worth.  `Strategy`
and `Overlay` list what each stage leaves.  `mark` remembers the stage in which
the first cancellation was accepted.  What `submit` and a queued `cancel` do
between memory and file is `JobRegistry`'s subject and one step here.

**Sweep.**  `future` is what the executor knows of each symbol's task (pending,
in the bounded call queue, executing, finished, failed, cancelled), `pending`,
`batch` and `bySymbol` are the caller's variables.  A pair yields a row, a
skipped row or an exception, chosen at the start.  `run_overlay_sweep` has the
same control and is the same model.  The executor is external.

**ComputeCache.**  One process runs at most one cached call (the registry's single
worker).  `entry` is the parquet file of a fingerprint, `opener` the last to truncate
it, `sidecar` its metadata.  Either write may fail: pyarrow removes a file it failed to write, while
a sidecar that fails stays absent or cut short beside a whole entry, and the call raises before it
evicts.  `slipped` is history: the fingerprints whose sidecar failed last.  `older` orders the files by mtime: every opening and every write puts a file
after all others (two files with one mtime are not modelled: the sort would keep
them in the order of the directory).  `evict_oldest` lists the directory (`seen`), then
asks each file for its mtime, then deletes what is beyond the capacity (`doomed`, the
newest first, as in the sorted list).  pyarrow's removal is external.

**DataFetch.**  `pc[i]` is the place of the i-th fetch; `csrf`, `lock` are the
module's globals.  `blocked` and `switchable` say what the network and the
yfinance release are like.  An answer may be empty for a symbol that does not exist, on a network
that blocks the strategy in use, and at any time for a rate limit (sources.py:110-114 and 179-181
name them): `frame` says `"limited"` for the last, a frame without rows like the others, kept apart
for the property alone.  External: `yf.download` and the private switch.

**ProfileStore.**  `path[s]` and `tmp[s]` are the two files of a slug, `handle[t]`
the name the file a thread has open has now: a writer follows its file through
a rename.

**WalkForward.**  The loop of `walk_forward_oos` over the windows: `i` and `start` are
the loop's, `is_rows` and `oos_rows` the rows whose returns the two lists of chunks
hold, `dropped` the first row of each window, which has no return.  A strategy's
positions in a window are any short, flat or long series, chosen anew for each
window, as the code recomputes the strategy on the window alone.  `round()` may
take a half either way, since its argument is a product of floats.

**Evaluation.**  The walk of each pair in turn, then `_score_pair`, the attrition report
and `screen()`; then later requests over the same data, which find the metrics in
the cache.  `measured` is the threshold-independent half of the sweep that the
cache keeps, `rows` is `sweep_df`.  `ApplyFunnel`, `Vectorized` and `PassesSixFilters` are the
three copies of the filters, each written as its source is; comparisons with NaN
are false, as in Python and NumPy.  What a stitched series measures (its Sharpe
ratios and drawdown) is any member of a set; the number of trades is the walk's.
Thresholds are integers scaled by the sliders' range.

**OverlaySim.**  One action per path through the body of the day loop: before the
volatility is warm, the entry, and a day with a position, which may end it and
open the next.  Money is whole units for one contract of one share; the pricing
formula and the strike selection are operators of which only the no-arbitrage
bounds and positive strikes are assumed.  `ledger` is history: what the cycle has
earned before costs, and whether its equity ever died.

**RegimeLabels.**  `label` is the array a detector returns; each label carries `seen`, the
last row of the slice its fit was given.  `Refit` is one turn of the loop over
`refit_points` of `hmm.py` or `changepoint.py`, `Filter` a whole call of `ma_filter.py` or
`realized_vol.py`.  The regime a fit yields is free, where the code does not force
`CHOPPY` (a slice too short, a fit that raises).

**Signals.**  The 47 families of the grid by the *shape* of their series: a chain of
`where`, a `mask` with a forward fill, a sign, a loop.  A day's *reading* is what the
strategy's comparisons say: long, short, neither, or undefined when an indicator is
NaN.  `Position` is what the shape makes of it.

**LayerStack.**  One row of the asset per step, all steps of `_ATTRIBUTION_STEPS` side by side:
`raw` are the base positions, `aligned` the label reindexed to the asset's days and
carried forward, `decided` what `run_stack` returns on the row with the last day it knows
of, `earning` what the engine multiplies with the row's return.

**ParabolicSar, BreakoutExits.**  One row of the loop per step.  The acceleration of the SAR is
any step from the stop towards the extreme; the chandelier's ATR multiple is any
distance.  `since` (the prices of the trade so far) and `turned` are history.

**CrossSection.**  One row of the panel per step; `Rebalance` ranks who is eligible in any
order (the trailing returns are left out), `Carry` is every other row.  `LastClose` is what the
forward-filled panel holds for an asset on a row, which is the asset's last one from its delisting on: a
delisted asset stays eligible, with a return between two of its own last closes.  `applied` is
`weights_df.shift(1)`, `ranking` the rows on which both were decided.

**MCBooks.**  The books share no state and are not composed: one run takes them one at a
time, the others resting at their start.

## 3. Runs

| Run | Question | Instance |
|---|---|---|
| `registry_threads` | does the registry refine `JobLifecycle`, do files follow, does every run end? | 1 process, 2 request threads, 2 runs, 1 stage |
| `registry_processes` | does a restart recover what died and nothing else; do two processes at once keep off each other's runs? `Ownership`, the inductive invariant of the proofs, is checked here too | 2 processes, in sequence or at once, 1 request thread each, 2 runs, one of them with a file without pid |
| `pipeline_run` | do artifacts, state, file and what a client is served agree? | both kinds of run, complete |
| `sweep_pool` | do pool and serial loop implement `SweepContract`, and return? | 3 symbols, 2 configurations, 2 processes or the serial path, any yields |
| `cache` | does a call that missed keep its entry and the cap, what is left undescribed, and can two processes leave a torn file without a writer? | 2 processes, in sequence or at once, 3 fingerprints, capacity 1 |
| `data_fetch` | the lock, the switch, empty files, the order of errors, termination | 4 fetches (one symbol twice, one delisted) on 3 threads, any request rate-limited, any cache directory |
| `profiles_crash` | whole files, complete lists and loads | 2 threads, a preset and two names of one slug |
| `evaluation` | is every row of a history used once, do the copies of the filters agree, does tolerance cost a survivor? | 2 pairs, histories of 5 to 8 rows in 2 windows, 3 positions of each slider, metrics below, at and above the thresholds |
| `books` | are the overlay's losses bounded, costs charged once, rolls on time; do labels come from the latest refit; does nothing earn with knowledge of its day; do stops and exits belong to their trade; is the portfolio neutral and paid for? | see below |

Why the bounds are enough: what goes wrong in the concurrent part needs two actors
and one or two objects.  Two threads against the worker give every order of the
critical sections; a second run is needed for the queue and for a scan in
progress; a third fingerprint for an eviction that has a choice; a third symbol
for a batch of one while two are pending; four fetches on three threads for one
that starts after the first wave.  Histories of 5 to 8 rows in two windows have
remainders, halves to round, windows that are just long enough and pairs that are
skipped; the trades reach each minimum the sliders ask for.

The books of `books`:

* *overlay*: all specs of the four structures with 3 days to expiry, 9 rows, 3 closes,
  2 volatilities: three contracts in sequence, with every schedule of rolls in them;
* *regimes*: frames of 0 to 6 rows, `min_train` and `refit_every` 2: slices too short, two
  whole spans and one cut short;
* *layers*: three pairs of calendars (equal; an asset with fewer days; days only one of
  the two has), a stack of one and of two strategies, with and without an override,
  each sizing, with and without regimes;
* *sar*: every history of rows with prices 1 to 4, to the last state it can reach;
* *exits*: every history of quotes 1 to 4, with windows 2 and 3 in and 1 and 2 out, and an
  ATR from the first row on;
* *cross*: six assets, three panels (all from the start with one delisted before a
  rebalance; three listed after the first row; two, then five, then six) and two lookbacks,
  one with a skipped month, a rebalance every third row.

`PipelineRun` has no bounds, and the proofs of section 4 hold without any.

`CHECK_DEADLOCK FALSE` stands where the system may stop: all processes have died
(registry, cache), the call has returned (sweep, fetch), the history is over
(books, `signal_warmup`).  Symmetry is used in `registry_processes` and in `cache`, which have no
liveness property; what they permute is interchangeable in every definition they check.

Runs expected to fail, each with a property that a text of the repository states
(`PROJECT.json`, findings):

| Run | What the code does |
|---|---|
| `registry_cancel_raises` | cancelling a run that died in the queue raises `KeyError` after a restart |
| `profiles_racing` | two saves of one slug: a reader gets the truncated file |
| `signal_warmup` | `zscore_revert`, like every chain of `where`, is short as long as its indicator is undefined, where base.py:27-29 wants a flat warmup |

The models have more behaviour of this kind, without a run of its own; the
properties are stated so that they hold beside it:

* a live sibling's queued run is cached as queued for ever (jobs.py:388), while
  jobs.py:345-346 says that a sibling's unfinished runs are read again;
* a cancellation in the report stage leaves a cancelled run with its whole report
  (pipeline.py:587);
* a cancel between `submit`'s registration and its file write leaves "queued" on
  disk for a cancelled run (second disjunct of `FileMirrorsMemory`);
* the two may have the temporary file open together: the shorter queued text over the
  longer cancelled one, or the rename of one while the other writes, publishes a
  `status.json` that `json.loads` refuses, and it stays (same disjunct); while the process lives
  its memory answers, after a restart `get` raises on that run and `list_all` on every call,
  since its scan never ends (`JobRegistry!GetRead`, `ScanVisit`);
* a process that dies between the truncation by one and the rename by the other leaves an empty
  `status.json`, with the same effect;
* the slower of two renames finds no file: `submit` dies before it enqueues, or `get` and
  `list_all` answer 500 where two processes correct one stale file (`JobRegistry!ReplaceFails`);
* a "running" file read before its process finished and died is corrected over
  the result (`OutcomeIsDurable` and `ScanRecovers` are claimed only as long as no two
  processes have been up at once);
* a crash inside `to_parquet` leaves a torn entry that every later call with that
  fingerprint raises on (`ComputeCache!Read`, result "failed");
* a sidecar that cannot be written leaves an entry that later calls hit without its
  description, and the run that wrote it fails (`ComputeCache!SidecarFails`);
* a frame that a rate limit emptied makes the thread switch strategies on a network that blocks
  none, and once the switch is made it is returned without a second attempt (sources.py:86);
* a failed cookie switch is attempted again by every empty fetch
  (`SwitchedOnce` bounds the attempts only where the switch works);
* two fetches of one symbol in a request: one may read the file the other is
  writing, and raises (`DataFetch!Read`);
* a profile's name is loaded from, and saved over, the file of any name with the
  same slug (`ProfileStore` states everything per slug);
* config.py:21-23 says an out-of-sample drawdown passes when it is at least the
  floor; all three copies of the filters want it above the floor;
* mapping.py:80-82 says `risk_tolerance` strictly decreases `min_trades`, which is
  rounded and stays the same between some positions (`LooserKeepsAll` needs only
  that it does not increase);
* walkforward.py:130-131 says the split lies behind a window's first row whenever
  the fraction is positive; a fraction below 1/60 rounds to no in-sample row even in
  the shortest window that is kept (`ReturnsAreEnough` has the hypothesis);
* overlays.py:52-57 says the cost of opening a cycle is charged to the outgoing one;
  line 626 charges it to the first day of the new one, which is what the model does;
* hmm.py:5-13 describes keeping the last `refit_every` decoded labels of each refit, while the
  code spreads the one label of the refit day over the span that follows;
* hmm.py's first refit always yields `CHOPPY`: of its `min_train` + 1 rows the first 21 have
  no features, and fewer than `min_train` are left (`RegimeLabels!UsableHmm`);
* changepoint.py's docstring gives the span of a refit as open at its own day; the code
  labels the refit day too, as the model does;
* the ATR-band loop of supertrend ratchets a band only while the previous close has not
  crossed it (trend.py:80-83), so that its trailing stop may loosen; it is not modelled,
  and `StopTightens` speaks of parabolic SAR;
* the stop of parabolic SAR loosens on the day after a turning row that itself went past
  the new stop (the exception in `StopTightens`);
* the engine never charges an entry on the first row: its turnover is a difference with
  no row before.

Three exposures have no property: a pid that the system reuses keeps a dead run alive
(jobs.py:89-98), two requests in one microsecond share a run id (app.py:237), and the
long wing of a put spread may be asked for at a strike of zero or less
(overlays.py:483).  The first two are events outside the code, which has no answer to
them; of the third the models assume the opposite (`SelectorAssumption`).

### Fairness

* `JobRegistry!FairSpec`, `PipelineRun!FairSpec`: weak fairness of the worker thread
  and, in the registry, of the request threads that are inside a handler.  A
  thread that can take a step takes one: the operating system schedules it, and
  the lock is held for finite work.  Nothing makes requests arrive or processes
  die.  That a stage's work ends is assumed (finite loops over finite data).
* `Sweep!FairSpec`: weak fairness of the calling thread and of the executor's
  threads and processes together.
* `DataFetch!FairSpec`: weak fairness of every pool thread and of the caller.  A
  thread waiting for the lock needs no more: each holder leaves it for good.

## 4. Proofs

Everything listed is proved by `tlapm` to the last leaf, from the named
assumptions on constants only.

* `JobRegistryProofs`: `TypeCorrect`, `OwnershipInvariant`, `RunningIsExecutingCorrect`,
  `LifecycleImplemented`, for any numbers of processes, runs, request threads and
  stages, with restarts and siblings, from `ConstantsAssumption` (names are distinct from
  the markers "none" and "lost").  Neither "running is executing" nor the refinement
  is inductive: a thread that holds a run in hand may correct it, and what it may
  assume depends on who owns the run.  `Ownership` says it: the owner remembers its run;
  a started run is ended or in the worker's hands; the worker's place fits the state
  in memory; a queued run waits once and is not started; a thread between the parts
  of `submit` holds a run that is its process's own and not yet queued; a thread that
  reads or corrects a file holds a run that is not.  There is one lemma per action
  that `Ownership` is kept, and from it each step is shown to be a step of
  `JobLifecycle` or a stutter.
* `JobRegistryProofs`, the files: `FilesMirrorMemory`, `LiveRunsKeepTheirFiles`, `ScansRecover`,
  `OutcomesAreDurable`, from the same assumption.  `Ownership` is about memory; it says little
  of what a file is worth between the parts of a write, or of the copy of one
  that a thread read before it took the lock.  `RegistryInv` adds three parts.
  `FilesInStep`: until a run is started its file and temporary file say "queued" or what
  memory says, or are empty or mixed (`WaitingFile`); an empty one has a thread whose open
  handle it is and that is about to fill it, and a mixed one belongs to a cancelled run
  (`EmptyIsFilled`), so that at rest the exception of `FileMirrorsMemory` is all that is left; from then on the worker alone writes, and the file lags exactly while the
  worker is between memory and file; the pid in a file, or in a copy of one that a
  thread holds, is the owner's or that of a process that is gone, so that a correction
  decided on an old copy never hits a live run; a missing file has its first writer under way.
  `AtRest`: a process that is not up holds nothing.  `Recovering`: as long as processes
  follow each other, a run lost with its process says "running" only until it is looked at:
  it is on the list of the scan in progress, or a thread holds it and its copy is still
  true, or is "running" where the file was corrected meanwhile; and the correction it is
  writing is the only one under way, because the lock is kept over its three parts
  (`Corrects`).  Both recovery theorems keep the
  hypothesis `~Mingled`, which section 3 shows to be needed.
* `PipelineRunProofs`: `ArtifactsInOrder`, `CancelIsHonoured`, `ReportsAreWhole`, `RunLifecycleImplemented`.
  There are no constants and TLC's check is complete; what the proof adds is why.
  `RunInv`: earlier stages have left their artifact and later ones nothing (`Staged`), state
  and file fit the worker's place (`Registered`), "done" is said only past the last stage
  and a report is served only after it (`DoneIsLast`), and the first accepted cancellation
  pins the stage (`Marked`).
* `SweepProofs!SweepImplementsContract`, for any symbols, grid, cores and requested workers,
  from `SweepAssumption` (the symbols are distinct: keys of a dict).  The caller's table is
  right because of what it waits for: a symbol neither pending nor in the batch has
  finished, a finished one did not raise, a failed one raises or the pool is broken
  (`CollectInv`); while it submits, exactly the first symbols are submitted (`SubmitInv`);
  the serial loop has written the first rows of the table (`SerialInv`).
* `ComputeCacheProofs!CacheIsDescribed`, for any processes and fingerprints, from
  `CacheAssumption`.  The claim is about the moments between undisturbed calls; to get
  there the invariant (`Alone`) follows the one process through its call and says which
  file and which metadata do not fit yet at each place, or never will because their write
  failed (`slipped`).  `TornHasWriter` holds with siblings and crashes too.  Neither says that a
  torn entry is repaired: it is not, until it is evicted.
* `ComputeCacheProofs!MissesAreKept`, for any processes, fingerprints and capacity, from the
  same assumption.  The files are finitely many and their mtimes order them
  (`FilesOrdered`); from the write to the end of the eviction the file just written is whole
  and has no younger one, and what is not on the list of deletions is within the
  capacity (`Kept`).  The step that makes the list rests on counting (`EvictionSuffices`): files
  with fewer than `KeepMost` younger ones each have another number of them, so that they
  are at most `KeepMost`.  Leftovers of earlier crashes are among the files and cost nothing.
* `DataFetchProofs`: `SwitchHappensOnce`, `EmptyFramesAreStale`, `FirstErrorIsRaised`, for any fetches
  and threads, from `FetchAssumption`.  `SwitchInv`: the lock is held by who is in the
  critical section, who finds the strategy inactive if it switches.  `FrameInv`: what a
  fetch may hold, and what the file of its symbol may be, at each of its places; an
  empty frame there is one that a rate limit emptied or whose download began before the
  switch.  `GatherInv`: the results so far
  are in order and none of them raised.
* `ProfileStoreProofs`: `TypeCorrect` for any threads, names and slug function; `FilesAreWhole`
  and `KeptProfilesAreSeen`: if saves with one slug do not overlap (`~Racing`, the hypothesis
  `profiles_racing` shows to be needed), a file under a profile's name is whole after any
  crash, a listing misses no profile that stays, and one that stays is loaded.  The
  invariant: at most one save per slug, its temporary file is empty and open until
  written, whole until renamed; a whole file is of a name with its slug
  (`SlugsMatch`); what a listing has not answered yet is still on its list (`ListOwes`).
* `EvaluationProofs`, one walk: `WalkPartitions`, `TradesAreAccounted`, `ReturnsAreEnough`, for histories
  of any length, any number of windows, any fraction and any positions, from
  `WindowsAssumption` (and, for the last, `2 * IsNum > IsDen`: more than half of a window
  in-sample).  `WalkInv` says in closed form where the windows so far end; from the
  division with remainder follows that the last one ends with the history, and from
  `round()` being monotone at zero that no window is empty.  `CountInv` adds that the
  tails of distinct windows are disjoint and finite, so that their sizes add up.
  `SweepPartitions`, `SweepAccounts`, `SweepReturnsAreEnough` carry the three to each pair of a sweep.
* `EvaluationProofs`, the filters: `CachedIsComputed`, `TolerancePays`, `ScreenAgreesWithSweep`, for all
  metrics, NaN included, and any ranges of the sliders whose ends are in order, from
  `MappingAssumption` and `MeasurableAssumption`.  The invariant is that what is measured are
  metrics; the lemmas say that the vectorized filters and the row-by-row ones agree on
  every row (`VectorizedIsScored`) and that interpolation and rounding half up are monotone.
  That the report's counts add up is a sum over categories, which induction would do and
  the provers cannot.  It is stated instead as the size of a set of pairs (`Total`: a
  category and a number up to its count), and `PartsAddUp` builds the bijection between
  that set and the rows from one bijection per category.
* `BookProofs`, the overlay: `TypeCorrect`, `RiskIsDefined`, `EquityFollowsCycle`, `RollsComeOnSchedule`, for any grid,
  closes, volatilities, strikes, pricing formula and costs, from `SizesAssumption`,
  `PriceAssumption` (no-arbitrage bounds) and `SelectorAssumption` (strikes are positive).  What a
  cycle may still lose depends on its legs: `RiskInv` adds that the legs are those of
  their structure (`Structured`) and that what was earned so far is the change of the book
  value (`Accounted`); the bounds on prices then close the step.  For the equity the row of
  the entry is the exception, and an equity that is not dead was never clamped
  (`AliveIsUnclamped`).  `RollsDue` counts rolls in cycles: the open position entered that many
  cycles after the first, exactly so unless assignment is avoided.
* `BookProofs`, stops: `StopOnlyTightens` (and `StopStaysBehind`), `StopBelongsToTrade`, `HeldWithTheTrend`, for
  any prices and windows, from `PricesAssumption` and `ChannelAssumption` (an exit looks no
  further back than the opposite entry, as in the grid).  The SAR's clamp pulls the
  stop back to the last two rows, so that `Ordered` has to say where these lie; a held
  turtle leaves no way out but its exit because its channels stay defined (`Ready`).
* `BookProofs`, regimes and layers: `LatestRefitLabels`, `StackIsCausal`, `RoutingFollowsSharedDays`, for any frame,
  schedule, pair of calendars, stack and overrides, from the assumptions of `RegimeLabels`,
  `Signals` and `LayerStack`.  `Scheduled` says that the next refit is on the schedule and the rows before it
  are labelled; `Labelled` that no label has seen a row after its own.  Rows and
  days are tied by counting: the row of a day is the number of the days before it, so
  that rows number the days in order.  `Aligned` says that the label in force is that of
  the last shared day.
* `BookProofs`, the portfolio: `PortfolioIsNeutral`, `EarnedIsPaidFor`, for any assets, panels and costs, from
  `PanelAssumption`.  A ranking is injective, so that its first and its last third have
  as many members, and disjoint; `Ranked` says where weights and applied weights come
  from and what the last cost was.  That the two closes of a ranking are the asset's own, in
  order, follows from what a forward fill leaves on a row.

Only model-checked:

* liveness (`EveryRunEnds`, `CancelEndsRun`, `Returns`, `FetchEnds`): fairness is out of the prover's
  reach.  Every other property of a run that passes is stated by a theorem;
* the three properties of the runs that are expected to fail.

## 5. Plan

Done in this order: registry, its proofs, pipeline run, sweeps, cache, data stage,
profile store and its proofs, overlay simulator and its proofs, walk-forward and its
proofs, evaluation; then the regimes, signals, layers, stop loops and the momentum
portfolio with their proofs, and the proofs of sweep, cache, data stage and filters; then the
files and the recovery of the registry, the pipeline run, what a miss keeps, and the counts
of the attrition report; then the truncation of status files and failing sidecars, with
the proofs they touch.

What would come next:

1. The steps of liveness that need no fairness, as theorems: that each step of a sweep, of a
   fetch or of a started run towards its end lowers a measure, and that no step raises it.  TLC
   would keep the conclusion.
2. A theorem that composes `JobRegistry` and `PipelineRun`: both refine `JobLifecycle`, and
   the worker's steps of the one are those of the other with the stages folded away.
3. A composition of registry, pipeline run and sweep for two runs, whose subject would be the
   pool processes of a cancelled sweep that still execute beside the next run's.
4. `walk_forward_score` of the momentum check, which reuses the window bounds of
   `walkforward.py`, and supertrend's bands, whose run would be expected to fail.

## 6. Not modelled

* **Pricing, metrics, bootstrap, sensitivity, indicators**: floating-point analysis without
  state.  The models assume of pricing only the no-arbitrage bounds, of an indicator
  only that it is defined or not, of metrics nothing.
* **The fits** of the hidden Markov model and of the change-point search: statistics; any
  label may come out.
* **Parameter sets of the grid**: literals; `Signals!Grid` keeps how many there are.
* **Explicit weights, `select_uncorrelated`, `cap_weight`**: the pipeline calls none of them.
* **Supertrend's bands**: which way they ratchet is noted in section 3; its
  docstring calls them a trailing stop that flips on breach: the flip is the loop's one
  test, and the trailing is what the loop does not do.
* **Request validation, artifact download, mapping preview, static files, explanation
  texts, the soft score**: they change no state that another part reads.
* **The synthetic source**: a seeded generator for tests and local work.
* **Web page, scripts, Docker, workflows**: a client of the service, and its packaging.
