# OpenCDC: TLA+ models, model checking and proofs

OpenCDC is a static clock-domain-crossing (CDC) analyzer written in C++. It
reads RTL (through an external compiler front end) or a gate-level netlist,
builds a graph of registers, logic and nets, searches the graph for paths
between registers of different clock domains, decides for each whether it is
synchronized, and reports findings and a sign-off verdict. It runs as a command
line program, as a library (with Python bindings) and as a language server.

This directory holds TLA+ modules of the program from the modules of a written
netlist to the exit code of the command line, of its two concurrent utilities
and of its language server; TLC configurations that check them on small
instances; and TLAPS proofs about all but two of the state machines. Paths are relative to the
repository; a bare file name is a file of the table in section 1.

Contents

1. The system: components, state, operations, interactions
2. What is hard in it
3. Modules and how they correspond to the code
4. The runs: what is checked, with which bounds, and what it shows
5. Fairness
6. The proofs
7. What only TLC checks
8. Findings and known limits of the code
9. What is not modelled, and the plan

`PROJECT.json` has the same information for tools: the map from definitions to
source lines, the runs, one deliberate bug per property that TLC detects, the
hazards and the theorems.

## 1. The system

| Component (source) | State | Operations | Correct when |
|---|---|---|---|
| Netlist graph (`src/ir/graph.cpp`, `graph.h`) | nodes, edges, `adj_`/`radj_`, id and name indices, packed edge set, `next_id_`, limits, `truncated_`, generation, dirty flag | `add_register/port/net/combinational`, `add_edge`, `remove_nodes`, `set_limits`, `validate` | indices and adjacency agree with the nodes and edges after any calls; ids are never reused; a refused node or edge leaves a mark; every change is visible to caches |
| Graph walks (`src/ir/graph.cpp`) | visited set, stack, path | `register_predecessors`, `register_successors`, `find_register_paths` | they return what they search for, on cycles and branches too, and say so when they stop early |
| Compaction (`src/ir/compact.cpp`) | protected set, `alive_fwd` memo | `compute_protected`, `compact_graph` | register reachability and the clock structure survive |
| Netlist front end (`src/frontend/netlist/*.cpp`) | tokens, modules, alias classes, port feeds, graph builder | parse, flatten, build, rename, mark gray buses, regroup, `elaborate` | the graph connects what the text connects; `ok` means complete or marked |
| Cell libraries (`src/cell/*.cpp`) | cells | load, look up | a cell name gives the right pins |
| RTL front end (`src/frontend/slang_adapter.cpp`) | visitor | elaborate | the graph is the design |
| Clocks and constraints (`src/clock/*.cpp`) | domains, root clocks, false and multicycle paths, groups | SDC and YAML readers, `extract`, `is_false_path`, `resolve` | a constraint cuts what it matches; registers share a domain when they share a clock |
| Synchronizer matching (`src/cdc/synchronizer.cpp`) | none (pure on the graph) | `find_pattern_for_dest`, `match`, `chain_depth`, `has_chain_warnings` | a recognized chain really is one |
| Crossing analysis (`src/cdc/crossing.cpp`) | per-source path list, `seen` pairs, findings, marks of uncertain nodes | `analyze`, `process_register`, companion rules, CDC008, `propagate_uncertainty` | every crossing is reported, suppressed by a constraint or declared truncated |
| Stage logic (`src/cdc/cdc006.cpp`) | chains of `match` | `analyze` | logic in front of or between stages is reported |
| Reset, reconvergence (`src/cdc/reset_domain.cpp`, `reconvergence.cpp`) | reset domains, per-destination sets of descendants | `analyze` | as documented in `docs/rule-semantics.md` |
| Black boxes (`src/cdc/blackbox.cpp`) | registry | look up | a path is safe only through a box declared safe |
| Pattern recognition (`src/cdc/pattern.cpp`) | caches keyed by graph generation | `recognize`, verification | a cached answer is for the present graph |
| Configuration, rules (`src/config`, `src/rules`) | settings, rule table | load, profile, override, filter | the rules that run are those asked for |
| Waivers (`src/cdc/waiver.cpp`) | waivers, used marks | load, `apply`, `check_unused` | a waiver hides what it names and expires |
| Analyzer (`src/analysis/analyzer.cpp`, `signoff.cpp`, `coverage.cpp`) | `AnalysisResult`: graph, findings, status, verdict | `run`, `run_on_graph`, `run_incremental` | order of the stages; status and verdict follow from findings |
| Baselines (`src/analysis/trend.cpp`) | files | save, load, compare | a saved baseline can be read back, new findings are seen |
| Command line, bindings (`src/main.cpp`, `src/python`) | arguments, output files | `check` and other commands | exit code follows the verdict; no half-written file is left |
| Reports (`src/report`) | none | format | output says what was found |
| Parallel loops (`src/util/parallel.h`) | atomic index, abort flag, results, first exception; the pool's queue, mutex, condition variable | `parallel_map`, `parallel_for`, `ThreadPool::submit`, `~ThreadPool`, `worker_loop`, `ThreadSafeQueue` | each item or task once, no exception lost, nobody left behind |
| Language server (`src/lsp/server.cpp`, `server.h`) | open documents, diagnostics cache, cancel flags; sockets, `running_`, server thread | `start`, `stop`, `wait`, `server_loop`, `process_message`, `did_open/change/save/close`, `$/cancelRequest` | diagnostics match documents; the server can always be stopped and cleans up |

Interactions. `main` reads its options and the configuration and calls the
analyzer, which reads the configuration again, lays a profile over it, calls the
front end and the constraint reader, and then runs its stages one after the other
on the graph: clock resolution, crossings, CDC006, resets, reconvergence,
the CDC001 of isolation cells, rule filter, waivers, coverage, verdict. Each
stage reads the graph and appends findings; later stages read and change the
findings of earlier ones (`propagate_uncertainty`, the isolation stage, waivers), and
`propagate_uncertainty` also writes to the graph, which a later
`run_incremental` reads again. The front end calls the graph's `add_*`
functions, tests `truncated()`, compacts the graph and validates it. The
crossing stage is the only one that uses threads: with more than one thread it
calls `parallel_map` with one item per register. The caller of the library may
edit the graph of a result and analyse it again. The language server runs
an analyzer for each document change on its server thread, with a callback
that tests a cancel flag and a deadline between the stages; its owner thread
starts and stops it over shared members and mutexes.

## 2. What is hard in it

* *Threads.* Workers of `parallel_map` race for items, raise an abort flag with
  relaxed memory order and hand one exception over. The pool's workers sleep on
  a condition variable while tasks submit tasks and the destructor runs. The
  server's owner calls `stop` at any step of the server thread, which shares
  descriptors with the notification code.
* *Graph shape.* Chains loop, branch and reconverge. Four loops in the
  synchronizer matcher follow the same chain with different tests; two walks
  search in opposite directions; the path search stops at limits. The order in
  which edges were added decides which path is found first, and only the first
  counts.
* *Names that pass through many hands.* A net of the text is a bit of a bus, the
  formal of a child, an alias of another net, a port feed and a node, in this
  order, and each pass has its own idea of when two names are the same net.
  Patterns of waivers, constraints and configuration match the names at the end.
* *Layers.* Defaults, configuration, profile, file and request each
  set or refuse the same options; readers pass over some errors and fail on others.
* *Time.* Waivers expire by the clock of each call; findings are waived before
  unused waivers are looked for, and the day may change in between.
* *Stale information.* What the graph of an earlier result keeps shows in
  the next; cancel flags are shared, replaced and erased while analyses hold
  them; adjacency lists and indices are rebuilt on removal; compaction removes
  what other stages might look at.
* *Failing halves.* A write, a flush or a rename fails, or the process is killed,
  between the temporary file and the artifact.
* *Limits.* Node and edge limits, the path limit, the depth limit, the
  stage limit, the number of descendants of a reconvergence search, the width of
  ids in a packed edge key.

The complete list, each at its line and with the properties that cover it, is
under "hazards" in `PROJECT.json`.

## 3. Modules

```
MapCall  <-refines-  ParallelMap  <- MCParallelMap       ParallelMapProofs
                     ThreadPool   <- MCThreadPool        ThreadPoolProofs

IRGraph <- IRGraphApi <- MCIRGraphApi                    IRGraphProofs
IRGraph <- Traversal <- Compact
           Traversal <- Synchronizer <- Crossing <- DomainRules
DomainRules <- AnalysisRun <- MCAnalysis                 AnalysisRunProofs
Crossing <- Signoff
DomainRules <- GraphLemmas

NetlistParser <- Flatten <- GraphBuilder <- NameMap <- Regroup <- ClockResolver
CellLibrary, IRGraph <- GraphBuilder
ClockResolver <- WrittenNetlist;  WrittenNetlist, Compact <- NetlistAdapter <- MCNetlist

Waiver <- Config <- BlackBox;  Waiver <- Constraints
DomainRules, Signoff, Constraints, BlackBox <- AnalyzerPipeline
AnalyzerPipeline, Baseline <- CommandLine <- MCPipeline  AnalyzerPipelineProofs

LspDocuments                                             LspDocumentsProofs
LspLifecycle                                             LspLifecycleProofs
```

(`A <- B`: B extends A.) The state machines are ParallelMap, ThreadPool,
IRGraphApi, AnalysisRun, NetlistAdapter, AnalyzerPipeline, CommandLine, LspDocuments and
LspLifecycle; the other modules define data and operators on it. A module of proofs
extends the module it is about; `GraphLemmas` has what `IRGraphProofs`, `AnalysisRunProofs`
and `AnalyzerPipelineProofs` share. RECURSIVE
operators are kept to the modules of the netlist front end, about which nothing is
proved; elsewhere recursion is a recursive function.

**MapCall, ParallelMap** (`src/util/parallel.h`). `MapCall` is what the caller
of `parallel_map` is promised: one step that returns the image of all items, or
throws the exception of an item that failed. `ParallelMap` is the code. The
first lines clamp the number of threads (`Wanted`, `Clamped`, `NumThreads`);
with one thread left the caller runs the loop (`SeqItem`, `SeqThrow`,
`SeqReturn`), otherwise it spawns and joins (`Spawn`, `SpawnDone`, `Join`,
`JoinDone`, `Rethrow`, `ReturnResults`) and each worker loads the abort flag
(`SeeAbort`, `MissAbort`: a relaxed load may miss a store for any time), claims
an index with `fetch_add` (`Claim`), runs the item (`Run`, `RunThrows`) and
records an exception under the mutex (`Catch`). A result is told apart only by
the item it is for. `MCParallelMap` runs the code twice on the same items, with
one thread and with several.

**ThreadPool** (`src/util/parallel.h`). One step per critical section of
`mutex_`. `Submit`/`Notify` are the two halves of `submit` (the notification is
outside the lock), `Block`, `SpuriousWake`, `Take`, `Exit` are the wait loop of
`worker_loop`, `SubmitChild`/`NotifyChild`/`ChildRefused`/`Finish` the task it
runs, `Stop`, `NotifyAll`, `JoinAll` the destructor. A task may submit another
one, so a submit can meet a pool that is stopping.

**IRGraph, IRGraphApi** (`src/ir/graph.cpp`, `graph.h`). `IRGraph` has the
class as a record and each method as an operator on it: nodes and edges in
order, both adjacency maps, both indices, the packed edge set with its
32-bit test, the id counter with its wrap, limits with 0 meaning the
default, `truncated`, generation and dirty. `remove_nodes` rebuilds
what the code rebuilds. `IRGraphApi` is the state machine whose actions are the
calls. `find_node_mutable` and `nodes_mutable` hand out references; they are not
actions, since what they change is the business of their callers (renaming,
gray marks, roots of generated clocks and uncertainty marks appear with these).
`missing` is history: it records that some call so far left out a node, an edge
between two nodes that exist, or an edge from one of the inputs of a new gate.

**Traversal** (`src/ir/graph.cpp`). The three walks with their stacks, visited
sets, limits and order of results, next to definitions of what they search for
(`RegistersReached`, `SimplePaths`).

**NetlistParser, Flatten, CellLibrary, GraphBuilder, NameMap, Regroup,
ClockResolver, Compact, NetlistAdapter** (`src/frontend/netlist/*.cpp`,
`src/cell/cell_library.cpp`, `src/clock/resolve.cpp`, `src/ir/compact.cpp`).
`NetlistAdapter::elaborate`, one action per pass, from the items of the written
modules to the validated graph. A name is a record (instances, base, bit), so that the
places where the code takes a select off a name, prefixes a name with an
instance or looks a name up by its suffix are updates and comparisons.
`NetlistParser` says what the parser keeps of declarations, connections
and assigns, and how the top is selected. `Flatten` writes child modules into
the top with port substitution, and stops at the depth limit and at recursion.
`GraphBuilder` has the union-find of aliases, port feeds, sequential cells,
clock gates, muxes, gate primitives, the fallback for unknown cells and the
return in the middle of `build` when the graph is full. `Regroup` merges bits that
are clocked and reset alike and marks the buses that are driven as
`x ^ (x >> 1)`. `Compact` has `compute_protected`, the memo of `alive_fwd` and the
bypass edges. The second, case-blind look of `find_pin` at the pins is left out:
pins are written in the case of the library. `WrittenNetlist` is not code: it says,
from the written text alone, which bits are connected to which, for `ConnectivityExact`
to compare with. A cell connected by position leads nowhere in it and is a register
that is not `named`; all outputs of a cell count, and `OneOutput` says whether a netlist
has a cell with two.

**Synchronizer, Crossing, DomainRules, AnalysisRun** (`src/cdc/synchronizer.cpp`,
`src/cdc/crossing.cpp`, `src/cdc/cdc006.cpp`, `src/cdc/reset_domain.cpp`,
`src/cdc/reconvergence.cpp`, `src/clock/domain.cpp`, parts of
`src/analysis/analyzer.cpp`). A design is a graph with attributes of its nodes
(bits, reset, root clock, isolation, mark of uncertainty) and what the user constrains.
`Synchronizer` has the four chain walks as one walk with two switches, which is
where the copies in the code differ. `Crossing` has `process_register` with its
suppressions in the code's order, the severity decisions, the companion rules,
the daisy-chain rule CDC008, `propagate_uncertainty` and CDC006. `DomainRules`
has reset domains and their synchronizers, the breadth-first search behind two
destinations with its bounds on hops and descendants, and the stage that
turns a CDC001 over an isolation cell into information. A finding keeps rule, severity,
ends, path and status, and the branch that decided it (`why`); evidence and
wording are left out. The findings are a set, so findings that differ only in
wording are one. `AnalysisRun` is the state machine: edges are added in any
order over the nodes of a sketch, then the stages run one after the other.
Abstractions: a selector of a constraint is the set of what it matches (in
AnalyzerPipeline: what `Constraints` says it matches); the registers of a bus that the
pattern recognizer calls safe are an input (`proven`); `MaxPaths`,
`MAX_PATH_DEPTH`, `MaxDescendants` and `MaxPairsPerSource` (10000 in the code; `Compared`
has the pairs that are looked at, in the order the search met the destinations) are
constants; the guard of CDC008's search at 100000 steps is left out.

**Waiver, Config, Constraints, BlackBox** (`src/cdc/waiver.cpp`,
`src/config/*.cpp`, `src/rules/rule.cpp`, `src/clock/constraints.cpp`,
`src/cdc/blackbox.cpp`). What a file becomes. A name is a sequence of words and
delimiters, so that substring match at delimiters, wildcards and case-blind
prefixes are decided as in the code; a regular expression is the sequence of names it
accepts. A file is its access (missing, too large), whether the YAML library
takes it, and its sections or commands with what is wrong in each; the fallback
to the line-by-line readers is there. `Config` also has profiles, the rule
table, overrides and the filter; `Constraints` the SDC commands with the
argument shapes they accept, and the questions the analysis asks.

**Signoff, AnalyzerPipeline** (`src/analysis/coverage.cpp`, `signoff.cpp`,
`analyzer.cpp`). `run` and `run_incremental` with one action per stage
(`configure`, `elaborate`, `constrain`, `set_rules`, `analyse`, `load_waivers`,
`waive`, `check_unused`, `judge`), each with its early returns; `day_passes`
between any two; `edit` and `clear_dirty`, what the holder of a result does to its
graph between two calls. `work` is the locals of a call, `result` what
the caller got, `held` the graph it keeps. The coverage is the second enumeration of
crossings that the code makes, which adds to the truncated count the findings have filled.
The flags that the pattern recognizer writes into the nodes are left out and `proven` is
the same in all calls: no graph the frontends draw shows a difference when only edges
are edited.

**Baseline, CommandLine** (`src/analysis/trend.cpp`, `src/main.cpp`). The check
command around one call of the analyzer: options, comparison with a baseline,
saving one, writing the report, exit code. `open`, `write` and `publish` are
common to the two files, which are written under temporary names and renamed;
each may fail, and `killed` ends the process at any step.

**LspDocuments** (`src/lsp/server.cpp`). Steps are the critical sections of
`mutex_` and `cancel_mutex_` and the loads of a cancel flag. `did_open`,
`did_change` (`Signal`, `Store`), `did_save`, `did_close` (`EraseDocument`) and
`cancelRequest` begin a call, and `TakeFlag`, `ReadText`, `Stop`, `GoOn`,
`CacheAndPublish` are `analyze_document` and what follows it. A flag is an index
into the sequence of flags made so far, so that a shared pointer that the map has
dropped is still the flag of the analysis that holds it. `told` is history: it
records that a call was changed or cancelled after it took its flag. Diagnostics
are told apart by the text they are for and by how the analysis ended.

**LspLifecycle** (`src/lsp/server.cpp`, `server.h`, `socket_compat.h`). The
owner in `start`, `stop` and `wait`, the server thread in `server_loop`, and
peers that connect, send, stop reading and hang up. Descriptors are numbered in
the order they are opened and never used again, so a second close is visible. A
write that cannot go on holds `socket_mutex_`, as in the code.

## 4. The runs

Passing runs. Every property has a mutant in `PROJECT.json`: a plausible bug in
a mapped definition with which TLC refutes the property.

| Run | Instance | Properties |
|---|---|---|
| `parallel_map` | 4 items, each failing or not; 3 workers next to 1 thread | `TypeOK`, `OneWriterPerItem`, `NoWorkerOutlivesCall`, `NoSwallowedException`, `ThreadsDoNotShow`, `ImplementsCall` (refinement of `MapCall` with its fairness) |
| `thread_pool` | 2 workers, 3 tasks of the owner's, 2 submitted by tasks, any time of destruction | `RunsOnce`, `DestroyedMeansDone`, `NoWakeupLost` |
| `graph_api` | 3 names, up to 6 ids, packed keys up to id 3, limits 2 nodes and 2 edges (nodes raised to 9 by `set_limits`), gates with at most one input, 7 mutating calls | `IndicesExact`, `AdjacencyExact`, `CallsAccounted` |
| `netlist` | six families of written netlists, read with and without limits and name maps | `ConnectivityExact`, `ReachabilityKept`, `MergedAlike`, `OkMeansComplete`, `ClockStructureKept` |
| `analysis` | eight families of sketches, all sets of edges and orders of adding them up to the bound of the sketch | `WalksExact`, `UntruncatedMeansComplete`, `CrossingsExact`, `PatternIsChain`, `SafeChainIsClean`, `UncertaintyIsReported`, `ReconvergenceExact`, `ResetCrossingsReported`, `IsolationIsNarrow` |
| `pipeline` | requests over small designs: configuration, profile, constraint and waiver files, overrides, broken inputs; 3 days; a second call on an edited graph; five commands over five earlier baselines | `PassIsAuthorised`, `WaivedUnderAuthority`, `UnusedMeansUnused`, `CoverageMatchesFindings`, `LayersRespected`, `IncrementalAgreesWithRun`, `ArtifactsWhole`, `OkMeansDone`, `ComparisonOnlyCounts` |
| `lsp_documents` | 1 document, 1 text, the server's thread alone or 2 threads, 4 flags | `NoSpuriousCancel`, `MapsAgree` |
| `lsp_lifecycle` | 2 peers, one of which may stop reading and one of which is not on loopback; 2 starts, 2 connections, 2 messages per read | `DescriptorsAccounted`, `StopReturnsWhenRead`, `DeadPeerReleased` |

Violated runs; each shows one disagreement of section 8: `paths_judged`,
`netlist_clocks`, `lsp_stop_blocked`, `incremental`. They use the instances of the passing runs, or a
family of them, with one property each.

What the properties of the larger runs say, and what they do not.

* `graph_api`. `CallsAccounted` asks for the mark `truncated` as soon as a call leaves out
  a node or an edge, for as long as the graph lives.
* `analysis`. `ReconvergenceExact` asks for every meeting within the limits of hops and
  of descendants if no pair of the source is beyond `MaxPairsPerSource`, and for no report
  without a meeting in any case: what the code leaves out past that limit it leaves out
  silently. It asks for CDC003 whatever has become of the two crossings, false paths
  included, as the code does and the rule's documentation does not say.
  `ResetCrossingsReported` says what the code does (an error when both resets are
  asynchronous, none when neither is, a line of two registers of the same reset answers);
  the documents say other things in three points, which section 8 lists.
* `netlist`. `ConnectivityExact` compares the graph the builder draws
  with a reading of the text that knows no aliases, port feeds or flattening: no
  registers are connected that are not in the text, and all are that are if each cell has
  one connected output. With two outputs the code loses connections (section 8); such
  cells are among the inputs. `ReachabilityKept` and `MergedAlike` compare the graph
  before and after regrouping and compaction. `OkMeansComplete` is about limits,
  unknown cells and registers connected by name; those connected by position are lost
  without a mark. `ClockStructureKept` says that compaction keeps what leads to a clock or reset
  net, back to the next port, with its edges; and that the root of a register is upstream of a
  net that has the last name of its clock, and of the clock net itself if no other has it.
  Upstream of a port nothing is protected.
* `pipeline`. `PassIsAuthorised` goes from the registers of the graph to the
  verdict: an unsynchronized crossing under a verdict that passes was
  answered for by somebody. `LayersRespected` reads the request, not the rule
  table. Of a pair of exclusive clocks `PassIsAuthorised` takes for told what the code takes
  for told, also within one `-group`, and it does not look at `-through`.
  `WaivedUnderAuthority` is relative to the code's own matching: `Covers` wants
  delimiters around a substring, of which `_` is none.
  `CoverageMatchesFindings` relates two enumerations of crossings: the crossings that are
  counted are the CDC001 findings, and `truncated` is *twice* the number of CDC010 findings, since
  both enumerations add to it.
  `IncrementalAgreesWithRun` evaluates a run from nothing on the edited graph.
  `ArtifactsWhole`, `OkMeansDone` and `ComparisonOnlyCounts` are about files
  and exit codes after failures at any step.

Why the bounds are enough.

* `parallel_map`: the interesting cases are two workers that both fail, a worker
  that never gets an item, an item claimed before and run after the flag is
  raised, and a claim past the end by every worker. Three workers on four
  items have them all; the proofs cover every number.
* `thread_pool`: a notification that wakes the wrong worker, a worker asleep
  when the pool stops, and a child refused by a stopping pool need two workers
  and two submitting tasks. The proofs cover every number.
* `graph_api`: three nodes are enough for duplicate and reverse edges, self
  loops, edges to removed nodes and a removal in the middle of the node list.
  The constants (`UINT32_MAX` 3, `IdModulus` 6) put the id at which keys no longer
  pack and the wrap of the counter inside the bound; `MaxGeneration` bounds the calls.
  Edge limits of 2, and gates with one input, make an edge be refused by `add_edge` and by
  `add_combinational`, before and after a removal. Names are symmetric: they are only compared.
* `netlist`: *Loops*: two buffers or gates over three nets, in a chain, a loop
  or with two inputs, an output port or an alias among them, a clock net behind
  logic. *Hierarchies*: two levels of children with every way of binding three
  ports, loops through a child, recursion, and a depth limit of 3 (`kMaxDepth`, 64
  in the code). *Buses*: bits that differ in clock, reset or type, name maps that
  rename one or all, gray-coded and binary drives. *ClockTrees*: gates, muxes
  and buffers, at the top and in a child, whose net may have the last name of the clock or
  another. *CellUses*: cells of each kind with pins
  missing, swapped, unknown or connected by position, and with two outputs connected.
  *DrivenPorts*: a port that is driven and on the way of a clock, or the clock itself. A node limit of 6 and edge limits from 4 to 9 are
  below what some or all of these graphs need, the other limits (60) above.
  `kMaxHops` 8 and `kGrayWalkDepth` 4 are as in the code, and more than these
  netlists need.
* `analysis`: one family for each shape. *Walks*: loops of nets and logic
  between two registers. *Chains*: five registers, one of another clock, with
  loops, branches and doubly driven stages, required depths 2 and 3, and every
  combination of reset attributes on two stages. *Mixed*: two sources, one over
  logic and a net, with cuts by path, by domain and by ends, a multicycle path,
  a safe black box. *Domains*: three domains, a gated clock with a root, a
  bus, a packed chain, an unknown clock. *Spreading*: a line behind an
  unsynchronized register, whose crossing is there from the start. *Branches*: two destinations that meet again after
  one or two registers, one way over an isolation cell. *Fans*: three destinations of one
  source, hence three pairs, with a clock cut or not. *Resets*: crossings of resets of both kinds, and a line of
  another clock with the reset of the destination. Path limits 1, 2 and 9 and
  `MaxPaths` 3 make truncation happen, and so does a `MAX_PATH_DEPTH` of 4;
  `MaxDescendants` 2 (16 in the code) makes the reconvergence search stop early, and
  `MaxPairsPerSource` 2 leaves out pairs of a source with three destinations.
* `pipeline`: each request exercises one layer or one pair of layers; designs have
  at most eight nodes. The edits give the second stage of a synchronizer a
  driver of another clock, close a loop, and give one search more paths than it looks at. Waivers expire on days 1 and 2 of 3 (`LastDay`), so that each may
  be valid throughout, expired throughout, or expire between any two steps.
  Two calls (`MaxCalls`) suffice for what a held graph carries over, since a
  third would start from the same parts of the result. The caller's edits
  add edges only. The earlier baselines have fixed findings,
  duplicates, and more findings of one key than there are now.
* `lsp_documents`: four flags (`MaxFlags`) allow a replaced, an erased and a shared flag in
  one behaviour; documents do not interact except through `$/cancelRequest`,
  and the proof covers any number of them.
* `lsp_lifecycle`: a restart, a second peer in the listen queue while the first
  is served, and two messages in one read, the second of which may come after
  the peer has died (`MaxStarts`, `MaxConnects`, `MaxBatch`).

`CHECK_DEADLOCK FALSE` is set where the program may rest: the graph, when the
bound on calls is reached; the analysis, the netlist adapter and the command, when
they have ended; the pool, when it is gone; the server, when it is stopped and
no start is left.

## 5. Fairness

* `ParallelMap`: weak fairness of the caller and of each worker. The threads
  share no lock but the exception mutex, which a worker gives back at once; an
  item's function returns or throws. Fairness does not say that a worker ever
  sees the abort flag: the call ends because the items do.
* `ThreadPool`: weak fairness of the destructor's and the submitter's steps and
  of each worker's steps that need no cause. `SpuriousWake` has no fairness, so a
  lost wakeup would not be repaired by luck. Nothing makes the owner submit or
  destroy.
* `LspDocuments`: a call that has begun goes on. Locks are held for single
  steps only. Both properties of the run are invariants and do not use it.
* `LspLifecycle`: weak fairness of the owner inside `stop` and `start`, and of
  the server thread. Peers owe nothing. Connecting, sending, hanging up and
  reading again are not fair, and neither is a failing `select`.

`AnalysisRun`, `IRGraphApi`, `NetlistAdapter`, `AnalyzerPipeline` and `CommandLine`
are sequential programs whose steps end by themselves, and have safety properties only.

## 6. The proofs

Eight of the nine state machines are proved about with TLAPS, for all values of
their constants. The one without a theorem is `NetlistAdapter` (section 7).

| Module | Theorems about properties of the runs | Other theorems |
|---|---|---|
| `ParallelMapProofs` | `NoWriteRace` (`OneWriterPerItem`), `JoinedBeforeAnswer` (`NoWorkerOutlivesCall`), `AnswerIsRight` (`NoSwallowedException`), `ThreadsNeverShow` (`ThreadsDoNotShow`), `TypeCorrect` (`TypeOK`) | `Invariant`, `RefinesCall` |
| `ThreadPoolProofs` | `EachTaskOnce` (`RunsOnce`), `DrainedBeforeDestroyed` (`DestroyedMeansDone`) | `Invariant`, `TypeCorrect` |
| `LspDocumentsProofs` | `NeverSpuriouslyCancelled` (`NoSpuriousCancel`), `MapsAlwaysAgree` (`MapsAgree`) | `TypeCorrect` |
| `LspLifecycleProofs` | `StopLeavesNothingOpen` (`DescriptorsAccounted`) | `Invariance`, `TypeCorrect` |
| `IRGraphProofs` | `IndicesStayExact`, `AdjacencyStaysExact`, `CallsAreAccounted` (the action property `CallsAccounted`) | `Invariance` |
| `AnalysisRunProofs` | `WalksAreExact` (`WalksExact`), `UntruncatedSearchesAreComplete` (`UntruncatedMeansComplete`), `CrossingsAreExact` (`CrossingsExact`), `PatternsAreChains` (`PatternIsChain`), `SafeChainsAreClean` (`SafeChainIsClean`), `ResetsAreReported` (`ResetCrossingsReported`), `UncertaintyStaysReported` (`UncertaintyIsReported`), `ReconvergencesAreExact` (`ReconvergenceExact`), `IsolationStaysNarrow` (`IsolationIsNarrow`) | `GraphStaysSound` |
| `AnalyzerPipelineProofs`, the analyzer | `WaivingNeedsAuthority` (`WaivedUnderAuthority`), `UnusedIsUnused` (`UnusedMeansUnused`), `LayersAreRespected` (`LayersRespected`), `CoverageIsOfTheFindings` (`CoverageMatchesFindings`), `PassNeedsAuthority` (`PassIsAuthorised`), `IncrementalAgrees` (`IncrementalAgreesWithRun`) | `Invariance`, `SourceInvariance`, `HeldInvariance` |
| `AnalyzerPipelineProofs`, the command | `ArtifactsStayWhole`, `OkIsDone` (`OkMeansDone`), `ComparisonIsCount` (`ComparisonOnlyCounts`) | `CommandInvariance`, `MainWaivesUnderAuthority`, `MainRespectsLayers`, `MainPassNeedsAuthority`, `MainIncrementalAgrees` |

The invariants were checked with TLC before they were proved, on the instances of
the runs (without the quantifiers over all sets or sequences in the typing parts,
which TLC cannot evaluate).

**GraphLemmas.** Sequences, folds, loops and cardinalities need induction. The
library's induction theorems take an operator, which the provers cannot
instantiate; taken with a *set* or a function they can be proved and cited. `NatMin`
(a set of naturals that is not empty has a least element) gives `NatInd`, `RecFcn` (a
function given by its value at 0 and a step exists) and `RecInv` (what the step
keeps holds of all its values); `RankInd` and `RankRec` do the same along any rank
in the naturals, and `LoopRec` and `LoopInd` say it of a loop that is written as a
recursive function of its state: with a rank that each turn lowers, the function
exists, and what each turn keeps and the end implies holds of its value. The other
lemmas, from the bottom:

* *Graphs*: every operation of `ir/graph.cpp` on a sound graph gives a sound graph
  and says what it did (`AddEdgeSound`, `InsertSound`, `AddRegisterSound`).
* *Least sets*: what can be reached from a set through nodes that are not registers is the
  least set closed under a step (`LeastSpread`, `LeastVisit`, and `LeastBack`: a walk back
  finds where a walk forward came from).
* *Walks*: a walk ends, since each turn visits a node or takes one from the stack
  (`WalkShrinks`); no turn changes the union of what is found and what is still
  to be found (`WalkTurn`); so it lists the registers reached, each once
  (`WalkFinds`). `SuccessorsExact` and `WalksAgree` are what the rules use.
* *Searches*: the path search keeps a stack of frames with paths. A weight for each
  frame by its length, so chosen that a frame outweighs all it can be extended to, makes
  it end (`SearchShrinks`). At every turn the paths found and those that extend a frame
  (`PathTreeDef`) are the simple paths to a register, and frames lead to different
  paths (`SearchTurn`, `SearchExact`); the limits only cut it short and say so
  (`SearchLimited`).
* *Findings*: every rule gives finitely many records of one shape, whose rule, source and
  destination say what it was found on.
* *Crossings, chains*: what the analysis of one register reports is one finding
  for each path it judges (`ProcessPath`), and a chain found by going back over single
  drivers is a chain (`Chain`, `find_pattern_for_dest`).
* *Congruence*: rules that read graph and attributes see no difference between two
  designs that differ in what they do not read (the `Alike...` lemmas).

**ParallelMapProofs.** From `ParallelMapAssumption` (the sizes are natural
numbers; the null result is not one). None of the properties is inductive alone.
The invariant adds `JoinInv` (workers not yet spawned have not begun; those joined
so far have left; this links the caller's loop variable to the workers),
`CounterInv` (a held item is below the counter; who has left has seen the counter
at the end or the flag set; the flag is raised only with an exception recorded)
and `LoopInv` (what the sequential loop has done). That every item has its result
on a normal return follows from: all workers left, no exception recorded, so the
flag was never raised, so the counter passed the end, so every item was claimed,
so by `ClaimedItemsAccounted` each has its own result. `ThreadsNeverShow` is about
two calls on the same items: `OneThreadInv` says that the call with one thread
stands at its first failure or has all items below its index, so that it returns
if no item fails, which by `AnswerIsRight` is when the other call does.

**ThreadPoolProofs.** From `ThreadPoolAssumption` (there is a worker; each task is
submitted by one). The invariant adds `PlaceInv` (an accepted task is in the queue
or in a worker's hands, and these have accepted tasks only), `ChildInv` (a child
is new until its parent's run has submitted it, hence is never enqueued twice) and
`StopInv` (a worker leaves only a stopped pool with an empty queue). A queue that
was empty when the last worker left may not be so later, for a running task may
still submit; what closes the gap is that a stopped pool refuses.

**LspDocumentsProofs.** From `LspDocumentsAssumption` (callers are threads, of
which there are finitely many). The invariant adds `UriInv` (a call that has begun
has a document) and `FlagInv`: no two documents have the same flag in the map, and
an analysis that holds a flag of the map is of that flag's document. Without it a
signal for one document could reach an analysis of another. `LocalStep` covers all
steps that leave the flags alone; `did_close`, `$/cancelRequest`, `Signal` and
`TakeFlag` have a lemma each. `MapsAlwaysAgree` needs to know what the maps are
*between* two critical sections: `SoleInv` says, for one calling thread, that they
have the keys of the open documents but for the document of the call in progress
(`Behind`), which lags until its diagnostics are cached, and that the text an
analysis has read is the one that is open.

**LspLifecycleProofs.** From `LspLifecycleAssumption`. `DescriptorsAccounted` says
who owns a descriptor at rest; the invariant says it for every step. `OpenInv`
gives the set of open descriptors by the point at which `server_loop` stands
(none, the listening one, or both; while the client is served only perhaps, since
a failed notification closes it), `MemberInv` what `socket_fd_` and `client_fd_`
may name there, `LockInv` that the lock is held exactly inside a write. `stop` is
covered because whatever it shuts down is what the members name, and the thread it
joins ends with no descriptor open.

**IRGraphProofs.** From `IRGraphAssumption` (a packed key has at least one id, the
node limit fits in it: the `static_assert`) and `IRGraphApiAssumption`; ids wrap
around at any modulus, vectors of inputs have any length. `Sound` is the
invariant: `IdsInv` (ids below the counter, hence none given twice, until the
counter wraps to 0, from where on all is refused), `NamesInv`, `EdgesInv` (no
loop, nothing twice, ends that exist, and the packed set has exactly the keys of
the edges that pack) and `AdjInv` (both maps are the ones `remove_nodes` would
build from the edge list). Three facts carry it: that a new edge that is not in
the set of keys is not in the list (`Keys`, on both sides of the 32-bit boundary),
that appending an edge to both maps is the same as rebuilding them, and that
`remove_nodes` filters without changing order (`Sifting`, `Origin`: each element
of the filtered vector has one origin, in order). `add_combinational` adds its
edges in a loop, for which `RecInv` carries `Wired`. `CallsAreAccounted` needs that every
refusal raises the mark: of a node by limit or counter, of an edge by `add_edge`, and
of any input's edge in that loop (`missing` is history and in no guard), and that no call lowers
the mark.

**AnalysisRunProofs.** From `AnalysisRunAssumption` (a sketch is a sequence of nodes of
the four kinds, a sequence of edges between ids, and all attribute fields of every
node, none of which a frontend has marked uncertain: `graph.h:68` starts with false and only
`PropagateUncertainty` sets it, and widths that are natural numbers, as are all limits), `TraversalAssumption` and `CrossingAssumption`
(the depth and path limits are positive). `GraphInv` says
that the graph is sound while it is drawn and that the findings are those of all rules on
it; the properties then are facts about sound graphs. `WalksAreExact` and
`UntruncatedSearchesAreComplete` state the two algorithms above for the walks
and the search as they are called. `CrossingsAreExact` needs that path limits cut
paths, never pairs unless CDC010 says so, and that a pair that was seen is not lost;
`ResetsAreReported` that the forward walk of a reset and the test for its synchronizer
see the same registers. `PatternsAreChains` goes along the chain by induction from the
destination; `SafeChainsAreClean` adds what a judgement of "verified" has tested.
`UncertaintyStaysReported` is about a walk in hops: a hop that has not yet met
everything comes to the end of an edge that no earlier hop used, so that with fewer edges
than `MAX_PATH_DEPTH` the hops cover all that can be reached; each register they mark is
named by a finding already or gets a CDC013 of its own.
`ReconvergencesAreExact` is first about a queue: it holds registers of one distance and after
them registers of the next, each once and each at its true distance (`AtLevel`,
`InOrder`, `Once`), what left it has had everything behind it seen or is as far away as
the limit of hops (`Expanded`), and the list collects what left it (`Collected`). So a
search that empties its queue has found all that `WithinHops` has, and one that stops
before has found `MaxDescendants` of it. Each turn marks a new register or
shortens the queue, which is why the search ends. Then about the pairs: if the destinations of a source make no
more pairs than `MaxPairsPerSource`, none has that many before it and all are looked at
(`FewAreCompared`, `FewPairs`); past the limit the theorem says only that what is reported meets. The rest is
bookkeeping over the stages: a CDC003 comes from a pair of crossings, no later stage changes it, and both
crossings lead along a walk to a register ahead of the source. The theorem asks that one of the crossings
leaves the *clock name* of the source (`leaves`), because that is what
`find_fanout_sources` tests (section 8).
`IsolationStaysNarrow` compares two analyses, with the isolation cells and without:
the congruence lemmas show that the rules other than CDC001 and CDC009 find the same, and
that a downgraded CDC001 has a path that meets a cell.

**AnalyzerPipelineProofs.** From `AnalyzerPipelineAssumption`: a request is
`WellFormed`, that is, nodes and edges of its design and the overrides it asks for
are sequences, nodes have all attributes and packed bits are counted, its configuration
has rules, and the expiry of a waiver is a number of a day. The typing part needs that *all rules together
give finitely many findings of one shape* (`AnalysisFindsFew`), for which every
rule of `Crossing` and `DomainRules` is opened once; the findings are waived one
after the other from a list of them, and `OrderIsComplete` says that the list has
all of them. `WaivingInv` follows the stages: before `apply` nothing is waived;
during it each finding is still on the list or was decided on a day between the
first of the call and today (`Decided`); afterwards all are, and a warning
`unused` that is out was right. `day_passes` only widens the range of days.
`WaivedByMatches` reads the first waiver that matches out of the search. That a
waiver called unused has waived nothing follows from the two together: what waived
a finding covers it. `TypeInv` also says that a result's verdict is that of its
findings and its status (`Verdict`).

`LayersRespected` compares a finding with what was written in configuration,
profile and request, and needs three facts about the rule table. `ProfileLayer`:
laying a profile over a configuration keeps what the profile says nothing of.
`AddOverridesIsOverridden`, by induction over the overrides: a rule is enabled only
if none of them switched it off, and has a severity that one of them gives, or the
old one if none gives any. `OverridesInLayers` applies it to the entries of the
configuration, which come in any order, then to the rules the request disables, then to its
severities. `LayersInv` follows the stages: the engine is the one of the layers of
this call, what passes `Filter` obeys it (`FilterAllows`), and to waive a finding
changes neither its rule nor its severity. A severity that a request gives is
never empty because `BadOverride` has refused it; that is used, and so is that the
profile's rules exist in the engine, for a finding of a rule nobody knows.

`CoverageMatchesFindings` and `PassIsAuthorised` relate the verdict to the graph,
and `SourceInv` follows that relation through the stages. `Pictured`: the graph in
work and the one the caller holds are sound, with all attributes, after every step
and every edit. When the analysis begins its false paths are those of
the configuration, the constraints and the request. `Faithful` holds of the findings
from the analysis on: CDC001 findings stand for the pairs the searches cross, one for each
(`ReportsPairs`), CDC010 findings for the searches cut short (`ReportsSources`), and if
nobody changed the severity of CDC001 then a finding that is no error is `Excused`: the
source or the configuration was told so (`Told`, `ToldIsTold` matches names and
clocks as the code does), or a path meets an isolation cell or a safe box. Waiving changes
none of this, since it keeps rule, source, destination and severity, and judges each
finding of the list once (`Once`). `CoverageFollows` compares the second
enumeration of the crossings with the findings by a bijection; since the second starts from
the count of the first, the truncated number is twice that of the CDC010 findings, which is
what `CoverageIsOfTheFindings` and the second half of `MainPassNeedsAuthority` say. `PassFollows` takes
a pair with a path and no synchronizer behind it: the search crosses it unless it was
cut short, which CDC010 would have said and the verdict would not pass; so it is
reported; either as an error, which a verdict that passes has only when a waiver covers
it, or not as one, and then somebody answers.

`IncrementalAgreesWithRun` speaks of a run that does not happen: a run from nothing
on the graph as its caller has edited it. Between the two lie all earlier calls, which
wrote roots and marks into the nodes. `HeldInv` says what they left, for the case that one
constraint file served them all: `Aged` compares the attributes with those of the
design, field by field (the root is the design's or the file's, and a mark of a crossing
stands on a register that a simple path enters from another domain), and `Rooted` holds
once the constraints are read. Marks are why the invariant speaks of paths and not of
findings: a path is still there when edges are added (`PathsStay`, `AgedExtends`),
while a search that found it may be cut short on the larger graph. `ConstraintsOf`, the
engine and the false paths are then those of the run (`AsFresh`), so that the two
designs differ in marks alone (`AgedButMarks`, `ButMarksAlike`). `StructuralAlike`
concludes that the rules find the same but for CDC013; and `MarksGrow`, which needs that
no search was cut short, that every register the run would report in CDC013 is
reported here, too: it is behind the same crossings or more, and a register that is
itself marked is crossed now, so that a CDC001 names it either way. Waiving writes nothing
but its number (`UnwaivedBy`), and what the rule table lets through agrees if what it
is given agrees (`FilterAgrees`). The quantifier over `c` in `HeldInv` carries
"if all calls had the constraint file c" along before the last call is known.

*The command*, in the same module. From `CommandLineAssumption`: the earlier baseline may be
absent, and what it holds is a list. `MainInv` says what lies on the disk at each
stage of main: before the analysis what lay there before; a temporary file holds
part of the report, or all of it once it has ended (`Partly`), so that the rename
moves a whole file (`MainPublishes`); the exit code is given at the end only, to a
report that was delivered. `OkIsDone` opens the verdict: `PassesWhenClean` says
that `Evaluate` passes only a complete analysis in which the number of unwaived
errors, hence their set, is zero. `ComparisonIsCount` is a fact about lists of any
length: `MapHoldsAll` says that numbering the occurrences of a key makes all keys
different, and `RegressedMeansLonger` follows by comparing cardinalities.
`MainWaivesUnderAuthority`, `MainRespectsLayers`, `MainPassNeedsAuthority` and
`MainIncrementalAgrees` carry the properties of waivers, of the rule table, of the
verdict and of later calls over to the steps of `CommandLine`, which is what the run
explores.

Two conventions of the models serve the proofs. Loops are recursive functions or
sets where a proof opens them (`Those`, `AddInputs`, `AddOverrides`, `Placed`,
`Connected`, `InSomeOrder`, `Chain`), since the provers cannot open the folds of the
libraries, and records are laid over each other by `Over`. The empty text that stands for
a severity nobody gave has a name, `NotGiven`.
And a choice between overlapping conditions in the code's order (`Evaluate`,
`CheckUnused`, `Marks`, `Wrong`, `ConstraintsError`) is IF ... ELSE IF: a CASE
whose guards overlap leaves the choice open in the logic, although TLC takes the
first.

## 7. What only TLC checks

* Liveness: `ImplementsCall`'s fairness part, `NoWakeupLost`,
  `StopReturnsWhenRead`, `DeadPeerReleased`. The prover does not handle liveness
  under fairness.
* `NetlistAdapter`: its passes are RECURSIVE operators over names and connections,
  which the prover cannot see.

`TypeOK` of ThreadPool, LspDocuments and LspLifecycle is proved; their runs leave
it out. `ConnectivityExact` is stated for netlists whose vectors are named bit by
bit and whose assigned nets have no other driver, and not where a cell without a
clock is marked as suspected; what is written need be drawn only if no cell has two
connected outputs. Section 8 says what the code does with the others.
`IncrementalAgreesWithRun` allows a CDC013 that a fresh run would not report, and one
that is missing when a search was cut short; it assumes that the calls had the same
constraint file, and the recognizer's answers are the same before and after an edit. An earlier statement, without the condition on searches, held on
small designs and failed in the proof: `MCPipeline` has the counterexample as its
design `Crowd`.

## 8. Findings and known limits of the code

Shown by runs:

* `paths_judged`. The pair of registers is marked seen before the constraints are
  tested (`src/cdc/crossing.cpp:142`): a cut on the first path answers for all
  paths of the pair (`docs/what-we-can-prove.md:24`).
* `netlist_clocks`. The first port at the gate of a clock-gating cell is taken
  for its root clock (`src/clock/resolve.cpp:165`), which is the enable when
  the clock comes through a buffer: registers of two clocks end up in one domain
  (`docs/what-we-can-prove.md:12`).
* `lsp_stop_blocked`. `stop` waits for `socket_mutex_`, which a write to a peer
  that stopped reading holds (`src/lsp/server.cpp:185`).
* `incremental`. `run` downgrades a design with unmapped cells after
  `run_on_graph`; `run_incremental` does not know of them, so that after any edit
  the same design is complete and can pass (`src/analysis/analyzer.cpp:416`
  and the comment at 99).

Met while modelling, in the models but not shown by a run of their own:

*Language server and threads.*
* A failed notification and `server_loop` both close the client
  (`server.cpp:299`; the comment at 182 says only one does). The numbering of
  descriptors in `LspLifecycle` makes a later one safe.
* A cancel request that arrives between `did_change`'s signal and the new
  analysis is overwritten by a fresh flag (`server.cpp:326`), and
  `did_close` forgets a flag that is in use (`:271`). The server's thread makes its calls
  one at a time and meets neither; it also means that `$/cancelRequest` cannot
  arrive there while an analysis runs.
* If `select` fails the server thread ends with `running_` set
  (`server.cpp:648`); `stop` still returns.
* A second client waits in the listen queue; the refusal in `server_loop` for a
  client while one is connected is never taken.
* A thread that cannot be created in `parallel_map` ends the process, since
  joinable threads are destroyed (`parallel.h:125`); the model starts them all.

*Graph, compaction, crossings.*
* Bypassing a buffer turns a connection through logic into a direct one, which
  walks with `traverse_combinational=false` follow (`compact.cpp:68`), although
  `compact.h:37` says findings are unchanged.
* CDC006 looks one edge behind a stage (`cdc006.cpp:37`), so logic, then a net,
  then the first stage is not reported (`docs/rule-semantics.md:77`); it names
  the first driver of the entry register only, and does not look at false
  paths.
* `chain_depth` follows a register with two drivers of its clock, which
  `find_pattern_for_dest` refuses (`synchronizer.cpp:330`): with
  `min_sync_stages` 3, a two-stage chain in front of such a register is accepted.
* A ring of registers over three domains has no start, so CDC008 does not
  report it (`crossing.cpp:534`, `docs/rule-semantics.md:103`).
* `logic_inputs` of a combinational node keep the ids of removed nodes.
* Uncertainty does not spread through nets and logic except where
  `register_successors` crosses a net, since these have no clock domain.
* `has_reset_synchronizer` accepts two registers that feed each other. Reconvergence at one of the two destinations
  themselves is not reported. `find_fanout_sources` compares clock names where the
  crossing analysis compares root clocks (`reconvergence.cpp:27`): a source whose
  crossings all stay within its clock name, with another root, is not looked at.
* CDC003 is reported between crossings that a false path has suppressed,
  since `check_pairs` looks at the rule of a finding only (`reconvergence.cpp:46`);
  `docs/rule-semantics.md:41` lets reconvergence be found on the other paths.
* One asynchronous reset makes an error of a reset crossing
  (`reset_domain.cpp:133`); `docs/rules.md:177` and `:180` keep the error for two.
* Two registers of the destination's reset answer for a reset crossing whatever
  their clocks (`reset_domain.cpp:164`); `docs/what-we-can-prove.md:57` wants them in
  the destination's domain.
* Resets of one signal and polarity that differ in kind are not compared
  (`reset_domain.cpp:90`), although `docs/rules.md:180` groups registers by kind, too.
* The walk that protects clock and reset structure does not go on from a
  port (`compact.cpp:34`), so that what drives a port on the way of a clock is
  compacted; `compact.h:25` says it is never touched.
* Past 10000 pairs of destinations of one source, reconvergence returns what it has
  (`reconvergence.cpp:58`, `:72`) without a CDC010, a warning or a status. The comment there calls it a
  documented truncation; no document names it (`docs/rule-semantics.md:42` has the other two limits).
* The pattern caches are keyed by the graph's generation, which writes through
  `nodes_mutable` do not move; the recognizer is local to a call, so none is stale today.

*Netlists.*
* `assign bus = other;` of vectors and vector ports of a child lose connections: a
  bit select of a bound port is dropped (`netlist_adapter.cpp`, alias building;
  `docs/netlist.md:133`). Members of a concatenation lose their selects, a
  concatenation on the left of an assign loses the connection, a part-select is
  the base net, and the initializer of `wire x = y;` is dropped.
* A cell connected by position is skipped with a warning before it is
  looked up, and the result stays ok although the cell may be a flop
  (`netlist_adapter.cpp:399`); `docs/netlist.md:271` lists positional connections as accepted.
* One output is drawn for a cell (`netlist_adapter.cpp:437`): of a flop with Q and QN both
  connected only the first found is its net (`:487`), and what QN drives has no driver; of a
  logic cell with two outputs (Y and CO) the second is taken for one of its inputs (`:541`), so that
  its readers are not connected to the cell. Nothing marks the result. `ConnectivityExact` leaves those paths out by
  name (`OneOutput`).
* A port feed keeps the last driver of a port's bits. Two drivers joined by an
  assign become one net.
* The longest pattern wins in the cell library, and a tie goes to the earlier
  definition, so a cell map does not override a built-in pattern of the same length. An
  explicit pin is one candidate among the generic ones.
* All terminals of a `buf` but the first are taken as inputs; tristate primitives are skipped
  with a warning that leaves the result complete, and so do a clock gate with missing pins and an unknown cell whose name does not
  look sequential.
* The root of a mux may be its select port (`docs/netlist.md:138`). A buffered gated
  clock is a domain of its own and not flagged as gated. `trace_clock` matches by suffix (`resolve.cpp:149`),
  so the net `u.c1` of a child answers for the clock `c1` and a register may get the root of
  another clock; `ClockStructureKept` claims the root of a clock's own net only where no
  other net has its last name.
* `apply_name_map` leaves the index of names as it was, so regrouping asks old names
  whether a name is in use (`regroup.cpp:137`).
* Gray recovery accepts a bus all of whose bits have the same pair of inputs.

*Constraints and configuration.*
* `set_clock_groups -exclusive` makes false paths of the pairs within one
  `-group`, none between groups (`constraints.cpp:627`, `analyzer.cpp:246`;
  `docs/what-we-can-prove.md:64`). `-group {a b}` without `get_clocks` makes two groups;
  `set_false_path` takes the first element of a list only; `create_clock` without
  `-name` drops names with digits. `asynchronous` of a configuration's group is not
  used.
* Exclusive clocks shadow a later false path with the same key (`analyzer.cpp:183`).
* A file that the YAML library rejects is read again line by line (`config.cpp:28`),
  which accepts text that a reader of the comment there would expect to be refused.
* A user's model with the name of a built-in black box is ignored.
* A severity override of CDC001 to `error` makes errors of the findings that
  only record a constrained crossing.

*Analyzer, waivers, baselines, command line.*
* With CDC010 disabled a search that was cut short ends as complete and may pass
  (`analyzer.cpp:397`; `docs/architecture.md:187`, `docs/rules.md:191`).
* `run_incremental` leaves roots of generated clocks and marks of uncertainty of
  the calls before in the graph, so CDC013 may be reported that a run would not
  report (`crossing.cpp:645`). Where an added edge makes a search end before it finds
  a crossing again, a run reports CDC013 of its destination if uncertainty reaches it
  another way; a later call finds the mark of the crossing there and does not.
  On a failed result whose graph is unchanged it
  returns `ok` and `no_changes`.
* Without `--signoff` the exit code is OK for an incomplete analysis without errors.
* A waiver may expire between `apply` and `check_unused`. A line of a waiver
  file with fewer fields shifts its columns. `_` is not among the
  delimiters of a substring waiver (`waiver.cpp:114`), so `src` does not match
  `mod.src_ff` and the finding stays; `docs/waivers.md:67` says it matches. The comment at
  `waiver.cpp:108` counts `_` as a delimiter, the one at `:129` does not.
* The truncated count of the coverage is doubled: `compute` sets it to the number of CDC010
  findings and `compute_crossing_coverage` adds each truncated search to it
  (`coverage.cpp:59`, `:170`, called from `analyzer.cpp:405`); the comment at `:118` takes it for the
  number of findings.
* The key of a baseline has neither severity nor waiver, so a finding that becomes an
  error is not new, and a fixed finding hides a new one with its key.
* Two writers of a baseline share its temporary name (`trend.cpp:167`). The
  comment at `trend.cpp:222` speaks of a fallback to a direct write; the function returns
  false.

## 9. What is not modelled, and the plan

* *RTL front end*: a visitor over an external compiler's syntax tree; its result is the
  graph the other modules start from.
* *Pattern recognition* goes by parts of register names (`ptr`, `gray`, `req`,
  `ack`); what it proves of a bus is an input of Crossing.
* *Text*: the lexer and expression grammar of netlists, YAML syntax, Liberty and
  cell-map files, the text of a name map, JSON of the language server, formats of reports, wording
  and evidence of findings.
* *`classify_relationship` and `resolve_result`*, whose answers the analysis does not use; the
  module tree and per-rule tables of the coverage.
* *Other commands* of the command line, argument parsing, Python bindings, the test
  client of the language server.
* *`ThreadSafeQueue`*, which only unit tests use; two processes that write
  one baseline.

Next:

1. `SafeQueue`: the queue of `parallel.h` as an implementation of an abstract
   bounded-wait queue.
2. Two processes that save one baseline, in `CommandLine`.
3. `PatternCache`: the generation-keyed caches against mutable access.
4. Runs for the depth disagreement of `chain_depth`, which `PatternIsChain` and
   `SafeChainIsClean` do not meet, and the three-domain ring.
