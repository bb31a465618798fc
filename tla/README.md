# Verification models for rust_road_router

TLA+ models of the routing engine in this repository (`engine/`) and of the HTTP server built on it (`server/`),
with TLC configurations that check them on small graphs and TLAPS proofs of the facts that hold on every graph.

## 1. The system

The repository is a route planning library and a set of experiments built on it. A road network is a directed graph with
integer weights (travel times, `u32`, `INFINITY = u32::MAX / 2`). Queries are answered by Dijkstra variants, by Contraction
Hierarchies and above all by *Customizable Contraction Hierarchies* (CCH): a metric-independent preprocessing per network,
a customization per metric (seconds), and queries (microseconds). The server keeps one CCH and swaps customized metrics under
running queries.

`.../` stands for `engine/src/algo/customizable_contraction_hierarchy/`.

| Component | Source | State | Operations | Interacts with |
|---|---|---|---|---|
| Resettable vectors | `engine/src/datastr/{timestamped_vector,clearlist_vector}.rs` | elements, timestamps or clearlist | index, index_mut, set, reset | every search keeps its labels in them, across queries |
| Heaps | `engine/src/datastr/{index_heap,heap}.rs` | heap array, position per node; labels taken and not taken | push, pop, decrease/increase key, clear; retain | all Dijkstra variants; multicriteria searches |
| Contraction (CCH phase 1) | `.../contraction.rs`, `.../mod.rs` | neighbor list per rank, contracted prefix | new, contract, elimination tree | input graph and node order in, CCH topology out |
| Separators and reordering | `.../separator_decomposition.rs`, `reorder.rs`, `mod.rs` | separator tree | new, validate, reorder | decides the ranks and the parallel task tree |
| Customization (phase 2) | `.../customization.rs`, `customization/parallelization.rs` | upward and downward weights, unpacking information, a workspace per thread | respect metric, basic customization, perfect customization, rebuild | runs on rayon threads over the separator tree |
| CCH query (phase 3) | `.../query.rs`, `query/stepped_elimination_tree.rs` | two walks, two distance arrays kept across queries, meeting node | distance, path, update | reads customized weights; `update` swaps them |
| Nearest neighbors | `.../query/nearest_neighbor.rs` | a stack of cells with bounds; buckets; the closest targets so far | select targets, query | separator tree, CCH potential, buckets |
| CH and CCH potentials, RPHAST | `engine/src/algo/ch_potentials.rs`, `rphast.rs` | lazily computed distances, a stack, parents, buckets, a selection | init, potential, unpack path, select, query | A*, reduced CCH graph |
| Contraction Hierarchies, hub labels | `engine/src/algo/contraction_hierarchy*`, `hl.rs` | outgoing and incoming links of remaining nodes; two searches; labels | contract, distance; label, intersect | CH potentials |
| Bidirectional searches, potentials | `engine/src/algo/{dijkstra,a_star}*` | queues, labels and predecessors of two sides, tentative distance | settle next node, choose side, stop, prune | potentials, vectors, heaps |
| Core and dead ends | `engine/src/algo/topocore.rs`, `ch_potentials/query.rs` | depth first numbers, biconnected components, bridges, node order; a search in three parts | virtual_topocore; distance | potentials; passes nodes of low degree |
| Multithreaded search | `engine/src/algo/ch_potentials/query.rs` | shared tentative distance and progress, atomic distances | distance | two search threads |
| Routing server | `server/src/main.rs` | request channel behind a mutex, engine behind a mutex, customization threads | query, here_query, customize, engine loop | HTTP threads, engine thread, customization threads |
| Time dependent parts | `engine/src/algo/{catchup*,td_astar*,time_dependent_sampling*}`, `engine/src/datastr/graph/*time_dependent*` | piecewise linear functions | merge, link, customize | CATCHUp query |
| Traffic, alternatives, penalties, link speed estimates, experiments | `engine/src/algo/{traffic_aware*,alternatives*}`, `ch_potentials/penalty.rs`, `engine/src/link_speed_estimates*`, the binaries | | | |

What makes it hard:

* **Order.** The correctness of contraction, customization and query rests on the order in which ranks are processed. All of
  them do less than the textbook algorithm (contraction gives a neighborhood only to the lowest neighbor; the query relaxes only
  upwards and resets behind itself), and what is left out is somebody else's duty later.
* **Shared weights.** Customization hands out slices of the weight arrays (basic) or raw pointers to all of them (perfect) to tasks
  that are stolen by any thread. The partition is right only for separator trees with consecutive cells.
* **State kept for speed.** Workspaces per thread, distances and parents of queries, timestamps, potentials that are computed when
  asked for, buckets: nothing is cleared when one would expect it to be.
* **Stopping early.** Bidirectional searches stop and prune by criteria that depend on the potential, on the side that is chosen and,
  with threads, on numbers of the other side that may be old. Each criterion alone is right; not all of their combinations are.
* **Ties.** Weights of 0 are legal. Several algorithms decide by `<` or `<=` which of two equal ways they keep, and some loops end only
  because of that choice.
* **Asynchrony in the server.** Queries hold a mutex while they wait; customizations finish in any order; a panic in the engine has
  to reach everybody who waits.

What makes each component correct, in short: vectors behave like arrays that are cleared and heaps like queues; contraction yields the
chordal graph of Fill-paths; the order passes the parallelization check and costs no shortcuts; customization yields
lower triangle inequalities and exact unpacking, the same in parallel as sequentially; perfect customization yields distances and
removes what nobody unpacks to; queries, potentials, hierarchies, labels, and searches with a core, a bound or a partner return distances
and shortest paths of the metric installed last and leave no trace; the nearest targets are found; requests to the server end.

## 2. Modules

Vectors and heaps:

| Module | Models | Correspondence |
|---|---|---|
| `ResettableVector` | abstract: an array that can be cleared | `request` names the operation called, so that implementations must do the same one |
| `TimestampedVector` | `TimestampedVector` | `data`, `current`, `timestamps`; one action per operation; `Timestamps` is 2^32 in the code |
| `ClearlistVector` | `ClearlistVector` | `data`, `clearlist` (as a set: clearing twice is clearing once) |
| `PriorityQueue` | abstract: one key per id, the least leaves first | |
| `IndexedHeap` | `IndexdMinHeap` | `data`, `positions`; each round of the loops that move an element is a step, with the hole in `data` |
| `LabelQueue` | abstract: greatest label first, labels taken are remembered | |
| `LabelHeap` | `Heap` of `heap.rs` | `data` and `split`; an operation is one step, its loops are recursive functions |

Customizable Contraction Hierarchies:

| Module | Models | Correspondence |
|---|---|---|
| `CCHTopology` | operators on neighbor lists | a sorted duplicate-free list is a set, its first element `Lowest` |
| `CCHContraction` | `contraction.rs` | `edges` is `ContractionGraph::nodes`, `contracted` the length of the prefix split off; one action per node |
| `SeparatorTree` | `separator_decomposition.rs`, `reorder.rs` | operators; an unstable sort is the set of its possible results |
| `CCHPreprocessing` | `CCH::fix_order_and_build` | extends contraction with the reordering between the two contractions |
| `CCHWeights` | `prepare_weights`, edges | and the reference: distances with inner nodes below k, as a recursive function |
| `CCHCustomization` | `customize_basic`, a node at a time | the abstract specification: any order that finishes lower neighbors first |
| `CCHParallelCustomization` | `SeperatorBasedParallelCustomization` with the closure `customize` | calls of `customize_tree` (`state`, `stack`), workspaces, one action per load, lower neighbor, store |
| `CCHPerfectCustomization` | `SeperatorBasedPerfectParallelCustomization` with the closure of `customize_perfect_without_rebuild` | the same from high to low, one action per triangle, on shared weights |
| `CCHRebuild` | `rebuild_customized_perfect` | node by node, or count, prefix sums, split, copy; `pending` are the chunks that some task has still to do, in any order |
| `CCHFullCustomization` | `customize`, then `customize_perfect` | composes the three: `phase` says whose threads run |
| `CCHMetrics` | what callers get from a customization, one walk to the root | operators |
| `CCHQuery` | `Server` and `EliminationTreeWalk` | two walks (`fwNext`, `bwNext`), one action per settled node, per turned parent and per unpacking step |
| `LazyPotential` | `CCHPotential`, `CHPotential`, `CCHPotentialWithPathUnpacking` | `potentials` are what is known, `stack` what is to be computed first, `calls` the recursion of `unpack_path` with what each call has read |
| `OneToMany` | `BucketCHSelectionRun`, `BucketCHPotential`, RPHAST, `BCCHNearestNeighbor` | `buckets`, `restricted` (the selected part); `method` says whose they are |
| `NearestNeighbors` | `SeparatorBasedNearestNeighbor`, `LazyRphastNearestNeighbor` | `cells` is the stack of cells with their bounds |

Searches on other graphs:

| Module | Models | Correspondence |
|---|---|---|
| `ContractionHierarchy` | `contraction_hierarchy/{mod,query}.rs` | `outgoing`, `incoming`; one action per removed node and pair of its links; the two searches node by node |
| `HubLabels` | `hl.rs` | extends it: labels from the highest node down, pruned |
| `SearchGraph` | networks, reference distances, core and dead ends; `a_star.rs` | operators; bounds, keys, stop and prune criteria of the three potentials |
| `Topocore` | `virtual_topocore` | the depth first search with its two stacks, dead ends, the order by degree |
| `LowDegreeSearch` | `TopoDijkstraRun`, `DijkstraRun` | a run is a record; `chain` and `branch` are the arcs followed through nodes that are not queued |
| `BidirectionalSearch` | the bidirectional `Server`, `BiDirSkipLowDegRunner` | one action per settled node and per arc |
| `TopoQuery` | `Server`, `SkipLowDegServer` of `ch_potentials/query.rs` | `part` counts the searches out of the dead end, through the core, into the dead end |
| `ThreadedSearch` | `MultiThreadedBiDirSkipLowDegServer` | both threads arc by arc; `writes` are shared variables that the other thread does not see yet |

`RoutingServer` models `server/src/main.rs`, with one action per step at which a handler, the engine or a customization thread can be overtaken.

Refinements: both vectors implement `ResettableVector`, `IndexedHeap` implements `PriorityQueue`, `LabelHeap` implements `LabelQueue`, and
`CCHParallelCustomization` implements `CCHCustomization` (variables of the same name; `customized` grows with `Store`).

Composition: what one model checks is what the next one stands on. `CCHQuery`, `LazyPotential` and `OneToMany` take their weights from the
reference definitions (`BasicUp`, which is `ComputesBasic`) and the edges left by perfect customization from the distances
(`ModifiedIsExact`, `ReducedIsExact`). The searches take the potentials of nodes from distances in a network of lower bounds (`PotentialsAreDistances`).

`MC*` modules give the constants their values. A run often checks several models that answer the same kind of question: a variable `kind`
or `phase` is chosen in the beginning, and the variables of the other models never change. `MCFullCustomization` computes the cells of a graph
with `SeparatorTree`, so that the task trees of the customizations are those of the preprocessing (`CellsOfTree`). A definition whose
comment begins with "Mutation of" is the definition that follows it with a plausible mistake (`ResetIgnoringOverflow`, `MergeIntoSecond`,
...). The models do not use it; put in place of the right one it makes a run fail, which shows that the property in question depends on the code.

## 3. Runs

| Run | Bounds | Checks |
|---|---|---|
| `vectors` | three elements, four values, three timestamps; five ids with two keys in a binary tree; five labels, two pairs of which are equal | `ImplementsVector`, `ClearlistImplementsVector`, `HeapImplementsQueue`, `HeapImplementsLabelQueue` |
| `preprocessing` | all undirected graphs with five nodes; all directed graphs with loops on three nodes with all orders. For the core, all undirected networks with five nodes and all directed ones with four | `ChordalWhenDone`, `FillIsExact` for both contractions, `PassesValidation`, `SameShortcuts`; `BlocksAreExact`, `NodesAreClassified` |
| `customization` | complete graph on four nodes, several kinds of road on each edge, parallel arcs | `LowerTriangles`, `UnpackingIsExact`, `ComputesBasic`; `OverlayKeepsDistances`, `ChAnswersAreDistances`, `HubsAreExact` |
| `full_customization` | seven nodes, cells nested three levels deep, metrics with detours and ties; two threads; 2, 4 or 8 chunks (`ChunkCounts`); cells of at most two nodes are customized at once (`Small`) or searched target by target (`Threshold`) | `SlicesSuffice`, `NoConcurrentAccess`, `ImplementsCustomization`, `WeightsAreDistances`, `ModifiedIsExact`, `ReducedIsExact`, `ReducedUnpacks`, `EnoughChunks`, `NearestAreFound`, `CustomizationEnds` |
| `query` | complete graph on four nodes and one more component; metrics with weights of 0 and one way streets, all mixes of them for queries; basic and perfect; any sequence of queries, paths, potentials, selections and two updates | `DistancesReset`, `AnswersAreDistances`, `PathsAreShortest`, `PotentialsAreDistances`, `UnpackedPathsAreShortest`, `ReportedAreDistances`, `CallsEnd` |
| `searches` | three networks of up to seven nodes with a core and dead ends (`Town`, `Ring`, `Flag`), all pairs of nodes, two kinds of bounds and the caps that callers use; for threads a triangle, with weak memory, and `Ring` without | `TurnsAreShortest`, `TopoAnswersAreDistances`, `ThreadsAreShortest`, `EveryQueryEnds` |
| `server` | two good queries, one bad, three customizations, two of the same link | `OneQueryAtATime`, `FailuresAreFinal`, `RequestsEnd` |
| `zero_cycles`, `alternating`, `dead_end`, `late_writes`, `server_bad_link` | a small instance that shows it | each is violated, see section 6 |

What the properties mean, beyond what their comments say:

* `ImplementsCustomization` is checked together with `NoConcurrentAccess`: the first says that stealing tasks does not change the result if
  loading, relaxing and storing are atomic, the second that they may be taken as atomic.
* `ReducedIsExact` compares the arrays that tasks filled chunk by chunk with the edges that were not modified; `ReducedUnpacks` follows
  the translated unpacking information through them.
* `NearestAreFound` excepts one case, `OwnCellSkipped`, and `TopoAnswersAreDistances` makes queries within a dead end, or from the node on which
  it hangs, an exception (`PartsAreApart`): there the code does something else, see sections 6 and 8.
* `TurnsAreShortest` holds without exception for the `Server` of the whole network and for `BiDirCoreServer`. For `BiDirServer`, whose searches
  do not leave the core, it excepts answers that are given when one queue is empty, its goal is in a dead end, and the other search still has a
  node of a shortest path in its queue (`StoppedWithPartner`, section 8). `Flag` has such queries: all nodes of its core are passed, so that a
  search that starts there has an empty queue after its first step.
* `FailuresAreFinal` says how the server comes to fail (`FailuresHaveCause`) and what happens afterwards: a handler that had sent its query, or
  had only the mutex, when the engine died does not succeed either.
* `OverlayKeepsDistances` holds at every step of the contraction, not only at its end.
* `ThreadsAreShortest` is checked under three memory models. With *sequential* writes, everything the code offers is right. With *buffered*
  writes (a store buffer, flushed by the next read-modify-write, as on x86) it is right without the pruning by the other queue's key,
  with *relaxed* ones (in any order) with the zero potential; the weak models are checked on a triangle only.

Why the bounds are enough: a shortcut, a lower triangle and an unpacking step involve three nodes, and every rule composes at most two
of them, so complete graphs on four nodes contain all nestings a further node could add to, and five nodes are the
fewest on which separators branch unevenly on two levels, or a dead end of two nodes hangs on a biconnected component. A timestamp of three
values wraps every third reset, with elements last touched in each of the three positions relative to the wrap. A heap of five elements in a
binary tree has three levels and a node with one child; the arity of the code, 4, would need 21 elements for that. Weights of 0, 1, 2, a
detour and INFINITY give all outcomes of comparing two sums (less, equal, more, no path). With two threads a thread can wait in a scope,
help with a task of an outer scope, and be overtaken by the other in each step. The counter examples of the mutations are all within these bounds.

Deadlock checking is switched off where the program really stops: preprocessing and customization end, and the server model ends when all
its requests have. It is on for vectors, queries and searches; a search that has its answer stays as it is (`Done`).

Fairness is weak fairness of what the operating system and rayon guarantee: each thread of the pool goes on while it can
(`ThreadStep`), the caller of a customization goes on when its threads have come back (`Caller`), a query or potential that was started computes
to its end (`Step` in `MCQuery`), of the searches some step is taken while one is possible (`NextSearches`: of two threads, either), each handler,
the engine and each customization thread of the server goes on while it can. Nothing is assumed of callers: arrivals of requests, queries
and updates are not fair, nor is `AskForPath`. No strong fairness is needed: in `CCHParallelCustomization` a task that is spawned stays
available to every thread that may take it, and a thread at the end of a scope may always take it; in `RoutingServer`, `std::sync::Mutex`
promises no order, but there are finitely many requests in an instance, so that each of them gets the lock.

## 4. Proofs

TLAPS proves the following for all values of the constants that satisfy the named assumptions.

| Module | Theorem | Argument |
|---|---|---|
| `VectorProofs` | `ClearlistRefinement` | `DirtyIsListed`: an element that is not on the clearlist holds the default. `IndexMut` lists an index before its element can differ, so that clearing the listed elements clears all. No assumptions. |
| `HeapProofs` | `PositionsInvariant` | Between operations `positions` is the inverse of `data`. In between this holds of all but the hole and the element held aside, whose position is stale (`Filled`, `Elsewhere`). A round upwards exchanges two places, for which parents must be before their children, a round downwards moves the hole. It holds for every arity of at least one. |
| `HeapProofs` | `HeapOrder`, `Refinement` | `HeapOrdered`: no element is less than its parent, in the middle of an operation except for the hole, whose parent and children are in order with each other and with the element held aside, on the side the loop has come from. That the root is least then follows by induction on places (the parent's place is smaller), which `PopLeast` of the queue needs. |
| `VectorProofs` | `StampsInvariant`, `Refinement` | `IInv` is the type invariant with `FutureStampsAreDefault`. This is what the refinement needs: when `Reset` advances to a timestamp, elements that carry it already become visible, and the invariant says they are default; on the wrap all elements are. |
| `ContractionProofs` | `TypeCorrect`, `ParentKnowsNeighbors`, `ContractionIsChordal` | Chordality is not inductive, as a contracted node's neighbors are not joined at once. `PendingTriangles` says of each pair that is not joined yet which node still to be contracted has both in its list. Contracting the lowest such node either makes the pair an edge (one of them is its lowest neighbor) or hands the pair on. With no node left there is no duty left. |
| `ContractionProofs` | `ContractionComputesFill` | `FillInv`: the edges of the input stay, and all others join the ends of paths over lower nodes (`Fill`). That a step adds no other edge follows from joining two such paths at the contracted node (`FillJoins`). That none is missing when the graph is chordal (`FillIsLeast`): from each node of a path over nodes lower than `x` all ways up meet `x` (`LeadsTo`, node by node along the path: of two higher neighbors of a node the lower is adjacent to the other). `Fill` is the limit of a recursive function over rounds, whose values exist by induction (`RoundsExist`), and is the least set that is closed under a round (`ReachedIsLeast`). |
| `ContractionProofs` | `ReorderingKeepsShortcuts` | Why `fix_order_and_build` may contract again with the order that suits parallel customization. An order that only keeps children of the elimination tree before their parents keeps each node before all its neighbors (`BeforeAllNeighbors`, from the root down). So the first result, with nodes renamed, is chordal with higher neighbors again and contains the input, hence the second result (`RenamedFill`, which uses `FillIsLeast`); the same holds in the other direction. That reordering along the separator tree is such an order is recursive; the run `preprocessing` checks the whole as `SameShortcuts`. |
| `ContractionProofs` | `ContractionInvariant`, `OverlayIsExact` | A metric is *spanned* by arcs (`Spanned`) if it is the greatest one in which no arc is too long; `Distances` is spanned by the arcs (`DistancesAreSpanned`). The invariant `ContractionOK` says that the distances between the nodes that are left are spanned by their links *and by the pairs that are not connected yet* (`Overlay`), so that it also holds in the middle of a node. Removing a node puts pairs in the place of the ways over it (`NodeIsReplaced`); inserting a shortcut keeps the least weight of a pair, whichever of several links it meets; and a pair whose ends have a shorter way between them without it can be dropped, which is what the witness search establishes, as a metric below the other arcs cannot be above that way (`MetricIsBelow`, `SpannedByOthers`). With at most one link between any two nodes both ends of a link agree (`Once`), hence the two results of `insert_or_decrease`; with parallel arcs they need not. The removal of links by `swap_remove`, one by one in a fold, is `DroppedOneByOne`, and the lists are put together by `FlattenOneByOne`. |
| `ContractionProofs` | `ChAnswersAreExact` | `GoesUp` is what contraction leaves: no link is shorter than the distance, and a node with a path to a higher one has a link on a shortest one (`UpIsOnWay`). `SearchOK`: no tentative distance is too short; links of settled nodes are relaxed; a node that was settled on both sides was looked at; nodes in a queue are no closer than the progress of their side. A shortest path goes up from both ends (`OnWay`: two nodes that the sides have ways to, which together with the distance between the nodes are no longer than the shortest path); the highest such pair is one node that both sides have settled, or a side has one of the two in its queue. So when the loop ends, because neither side can improve the answer or both are done, the answer is found. The invariant of contraction goes through to the queries, as no query changes the lists. |
| `ContractionProofs` | `HubsOfShortPathsAreExact` | Links lead to nodes in reach (`ReachInv`), so labels add up to less than `Inf`. `LabelsOK`: labels of labeled nodes are distances, and any two labeled nodes with a path have a hub in common that is on a shortest one (`Meets`). The candidates of the next node have this too, as a shortest path begins with a link to a higher node (`CandidatesMeet`). Pruning keeps a candidate if its hub is the best one between the node and the hub. Labels of the hub are no lower than the hub itself, and of equally good hubs `best_hub` prefers the lowest, so this is the case if and only if the candidate is the distance (`BestForItself`): pruning drops exactly the other candidates (`PrunedIsExact`), whether the labels it compares with are pruned already (outgoing ones) or not (`Compared`). The hypothesis `ShortPaths` of the theorem excludes networks where a path is as long as `INFINITY`: the code adds labels up without that bound, and there is no such distance to compare them with. |
| `CustomizationProofs` | `TypeCorrect`, `LowerTriangleInequality`, `ExactUnpacking` | `IInv` adds `LowerNeighborsFirst`: lower neighbors of customized nodes are customized. In a chordal graph both lower edges of a triangle of `e` belong to the lower node, so that they are final when `e[1]` is customized, and later steps change neither. Assumes `GraphAssumption` (chordal: what `ContractionIsChordal` gives), `MetricsAssumption`. |
| `CustomizationProofs` | `BasicIsExact` | `BasicInv` adds `ComputesBasic`, which says of the weights of customized edges that they are the lengths of shortest paths over lower nodes. A node that is customized takes the least of its arc and the ways over lower triangles; `OverTriangles` says that the shortest path is one of these, because the two ends of a path over lower nodes are adjacent in a chordal graph (`EndsAreAdjacent`). Assumes also `ArcsAssumption`: arcs lie on edges, as contraction starts with them and removes none. |
| `FullCustomizationProofs` | `FullTreeInductive`, `Slices`, `NoRaces` | What threads do in the tree of cells. `TreeInv`: each node is still to be customized by at most one call, and until then it is not customized (`OpenApart`; `Open(c)` is what the call for `c` has to do itself, its subcells that were spawned answer for the rest); calls on the stacks are of different cells (`StacksApart`); each call is where `Progress` says, a waiting one has subcells that are idle from `nextSub` on. `PerfectInv` says the same of the way back, from high to low, with the roles of separator and subcells exchanged (`Rest`, `Retreat`). Neither property is inductive: two threads are apart only because their cells are, and a cell's subcells only because they follow one another in it. |
| `FullCustomizationProofs` | `CustomizationRefinement` | `DataInv`: an entry of a thread's workspace holds the least of the edge's own weight and the ways over the lower nodes that were relaxed, and the lowest node that attains it if it improves on the edge (`Best`, `Correct`), read from the weights as they are *now*. That other threads store meanwhile does not disturb this by `NoRaces` and because no edge that was read has a tail in an open cell (`Undisturbed`). At `Store` all triangles were relaxed, which is the step `CustomizeNode` of the abstract specification; its guard, that lower neighbors are customized, comes from `Progress`. |
| `FullCustomizationProofs` | `PerfectIsExact`, `MarksAreExact` | `DistancesInv` runs through both customizations. In the basic one (`BasicWeights`) customized edges have the weights of the reference, all others the lightest of their arcs, which follows from the refinement. In the perfect one (`PerfectData`) every weight is between the distance of the edge's ends and what basic customization left, an edge is marked when it is below the latter (`Between`), edges of nodes that no call has left to process have the distance, and a thread has relaxed the triangles above its node that are not in `todo` any more (`RelaxedAbove`). The higher neighbors of its node are finished because they are neither in its own cell's rest nor in another one's (`HigherAreFinished`); no other thread writes the node's edges meanwhile (`PerfectAccess`). When no triangle is left the node's edges are exact: a shortest path leaves it over a neighbor `y`, and from there to the neighbor `v` the edge between them, which is there by chordality, already has the distance (`HalfDone`). `Ended` says that calls end after those for their subcells, so that no node is left when the root is done (`DoneMeansFinished`). Both directions are one argument, on distances and on `Back` of them. |
| `FullCustomizationProofs` | `EnoughEdges` | A panic means that `M` edges in chunks of `M / k`, rounded up, have fewer than `k` first nodes; then `M` is at most (k - 1)² (`FewEdges`), by arithmetic on the two roundings (`ChunkSizes`). |
| `FullCustomizationProofs` | `RebuildIsExact`, `UnpackingSurvives` | `RebuildInv` says what the new arrays have in the middle of the rebuild: the edges of the nodes before the next one (`Appending`), or those of the chunks that no task has left to copy (`Copying`), each at its `Place`, the number of kept edges before it. Places differ and leave no gap (`PlacesDiffer`, `PlacesAreTaken`); a consecutive range of nodes has consecutive places (`Consecutive`), so that the sums of the counts are where the slices begin (`PrefixSumsAreStarts`) and no task overwrites what another one has copied (`CopiedFacts`); the chunks have all nodes from the first one with an edge on (`ChunksCover`). Unpacking is translated while lower nodes are copied or at the end, in both cases when the parts have their new ids. `KeptTriangles` says that the parts of a kept edge are kept: basic customization remembers triangles that are as long as their edges (`UpTriangle`), and if such an edge is as long as the distance, so are both edges below it, by the triangle inequality of distances (`TriangleIsKept`) together with `FinallyExact`, which sums up the perfect customization. It is carried from one phase to the next by `ReducedInv`. Assumes also `ChunkCountsAssumption`: at least one chunk. |
| `QueryProofs` | `NothingLeftBehind` | The invariant says that all finite distances are `Ahead` of the walk: on its path to the root. A step relaxes only neighbors, which are on the path of the parent (`NeighborsStayAhead`, from chordality), and resets the node it leaves. At the root nothing is ahead. It holds for basic and perfect customizations, for any sequence of queries, updates and pruned steps. |
| `QueryProofs` | `QueriesAreExact` | `Walks`: no distance of a walk is below that in the metric, nor is the best path so far; and it is a shortest path, or one is ahead of both walks, from a node that the forward walk reached to one that the backward walk reached (`Found`). A walk that settles the lower end of such a path hands it on to a neighbor, as `FirstUpwards` says of shortest paths to higher nodes (`GoesOn`); the edge to it has the distance of its ends, so that perfect customization kept it (`LengthsAreExact`); a walk that is pruned was not shorter than the best path. `Ahead` says that nothing is below the walks, and at the roots nothing is left. The backward walk is the forward walk on reversed distances (`WalksBack`). |
| `QueryProofs` | `PathsAreExact` | `PathInv` says in each phase what the arrays mean for the path. *During the walks* (`IsWalk`, `Both`) it speaks of the tentative distances that were found, reset or not: each is that of the parent plus a weight (`Led`), none is below the length of the shortest paths over nodes below its own (`Low`); a shortest path whose highest inner node the walk has passed is found, or the best answer is no longer (`Through`); and where the distance itself is found, no path over nodes below the parent has it. This rests on the comparisons with `<`, which keep the *first* parent and meeting node that attain a distance. *With the answer*, the parents of both walks are the halves of a *tight* path (`ChainUp`, `JoinIsTight`): each piece is an edge with the distance as its weight, and each shortest path between two nodes of it has a node that is no lower than those between them (`Between`). Tight paths visit no node twice (`TightIsSimple`), also if roads have weight 0, so that a pointer that is turned around or set for one piece is not needed for another (`FlipStep`, `UnpackSplit`). *Unpacking* replaces a piece by the lower triangle that customization noted (`MiddleSplits`, which uses that `Middle` is the *lowest* such triangle), and the path is tight again (`InsertKeepsTight`). `SimplePath` says that the loop is at the target only at the end, and a path of distinct nodes has less than `N` pieces (`TightIsShort`, with the pigeonhole theorem of the library). A path that is asked for again starts from what the first request left in `bwParent` (`Downward`, `RouteDown`). |
| `QueryProofs` | `PotentialsAreExact` | `LazyInv`. The search from the target keeps an invariant of its own (`Passed`): no distance is too short, and a shortest path to a node is found, or goes on at a node the search has not passed or above that node (`WalkSettles`). Afterwards each node has its distance, or a higher node is on a shortest path (`WalkedFinds`), which then begins with an edge to a head; so a node whose heads have their distances is given its own (`EvaluatedIsLeft`). That they have them when it is evaluated: with parents as the way (`variant = "tree"`) nodes above a known one are known, and those on the stack lie above each other (`KnownAbove`, `PathFits`), as the way to the root is the least set closed under parents and holds, on chordal graphs, all higher neighbors of its nodes (`TreePathFacts`); depth first, none is missing. `unpack_path` changes parents between and asks for potentials in the middle of calls; so the invariant also says that the parents of known nodes are on shortest paths (`Parented`, `TightLink`), as are the nodes calls hold (`CallFits`) and the middle node of such an edge (`MiddleIsTight`). |
| `QueryProofs` | `UnpackedPathsAreExact` | `UnpackInv`, which adds to `LazyInv`, unless there are cycles of length 0, what the recursion of `unpack_path` keeps. Parents of unpacked nodes lead to unpacked nodes over edges that are arcs of shortest paths (`Unfolded`). Calls wait for calls of nodes that follow theirs on a shortest path (`Nested`, `Waits`), or for a second one of their own node; without such cycles no shortest path leads back (`OnFacts`), so no call under way unpacks the node of a call that waits for a parent or a middle node, nor sets its parent (`Apart`, `OthersHold`): what it has read stays true (`Holds`). In the end parents visit no node twice, so they reach the target (`UnpackedReaches`), over arcs that are as long as what they leave less to go (`TightArc`). The finding `zero_cycles` is why the condition is needed. |
| `RoutingServerProofs` | `TypeCorrect`, `QueriesOneByOne`, `FailuresHaveOneCause` | `IInv` adds `LockIsHeld` (the mutex is held exactly while a request is sent or waited for), `OthersWait` (a query in the channel or the engine is waited for, unanswered, and is not in both) and `HangsUpWhenDead` (with the engine the channel dies, and who still waits is hung up on). A handler that sends has the mutex, so no query can be in the channel before its own; an engine that crashes finds nothing but the bad query, so that nobody has an answer left to receive (`StepsOfTheDead`). It holds for any number of requests of each kind. |

`FullCustomizationProofs` assumes `CellsAssumption` of the separator tree: no edge leads from a cell to a lower node of another one, subcells follow one
another from the first node of their cell on, and each cell is reached from the root in one way. `SeparatorTree` computes such trees, as the run
`full_customization` shows (`CellsOfTree` compares its cells with the computed ones, and TLC evaluates `CellsAssumption` for them). Number and speed of threads, the sizes of cells and
the threshold `Small` are arbitrary.

`CCHWeightsProofs` has the lemmas that the proofs about weights share: on `Lowest`, on ranks, and two forms of induction. The library states induction
for operators, which the provers cannot instantiate; with sets (`InductionUpTo`) and functions (`RecursionUpTo`) in their place
it becomes a lemma that can be cited. From these it develops the lengths of shortest paths as `DistancesBelow` defines them, inner nodes allowed one
by one (`Lengths`): they exist, are monotone and satisfy the triangle inequality; on chordal graphs their ends are adjacent, they are least over
triangles, and paths leave a node upwards over a neighbor. `UpIsExact` and `DownIsExact` sum this up for the reference weights: distances are a metric,
no weight is below them, and a shortest path to a higher node goes over an edge that has the distance of its ends, as do all edges that perfect customization keeps.
They serve queries, potentials and perfect customization alike. Each proof module extends the module or modules it is about;
the theorems are of the specification that the runs check (`preprocessing` checks contraction as a part of
`CCHPreprocessing`, whose steps other than `Reorder` are those of `CCHContraction`; `customization` checks `SpecOfHierarchy` and `SpecOfHubs` next to
customization). For a Contraction Hierarchy `Graph` can be the complete graph, whose edges have all arcs of every network, so that its assumptions exclude none.

`PathInv` speaks of tentative distances that the code has reset and of paths as functions, which TLC would have to enumerate: of it only what it implies is
checked, by the run `query`. Its steps are proved one by one (`ForwardPath`, `CommonPath`, `FlipPath`, `UnpackPath`, ...).

Only model-checked: the separator tree and
the order made from it (recursive operators); distances between many nodes, nearest neighbors, searches on graphs without shortcuts
(in turns, in threads and over a core, whose potentials and pruning are rounded and read stale values); and all liveness properties (`CustomizationEnds`, `CallsEnd`, `EveryQueryEnds`, `RequestsEnd`), which need fairness and
`ENABLED`, out of reach of the prover.

## 5. Abstractions

* Node ids occur only where ranks are computed from them; everywhere else nodes are ranks. Edge ids are pairs of nodes; the code's
  arithmetic on edge ids is represented by `SlicesSuffice`, which speaks of the tails whose edges are in a slice.
* The list of parallel arcs of an edge is the set of their weights. `INFINITY` is `Inf`; sums of two weights go beyond it as in the code,
  where two of them fit into a `u32`. The distances of metrics stay below it, as the repository assumes of its inputs.
* One customized node is loaded, relaxed over one lower neighbor and stored in separate atomic steps. Within a step the code reads and
  writes edges that no other thread touches; that this is so is the invariant `NoConcurrentAccess`, not an assumption.
* rayon is modelled from its use: a spawned task may be taken by each thread that is idle or waits at the end of a scope.
* The queue of a channel, the poisoning of a mutex and the unwinding of a thread are modelled from the standard library's contract.
* The server's web framework, coordinates, the k-d tree and id mappings are left out: a query is for points or links that exist or names
  a link that does not.
* The potentials that guide the searches of `TopoQuery` and `BidirectionalSearch`, and the distances that `NearestNeighbors` asks for, are the
  distances of a network (exact, or of lower bounds): that lazily computed ones are, after any sequence of targets, is proved of `LazyPotential` (`PotentialsAreExact`).
* Equal keys leave a queue in the order of their ids, as the derived order of `State` has it; `PriorityQueue` specifies this and `IndexedHeap`
  is shown to implement it.
* In `ContractionHierarchy`, the witness search is the distance among the remaining nodes up to its bound: that a bidirectional search finds it is the
  subject of `BidirectionalSearch`. The order of links in the two lists of a node is kept, because an assertion depends on it (section 8).
* A search reads a node's arcs in any order. Where parallel arcs matter (contraction, customization) they are sets of weights, else the
  lightest.
* In `ThreadedSearch`, a write becomes visible to the other thread at some later time. Reads are made in the order of the program, which relaxed
  ordering does not promise: a counterexample shows that the code can fail, and the absence of one speaks only of these memory models.
* Counters for statistics, timers and reports are left out.

## 6. Findings

Disagreements between the code and its documentation that a run shows:

* `zero_cycles`: `ch_potentials.rs:312` argues that a nested call of `unpack_path` will not be overridden. The outer call goes on with a parent
  it has read before (`:278`) and sets it again (`:305`): with roads of weight 0 in both directions two nodes become each other's
  parents, and whoever follows them does not come to an end.
* `alternating`: the bidirectional `Server` answers when a side settles its goal (`bidirectional_dijkstra.rs:92`). With the
  symmetric potential and alternating sides, which `chpot_bidir.rs:224` combines, the sides may have met on a shorter way before.
* `dead_end`: a query of `ch_potentials/query.rs` from a node of the core into the dead end that hangs on it finds no path (`:111`): the arcs
  into the dead end are in the queue that the next part of the search empties.
* `late_writes`: the search in two threads prunes a node by the progress of the other thread and looks for a distance that it may not see yet
  (`query.rs:1116`, `:1119`). If both sides do so at their only meeting node, the answer is too long. It takes buffered writes and pruning
  by the key of the other queue.
* `server_bad_link`: `server/README.md:47` says that a query with an unknown link returns HTTP 500. It ends the engine thread and poisons the
  mutex of the sender: all later requests fail, too.

More of what was noticed, without a run of its own, is in section 8.

## 7. Not modelled

Not modelled:

* The time dependent parts (CATCHUp, time dependent A*, graphs with piecewise linear functions): floating point geometry with epsilons, which
  neither TLC nor the provers can represent faithfully. They are almost half of the engine's lines. The control around them is that of the
  customization and query above.
* Traffic prototypes, link speed estimates: sequential floating point computations. Alternatives, penalties and detours: heuristics on top of
  the searches above, that promise no exact result.
* Directed CCHs, customization with validity times, `always_infinity`; the geographic reordering of separators and `reorder_bfs`, which
  only experiments use; `preprocess` of `topocore.rs`, which nothing calls; multicriteria labels (their queue is modelled), isochrones,
  the landmarks of ALT, `RecyclingPotential`.
* The average potential is an operator of `SearchGraph` that runs leave out: it is broken by its clamp (section 8).
* The path of a Contraction Hierarchy, which panics (section 8), and loading hierarchies from files.
* Static graphs, permutations and bit vectors, which the models use as sets and functions; input, output, experiments and tools.

`CCHPreprocessing` stays with TLC: it composes the separator tree, whose definitions are recursive operators, which the prover cannot take.

## 8. Seen while modelling

Documentation and comments:

* `server/README.md:76` says that new weights are carried over into future customizations. Each customization starts from the weights loaded at
  the start (`server/src/main.rs:311`), so that the second undoes the first. Even with that repaired, they are installed in the order in
  which they finish (`main.rs:329`).
* `server/README.md:80` says that queries block until a customization is done; they are answered with the old metric, as `Install` is
  the only step of a customization that takes the engine's mutex.
* `server/README.md:78` says that `/customize` returns immediately; its handler waits for the mutex that the handler of a query
  holds until its answer has arrived, or during preprocessing (`Lock`).
* The fractions of the first and last link of a `/here_query` count with the weights that were loaded, the path with the customized
  ones (`main.rs:277`). A path is translated to links by the lightest of parallel links, in the weights that were loaded.
* `parallelization.rs:319` validates the separator tree only when parallelization is switched off; line 127 has the condition the other
  way round.
* `index_heap.rs:149` says that `decrease_key` does nothing if the new key is larger; it writes the key and only looks upwards. It is safe
  through `update_key`, which compares first, or for keys that are known to be lower, as in the searches. `topocore.rs:600` looks for the first nodes of degree 2 and 3 among all
  nodes and not only in the core; degrees are cut off to `u8` (`:526`).

Queries:

* `AveragePotential` clamps its keys at 0 (`a_star.rs:317`, `:320`), which its own stop criterion does not account for. With the arcs 1-3: 0,
  2-1: 8, 2-3: 5, 3-0: 0, 0-1: 2, 1-0: 2, 1-2: 3, 3-1: 12 and lower bounds 1-3: 0, 2-1: 1, 2-3: 0, 3-0: 0, 0-1: 2, 1-0: 1, 1-2: 3, 3-1: 10,
  the answer from 2 to 1 is 8 instead of 7. `PotentialForPermutated` forwards the stop criteria of one side to the one of both.
* `BiDirServer` ends as soon as one queue is empty (`a_star.rs:245`, `:370`), which is right where each search could come to its goal. Its graphs have
  no arcs out of the core (`topocore.rs:690`), so that a search whose goal is in a dead end has to wait for the other. If it has passed or settled all of
  its nodes before, the answer is `None`, as in the network `Flag` from 1 to 4, whose distance is 3: the forward search passes 0 and 2 without
  queueing them, and the backward search has not begun. It is the exception `StoppedWithPartner` of `TurnsAreShortest`.
* `SeparatorBasedNearestNeighbor` skips the cell of its source if all `k` targets it has found are as far as the boundary of the cell (`OwnCellSkipped`),
  which contradicts the comparison in `cchpp/src/bin/cch_nearest_neighbors.rs:80`. With cells {0, 1} and {2, ..., 7}, the separator 8, edges
  0-1 and 1-8 of weight 1 and targets 1 to 8, the target nearest to 0 is 1, and the answer 8.
* `BCCHNearestNeighbor` reports unreachable targets, at INFINITY and beyond, if fewer than `k` can be reached (`nearest_neighbor.rs:214`).
* `BucketCHPotential::compute_dists` asserts in debug builds that the node has not been visited, where it means the head of the link (`ch_potentials.rs:554`): it
  panics as soon as there is a link.
* `path` of the Contraction Hierarchy asks for the edges from a node to itself and compares ranks with ids (`contraction_hierarchy/query.rs:109`): it
  panics unless the searches meet at the origin.

Preprocessing and customization:

* Contraction of a hierarchy asserts that both ends of a shortcut are improved together (`contraction_hierarchy/mod.rs:259`). With parallel arcs,
  `swap_remove` reorders one of the two lists, another of the arcs is found, and the assertion fails, as with arcs 1-0: 0, 0-2: 1, 1-2: 1 and 5, 1-3: 9
  (`panicked` in `ContractionHierarchy`; properties are about hierarchies that were built).
* The parallel construction of the reduced graph panics if there are fewer chunks than four for each thread (`customization.rs:478`), which happens only on
  small graphs (`EnoughChunks`); if
  the lowest nodes are isolated, the first chunk starts behind them and their offsets move (`:464`). Its debug assertion on weights is in the
  sequential version only (`:413`).
