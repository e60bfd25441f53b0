# jjoin in TLA+

jjoin reads a list of relation files and then batches of queries from its
standard input, and answers each query (equi-joins, filters, sums) with a
sort-merge join engine.  The program the Makefile builds is
`src/src/main/master.c` with `main.c`.  The other `.c` files of `src/src/main`
hold the same functions, one file per structure; the test programs link them,
and their main loop executes the queries one after the other, without threads.
The modules here model `master.c` and `main.c`; most of what they say holds for
the split files too, and definitions whose code reads better there are mapped to
them (`mx_radix.c`, `join.c`, `list.c`, `query.c`, `relation.c`).

Line numbers below are those of `src/src/main/master.c` unless stated otherwise.

## 1. The system

| component | state | operations | talks to |
|---|---|---|---|
| main program (`main.c`, `batch_*`, `list_foreach*`) | list of relations, list of batches, the heap that holds the queries and the `query_job` records | read relations, read batches, hand every query to the scheduler, free everything, return | parser, scheduler |
| job scheduler (`job_scheduler_*`) | queue, `bar`, `done`, a mutex, two condition variables, a barrier, 8 threads | schedule, barrier, stop, destroy; the worker loop | queue, query engine |
| circular job queue (`queue_*`) | front, back, buffer of 100 slots | create, push, pop, empty, full | owned by the scheduler |
| query engine (`query_exec`, `query_filter*`, `query_join*`, `query_projection`, `load_*`) | one matrix per query, the list of predicates | execute predicates in order, then sum the projections | relations, matrix, `log.txt` |
| matrix (`matrix_*`, `mx_radix`, `mx_join`) | rows of one (key, row id) tuple per relation; per column the attribute it is sorted by | load, sort, join, finalize, swap | tables |
| sorting (`table_sort*`, `matrix_sort`, quick sort, histogram, prefix sum) | the table or column being sorted and its copy | radix pass on one byte, quick sort below 64 KB | |
| query parser (`pred_init`, `proj_init`, `query_init`, `batch_list_populate`) | the lists of batches, queries, predicates | parse a line, filters in front, joins behind | list |
| linked list (`list_*`, `nodelist_*`) | head, tail, length | insert at either end, free, get, merge sort | everything |
| relations, tables, headers, vector | arrays; files mapped into memory | insert, clear, load, print | |

Control flows from main to the queue (one `job_scheduler_schedule` per query),
from the queue to eight workers, from a worker to `query_exec`, and from there
to the log.  The workers share the queue with main under `queueLock`, the flags
`bar` and `done` with and without it, the `query_job` records without any lock,
and `log.txt`.  The relations are read only.  Nothing is written to disk that
is read again, so there is no recovery to model.

### What is hard, and what makes each part correct

* **Scheduler.**  A worker that has tested the loop condition and not yet gone to
  sleep, `bar` and `done` read outside the lock, two uses of one barrier, one
  condition variable for jobs, barriers and the end.  Correct means: every
  accepted job is executed once; barrier returns when all are; the two rounds of
  `pbar` never mix; stop returns when all are executed and nobody uses what
  destroy takes away; nobody waits forever.
* **Queue.**  Indexes that wrap, one slot that is never used, a push that fails.
  Correct means first in first out, nothing lost or twice, at most 99 waiting.
* **Main program.**  Who owns a `query_job`, and what is still running when main
  frees the queries and returns.  Correct means every query executed once.
* **Engine.**  The matrix is updated column-wise, row-wise and as a whole, and
  shortcuts (a column that is sorted already, a relation that is loaded already)
  are taken on the strength of marks and of the first row.  Correct means that the
  rows in use are the combinations of row ids that satisfy the predicates
  executed, each once, and that the sums are SQL's.
* **Sorting and join.**  Two arrays that exchange roles with every chunk of bits,
  bucket ends that are found from running offsets, unsigned bounds in quick sort,
  runs of equal keys at the end of either side of the merge.  Correct means a
  sorted permutation of the column, and every pair of rows with equal keys once.
* **Reading and lists.**  `fgets` into fixed buffers, results of `sscanf`
  and `rel_init` that nobody looks at, a merge sort on the pointers of a list whose
  front was built from both ends.  Correct means the batches, queries and predicates
  that were written, in the order in which `query_exec` needs them, and lists that are
  freed once.

## 2. The modules

| module | models | role |
|---|---|---|
| `RingQueue` | `queue_t` and its operations, as operators on a record | used by `JobScheduler` and `Harness` |
| `RingQueueProofs` | | what push, pop and empty do to the set of queued jobs, proved |
| `JobPool` | | abstract specification: a bounded FIFO pool with two waiting calls |
| `JobScheduler` | workers, schedule, barrier, stop, destroy | detailed specification, properties, refinement of `JobPool` |
| `JobSchedulerInv` | | the inductive invariant `IInv` |
| `JobSchedulerProofs` | | the theorems about it, and that the scheduler implements `JobPool` |
| `Harness` | main, the workers' use of `query_job`, `log.txt`, the end of the process | composes main with the queue |
| `HarnessProofs` | | memory and results of one-query batches, proved |
| `Matrix` | `matrix_t` and its operations, as operators on a record | used by `QueryEngine` |
| `QueryEngine` | `query_exec` with filters, joins, loading, projections | state machine, properties against SQL |
| `QueryEngineProofs` | | the matrix and the sums against SQL, marks and missing ids, for all relations and queries, proved |
| `PredicateOrder` | `is_pred_join`, `pred_cmp`, the merge sort of predicates on sequences | used by `QueryEngine`; the reference for `ListSort` |
| `QuickSort` | `table_quick_sort`, `matrix_qsort` and their partitions | state machine over a stack of calls |
| `QuickSortProofs` | | quick sort sorts, for every table, proved |
| `RadixSort` | `table_sort_wrapper`, `table_sort`, `mx_radix`, `matrix_sort` | uses `QuickSort` |
| `MergeJoin` | the merge loop of `join` and `mx_join` | state machine |
| `SortMergeJoin` | from two columns to the pairs of rows | composes `RadixSort` and `MergeJoin` |
| `SortMergeJoinProofs` | | what a pass of the radix sort does; the merge is exact; both routes sort and join exactly, for all columns, proved |
| `LinkedList` | `list_t`: nodes with `next` and `prev`, insertion on both sides, `list_get` | operators on a record |
| `ListSort` | `nodelist_mergesort`, `split`, `merge` on nodes | extends `LinkedList` |
| `ListSortProofs` | | the sort of predicates, on sequences and on nodes, for any list, proved |
| `QueryInput` | `rel_list_init`, `batch_list_populate`, `query_init`, the order of joins, `list_free` | state machine over standard input |
| `QueryInputProofs` | | relations, batches and lists are as written, joins in order, nodes freed once, for all inputs, proved |
| `MCJobScheduler`, `MCHarness`, `MCQueryEngine`, `MCSortMergeJoin`, `MCQueryInput` | | constants for TLC: symmetry, databases, queries, columns, inputs |

`PROJECT.json` maps every definition to the lines it translates.

### JobScheduler

The variables are the fields of `job_scheduler`, one program counter per thread,
the local variable `job` of each worker, and histories (`submitted`, `rejected`,
`finished`, `rounds`, `spurious`).  One action per step between two points that
other threads can observe:

| action | code |
|---|---|
| `Lock`, `Test`, `Sleep`, `Wake` | the lock and the loop around `pthread_cond_wait`, 2095-2102 |
| `Take` | pop, signal of `cond_empty`, unlock, 2104-2118 |
| `Run` | `query_job_run` and `free`, 2120-2124 |
| `CheckDone`, `CheckBar` | the two tests outside the lock, 2125-2129 |
| `WorkerArrive*`, `WorkerLeave*` | the two `pthread_barrier_wait`, 2131-2132 |
| `Schedule` | `job_scheduler_schedule`, 2193-2205 |
| `BarrierCall` ... `BarrierReturn` | `job_scheduler_barrier`, 2171-2190 |
| `StopCall`, `StopBroadcast`, `StopReturn` | `job_scheduler_stop`, 2208-2214 |
| `Destroy` | `job_scheduler_destroy`, 2157-2165 |

A condition variable is the set of threads waiting on it; a signal removes any
one of them, a broadcast all, a spurious wakeup one without a signal.  The
barrier `pbar` is the set of threads in the current round, and the last to
arrive empties it.  `Test` and `Sleep` are two steps because `done` is written
without the lock; for the same reason `StopCall` and `StopBroadcast` are two.
The memory is sequentially consistent: `bar` and `done` are plain chars that the
code reads and writes between library calls the compiler cannot reorder them
with.  Failures of lock and unlock, where the code calls `exit`, are left out.

### Harness

main never calls barrier or stop, so what is left of the scheduler is its queue.
What matters is memory: a cell of the heap is alive or free, `free` overwrites
what it held, `malloc` returns any cell that is not alive, a second `free` of a
cell stops the process or, when main has written to the cell in between, goes
undetected and lets `malloc` return any cell from then on.  `Crash` stands for
the undefined behaviour that ends the process; where the build may also carry on
with what it finds, the model has both.

### Matrix and QueryEngine

A row is a function from the relations of the query to a tuple `[key, id]`; rows
in use are followed by rows of `Empty` tuples, as the power-of-two allocation
leaves them.  `Matches` is the double loop of `mx_join` over two runs, `MergeRows` the
rows it makes; `LoadExisting` and `SortExisting` are the first half of `load_all`.  Sorting is modelled by its result:
`Sortings` is the set of all orders by key, because the program's sorts are not
stable.  In `QueryEngine` every predicate, the sorting of the joins,
`matrix_finalize` and every sum is a step; `pred_cmp` and the merge sort of
the predicates are translated as they are, ties included.  The history `irregular` names
the shortcuts taken where they do not apply:

| name | where | what happens |
|---|---|---|
| `refiltered` | 1495 | a filter on a relation that has rows already takes the product with them |
| `torn` | 1347 | sorting one column moves its ids between the rows of the others |
| `ragged` | 956 | a whole relation is loaded into a column beside rows of others |
| `forgotten` | 1545, 1601 | a join that leaves no row is taken for one that never ran |
| `selfcompared` | 1494, 1608-1618 | two attributes of one relation compared with a relation index, or joined with itself |
| `missing` | 1529 | the id `UINT64_MAX` of a ragged row is used as an index: the word before the column is read |

Each of them is enough for a wrong sum, and the model and the program agree on which.  With
the relations A = 1,2 2,1 3,3 4,1; B = 1,1 2,2 3,1 4,1 4,2; C = 1,5 1,7 2,9 as 0,
1 and 2, and the sums `0.0 1.1 2.1`, the program and the model print:

| predicates | printed | SQL | why |
|---|---|---|---|
| `0.0=1.0&1.1=2.0&0.0>1&0.1<3` | 54 24 126 | 14 6 30 | refiltered |
| `0.0=1.0&0.1=2.0&0.0>0` | 21 10 45 | 21 11 45 | torn |
| `0.0=1.0&1.1=2.0&2.0<2` | 5 3 5 | 16 6 36 | ragged, missing |
| `1.0=1.1&0.1=1.0&1.1=2.0&0.0>0` | 12 4 24 | 13 6 33 | selfcompared |

(For torn the model reaches 21 9 45 as well, depending on the order of equal
keys.)  With A = C = 1,1 2,2 and B = 1,2 2,1 the predicates
`0.0=1.0&0.1=1.1&1.0=2.0&0.1<9` print `NULL 3 3` instead of three times NULL
(forgotten).  Four queries of `small.work` (lines 1, 8, 30, 54) are torn; none of
them sums the relation whose rows come apart, so the expected results do not
show it.

The mark of a column (`col_map`) has two properties.  `MarksTruthful` speaks of the states
between predicates: a column that has a mark is in the order of it, and a column without rows is in any
order.  `load_all` loads and sorts and `mx_join` merges within one step of the model, and what
happens there is the subject of `MergesInOrder`: what goes into the merge has the
attribute of the join, in order.  It has one exception, which the property names (`StaleMark`).  A
join that leaves no row takes the rows away and not the marks.  If a later join loads such a relation anew
(956) by the attribute that the mark names, 964 takes it for sorted, and `mx_join` is handed
the column in the order of its row ids.  The shortest case is `0.0=1.0&0.1=1.1&1.0=2.0`, where the second join
keeps no row and 1.0 is not in order in the file; `engine_queries` has it.  The property requires that a
shortcut has gone wrong before: `forgotten`, as here, or `ragged`, when the rows that are left lack the column.

### QuickSort, RadixSort, MergeJoin and SortMergeJoin

`SortMergeJoin` follows a join from the columns to the pairs, on either of two
routes: `"join"`, two tables that `table_sort_wrapper` sorts and `join` merges, as the
test programs do it, and `"mx_join"`, a column that `mx_radix` sorts in the matrix and a
table for the other side, as `load_all` does it.  The phases hand the sorted
arrays on; the merge is an instance of `MergeJoin` on the same variables.

| action | code |
|---|---|
| `LoadLeft`, `LoadRight` | `load_table` and `table_sort_wrapper` up to its first call, or `load_matrix_full` and `mx_radix` |
| `TablePass`, `TableBucket`, `TableReturn` | `table_sort` and `table_split`, 571-646: histogram, prefix sum and scatter; one bucket; the end of a call with the copy back in its caller |
| `MatrixPass`, `MatrixBucket`, `MatrixRecurse`, `MatrixReturn` | `matrix_sort` and `matrix_split`, 1319-1404 |
| `Quick!Return`, `Partition`, `Scan`, `Place` | quick sort and partition, 649-688 and 1073-1113, one iteration per step |
| `Loop`, `ExtendA`, `ExtendB`, `Match`, `Skip`, `Emit`, `Advance` | the merge, 983-1028 and 1031-1070 |

`frames` is the call stack of the radix sort and `calls` that of quick sort.  The
first holds for each call its chunk and range, the running offsets and the bucket
it is at, because the code finds the end of a bucket from the offset that the scatter
has left there.  `tuples` and `other` are the two arrays: `table_sort` swaps their roles
with every call, `matrix_sort` goes from column to table for odd chunks and back
for even ones.  `next` is the field of that name, which `table_sort` sets to the size
of the bucket it was called for and restores.  The widths are constants: `Radix`
values per chunk (256), `FirstChunk` (7) and `BucketLimit` tuples per small bucket (64 KB).

Where the modules meet: `InOrder` is what the sorts guarantee, it is the assumption with which
`MergeJoin` starts (`SortedTable`), and it is what `Matrix` assumes of a sort
(`Sortings`: some order by key).  `MergeJoin` alone promises `MergeExact`, the
composition `JoinExact`.

### QueryInput, LinkedList and ListSort

Standard input is a sequence of tokens: a path, a relation, a predicate, a sum, `|`,
`F`, `done`, a newline.  A token stands for the characters it is written with; the
limits of `fgets` count tokens, and a token that has lost its last character to
`fgets_crop` is marked as cut.

| action | code |
|---|---|
| `ReadRelation`, `EndOfRelations` | `rel_list_init` with `rel_init`: 838-851 and 758-799 |
| `ReadLine`, `EndOfQueries` | `batch_list_populate` with `query_init`, `pred_init`, `is_join`, `proj_init`: 2229-2249 and 1878-2017 |
| `Begin` | a worker enters `query_exec`, 1406 |
| `Execute` | the part of `query_exec` that decides where the joins begin and sorts them, 1415-1426, or the return after a filter that left nothing |
| `EndOfBatches` | `main.c`:15-20: the queries are scheduled, and main goes on to `list_free` at once |
| `FreeNode`, `FreeNext`, `FreeEnd` | the release of the relations and of every query's predicates, `list_free` and `query_destroy`, 1730-1745 and 1999-2003; one node per step |

`main` waits for nothing (`main.c`:17-21), so `Begin` and `Execute` may come before and between the steps
of the release, in any order.  `Places` are the lists of relations and predicates in the order in which main
comes to them, `parser` is where `list_free` is.  Main and a query *meet* when main comes to the list of
a query that is running (`FreeNext`), or when a query begins whose list main is at or has passed (`Begin`):
then one of them may follow links that the other is rewriting or has freed.  That is undefined behaviour; the model goes
to `"raced"`, and what is claimed is claimed up to there.  The sort is one step, since until main comes to
the list nobody else is at its nodes: a sort that is under way when main arrives is a query in the stage
`"running"`.  Left out here: that a query reads the relations and the rest of its sorted list after main has freed them
(that crash is in `Harness`), that a job may execute a query twice when its batch has several
(in `Harness` as well), and the lists of projections, of queries and of batches, which are
built at one end, never sorted, and freed by the same function.

`rel_init` computes `data_size` as a `size_t` (787).  `SizeWords` is the number of words whose bytes such a number
can hold; products and their sum with the header wrap around in the model as they do in the code.

A list is a record of `head`, `tail`, `length` and the functions `data`, `next` and `prev`
of its nodes, so that `LinkedList` and `ListSort` can be wrong in the ways the code
can: `list_add_start` sets `prev` of a new head to the tail (1684), the sort
splits by writing `next` and `prev` of nodes that are still linked with the filters in
front, and leaves `tail` stale.  `JoinsInOrder` compares the outcome with
`nodelist_mergesort` of `PredicateOrder`, the same sort on sequences that
`QueryEngine` uses.  A string that `sscanf` did not assign is not initialised:
the action leads to `"undefined"`, where nothing more is claimed.

## 3. The runs

| run | question | bounds |
|---|---|---|
| `scheduler_safety` | Are jobs conserved, do barrier and stop return only when all is done, do the two rounds never mix, is stop the only call that can hang, does every step implement one of `JobPool`? Checks `IInv` as well. | 3 workers, 4 jobs, 3 slots, 2 barriers, 1 spurious wakeup, symmetry of workers and of jobs |
| `scheduler_liveness` | Do barrier, jobs and (without the race) stop come to their end, and does the scheduler implement `JobPool`, fairness included? | 2 workers, 3 jobs, 3 slots, 2 barriers, no symmetry |
| `scheduler_stop_hangs` | Does stop always return? It does not. | 1 worker |
| `scheduler_full_queue` | Is every scheduled job queued? It is not. | 1 worker, 2 jobs, 2 slots |
| `harness_one_query_batches` | With one query per batch, is memory used properly until main frees the lists, is every query executed and reported once, in order? Does main end? | 2 workers, 3 batches, 2 sums each, 3 slots, 3 cells |
| `harness_exit` | Is every query executed when the program ends? It is not. | 1 batch, 1 query |
| `harness_shared_job` | With two queries in a batch, is each executed once? It is not. | 1 batch, 2 queries |
| `engine_queries` | After every predicate, is the matrix what SQL says; are the sums; are the marks truthful, and is what goes into a merge in order; are missing ids read only after a ragged load? | 69 queries over 3 relations (8 shapes of joins by 8 sets of filters, comparisons within a relation, a relation in no predicate or in a filter only), 6 databases of up to 5 rows, all orders of equal keys |
| `engine_refilter` | Does a second filter keep just the remaining part? It does not. | 1 query |
| `engine_torn` | Is a query with two join attributes of one relation what SQL says? It is not. | 1 query |
| `sort_merge_join` | Does every column come out of the sorts in order with its tuples, does every call find the bucket it was called for, is the join exact, and does it end? | both routes; columns of up to 7 rows, 45 left by 5 right; keys of 4 chunks of one bit (`Radix` 2, `FirstChunk` 3), quick sort below 3 tuples |
| `query_input` | Do the batches, relations and predicates in memory agree with the lines; is the list of predicates sound before and after its sort; does main, which waits for no query, free every node once unless it meets a query at its list? | about four thousand inputs: up to 3 predicates of 7 in any order and number, 5 different ones in every order, batches with and without queries, relations that cannot be read, two whose header wraps `data_size` or its sum with the header, lines that are cut or too long; `MaxPath` 3 and `MaxQuery` 13 tokens, pages of 4 words, 8 values of an `int` and 256 of a `uint64_t` |

*Why the bounds are enough.*  Three slots hold two jobs, so four jobs wrap the
indexes, fill the queue and overflow it; three workers let one be in each of two
phases of the barrier while the third is asleep; two barriers are needed for the
reuse of `pbar`, and one spurious wakeup for the loop around
`pthread_cond_wait`.  The liveness run has no symmetry and no spurious wakeup.  In
the harness three batches are enough for a cell to be freed and allocated again
while another is queued.  Databases hold keys that repeat on either side, that
match nothing and that sorting reorders, and relations that the filters leave
empty; intermediate results grow beyond `MatrixInitialCapacity` (4, the program's value) rows.  All
relations have rows and values above 0 (a sum of 0 is printed as NULL, like the sum of
nothing).

Four chunks are what it takes for a bucket to be large at the first, the second and the
last chunk, at odd and even levels; the columns hold keys that part at each of
them, buckets of the limit's size and one below, empty prefixes in front, between and
behind, and an odd and an even number of equal keys.  Five predicates are the
shortest list whose halves split unevenly twice, with filters in front and ties.
A query of n predicates has n + 6 tokens and `fgets` takes twelve, so that the inputs hold
lines that fit with their newline, and lines that leave the newline, one token or more behind.  One
input ends before its "done".  Data ends on a page, one word after it and before it.

*Deadlock* is not checked by TLC where a program may stop: a client that calls
nothing leaves all workers asleep, a process ends, a query or a join is done.
`OnlyStopHangs` says instead in which states the scheduler may stand still, and
`JoinEnds` that a join stops only at its end.  `query_input` is checked for deadlock:
its four kinds of final states stutter, and every other one must have a step.

*Fairness.*  `FairSpec` of `JobScheduler` has weak fairness of every worker and of the
client inside a call: the threads are scheduled by the operating system, the mutex
is held over a bounded number of steps, and a query terminates.  The client owes
no call: it may do anything or nothing.  `Harness` assumes weak fairness of main
only, so `MainEnds` does not rely on the workers.  `SortMergeJoin` is one thread that
goes on to its next statement: weak fairness of `Next`.  The engine and the input
have safety properties only; their steps are bounded by the length of a query or
of the input.

### What the runs show of the program

* `job_scheduler_stop` (2209) writes `done` and broadcasts without `queueLock`.
  A worker between its test and `pthread_cond_wait` misses the broadcast and stop
  never returns.  `StopReturnsUnlessRaced` shows that this is the only way.
* `job_scheduler_schedule` (2198) drops a job that meets a full queue, unnoticed.
* `main` (`main.c`:17-22) neither calls barrier nor stop: queries are freed while
  workers execute them, and the process may end before any was executed.
* `list_foreach_query` (1769) gives all queries of a batch one `query_job`, which
  main overwrites and every worker frees.
* The engine's filters, sorting and loading have the irregularities above.
  `IntermediateExact` and `RegularResult` show that there are no others within the
  bounds, and `RowsAreAnswers` and `SumsAreSQL` (section 4) that there are none at all: a
  query that meets none of them is answered as SQL defines it.  Beyond the table of section 2
  there is only the relation that no predicate mentions (`AllMentioned`): the engine loads
  nothing of it, so the sums lack the factor of its rows, and its own sums are 0.
* The sorts and the join are exact on both routes, and nothing that the exchange of
  arrays leaves behind is ever read (`BucketComplete`).  A relation without rows ends
  the process on the assertion of `table_sort` (574).  `matrix_split` quick-sorts a small
  bucket and then sorts it by the remaining chunks as well: work done twice, and at odd
  chunks the next pass reads the table and overwrites what quick sort has done.
* `rel_init` (792) maps as many bytes as the data has, from the start of the file;
  the header is 16 bytes long.  `OnlyTailUnmapped` shows that at most the last two
  words are outside, and only if the data ends with a page or one word before, provided that a `size_t`
  holds the size.  If the product in the header wraps around (787), a file of a few words passes
  the test that it is "at least as big as (header + rows * cols)" (786), and nearly
  all of the relation lies outside; `OnlyTailUnmapped` excepts these (`Wraps`).
* `list_insert` (1673) ignores that a relation could not be read.  That keeps the numbers of
  the others right (`RelationsInPlace`), and leaves a relation with fields nobody wrote.
* `fgets_crop` (178) cuts the last character of whatever it was given: a last `F`
  without newline becomes an empty query, whose strings nobody writes.  A query that fills the
  buffer is two queries.  With whole lines the batches are as written
  (`BatchesAsWritten`).
* `atoi` reads the constant of `<` and `>` (1894): one that needs more than an int
  is another constant.
* `is_join` (2016) compares a character with the sign where it means the second relation,
  so a comparison of two columns of one relation is put behind with the joins, and then
  executed as a filter if it comes before the first join, otherwise as a join.
* The list that is built from both ends looks circular when read backwards, but up to
  its sort `prev` is the inverse of `next` between head and tail, and that is enough
  for the splits (`DoublyLinked`, `NodesFreedOnce`).
* `main` may free the list that a worker is sorting.  `NodesFreedOnce` shows that nothing is freed
  twice or forgotten unless the two meet at one list.

The order of lines in `log.txt` is the order in which workers project: sums of
different queries may be mixed, and only the sums of one query are in order
(`NeverTwice`).

## 4. What is proved

### The scheduler

TLAPS proves the following for every number of workers, jobs, slots, barriers and
spurious wakeups, from the assumptions on the constants that `RingQueue` and
`JobScheduler` name (`QueueSize` is a natural number above 0, `NoJob` is not a job,
there are workers, the client is not one of them, no thread is called `NoThread`).

| theorem (`JobSchedulerProofs`) | says |
|---|---|
| `Invariance` | `Spec => []IInv` |
| `TypeCorrect` | `Spec => []TypeOK` |
| `JobsConserved` | no job is lost (`NoJobLost`) and none is in two places (`NoJobDuplicated`) |
| `BarrierSafe` | `BarrierCompletes` and `BarrierRoundsAligned` |
| `StopSafe` | `StopDrains` and `DestroySafe` |
| `BarrierQuiet` | `NoJobRunsUnderBarrier`, an action property |
| `PoolImplemented` | `BehavesAsPool`: the initial state is one of `JobPool`, every step a step of `JobPool` or a stutter |

*The argument.*  None of these properties is inductive.  That stop drains the queue,
for example, rests on what a worker knows when it leaves: it found the queue
empty under the lock and `done` set, and nobody pushes any more because the
client is in stop.  `IInv` states these facts: which labels own the lock
(`LockInv`), who can wait where (`WaitInv`), which labels of the client raise `bar` and
`done` (`FlagInv`), that a conclusion drawn from an empty queue is still true when it
is acted on (`EmptyInv`), that the threads cross the first round of `pbar` together
(`RoundInv`: once one thread is past it, all are), that nobody works while the client
leaves a barrier or is done with stop (`QuietInv`), and that each job is in one place
(`PlaceInv`).  The proof that a step preserves `IInv` splits into `TypeStep`,
`PlaceStep` and `ControlStep`, each with one step per action.  The queue enters through
the lemmas of `RingQueueProofs`: `PushQueued`, `PopQueued` and `EmptyQueued` say what
an operation does to the set of queued jobs whatever the position of the indexes,
including the wrap.

`PoolImplemented` maps the ring to the sequence of its jobs (`Contents`), the jobs that
workers hold to the pool's running ones, and what the client waits for to `WaitsFor`.
Its lemmas are `PushContents` and `PopContents` of `RingQueueProofs`: a push appends to the
sequence and a pop takes its head, wherever the indexes stand.
Schedule, take, run, the calls and the returns of barrier and stop are steps of
the pool; a return is one because `IInv` implies that the pool is drained there.  All
other steps leave the mapped variables alone.

### The main program

`HarnessProofs` is about any number of workers, cells, batches and sums per query, any
size of the queue, and any interleaving, with the assumptions that `RingQueue` and `Harness`
name.

| theorem | says |
|---|---|
| `Typed` | `Spec => []TypeOK`, for every input: pointers to `query_job` records are never NULL where they are used, also in the runs that free a cell twice |
| `OneJobOneOwner` | `OneQueryBatches => (Spec => []JobsIntact)` |
| `ExecutedOnce` | `OneQueryBatches => (Spec => []NeverTwice)` |
| `NoEarlyCrash` | `OneQueryBatches => (Spec => []CrashOnlyAfterRelease)` |

`OneQueryBatches` is a hypothesis of the theorems, no assumption of the module: no batch has
two queries and no query is in two batches.  It cannot be dropped, as the run
`harness_shared_job` shows.  The inductive invariant is `IInv`: a `query_job` has one owner,
main until it is queued, then the queue, then one worker, which frees it (`OwnInv`); a query
follows its `query_job`, so that it is unread, or in one cell that is alive, or executed, and what
the log has of it is what its worker has written (`QueryInv`).  A cell that `malloc` returns
again is no exception: it was freed by its owner, so nothing refers to it.

### Sorting and joining

These hold for tables of any size.  Quick sort and the merge need no assumption on constants,
only the inputs that `Init` allows.  The radix sorts need `ChunkAssumption` (at least two values
per chunk, buckets of at least one tuple, and an odd first chunk, which `mx_radix` needs to read
the column first) and `ColumnAssumption`: the payload of a tuple is its row, as `load_table` and
`load_matrix_full` make it, and the chunks hold all bits of a key, as 8 chunks of 8 bits hold a
`uint64_t`.

| theorem | says |
|---|---|
| `QuickSortCorrect` (`QuickSortProofs`) | when the calls are done the range is in order, holds the tuples it held, and nothing outside of it has changed |
| `MergeCorrect` (`SortMergeJoinProofs`) | on two sorted inputs with distinct payloads on either side, the result has every pair of rows with equal keys, once, and no other |
| `Distributes` (`SortMergeJoinProofs`) | a pass takes a range that is settled by the chunks above to one that is settled by its own chunk as well, and leaves the rest of the array alone |
| `AllPlaced` (`SortMergeJoinProofs`) | an array that is settled by all chunks is in order and holds the tuples of the column |
| `Typed` | `Spec => []TypeOK` |
| `BucketsComplete` | `Spec => []BucketComplete` |
| `BucketsSorted` | `Spec => BucketSorted`, an action property |
| `SortsInOrder` | `Spec => []InOrder` |
| `JoinsExactly` | `Spec => []JoinExact` |

*Quick sort.*  The argument does not follow the recursion, which the stack of
calls has made a matter of state.  The invariant says of two tuples of the range that
they are in order unless one pending call has them both (`OrderInv`), and of the
calls that no two share a tuple (`CallsInv`).  A swap within the range of a call then disturbs no
pair that is in order already, and a partition gives up exactly the pairs on
different sides of its pivot, which `ScanInv` has put in order.  With no call pending every
pair is in order.  That tuples are neither lost nor doubled is a count
(`Occurrences`) that a swap preserves, shown by a bijection (`SwappedTuples`).

*Merge.*  What lies behind one index is smaller than all that lies before the other
(`MergeBehindInv`), so a run that has been passed has no partner left; a row of the result for each
pair that is behind both indexes, or that the product of two runs has come to
(`Emitted`), and no two rows of the result are the same pair (`ResultInv`).

*A pass of the radix sort.*  The idea is to say where a tuple belongs without saying how it gets
there.  Of the tuples V of the column, `Below(V, c, v)` counts those whose key without the lower
c chunks is below v; `Region(V, c, v)` is the range from there to `Below(V, c, v + 1)`.  A tuple is
*placed* for chunk c if it stands in the region of its own value, and a set of positions is
*settled* if all of them are placed and no tuple is there twice.  Regions of one chunk do not overlap
(`RegionsApart`), those of the next chunk split them (`BelowUp`, `RegionInside`), and a region that
is settled holds all tuples of its value (`Filled`, by counting).  The histogram, the prefix sum
and the count of equal chunks before a tuple send it into its region, and no two tuples to one index
(`IndexAt`, `IndexOnce`); `OffsetsAre` says what the offsets are afterwards, from which
`table_split` and `matrix_split` find the ends of the buckets.

*The stack of calls.*  `JoinInv` has in each phase the invariant of what runs there.
`SortInv` says of each call which of the two arrays its buckets are in: by depth for `table_sort`, by
chunk for `matrix_sort`.  A call that waits (`Waiting`) has in that array everything outside of the
bucket it waits for settled by its chunks, and everything in front of that bucket placed by all
chunks; in the matrix the column has it, too.  The innermost call is before its pass with its range
ready in the array it reads (`BeforePass`), between two buckets, or at one, perhaps in quick sort,
whose own `IInv` holds then.  The range of a call is the bucket of the one around it, so whatever it
writes, to either array, is where nobody around it expects anything (`StackKept`).  When it
returns, its range is placed by all chunks and, copied back or not, in the array that its caller
distributes to.  A bucket that quick sort has ordered is placed by all chunks at once
(`OrderedPlaced`).

### Matrix and query engine

`QueryEngineProofs` is about any number of relations with any number of rows and columns, and
queries of any length.  `EngineAssumption` says what the program's own inputs are: a query has
finitely many relations, numbered; every column of a relation has its number of rows; predicates
and projections name columns there are; a predicate with a constant is in front of the joins, as
`query_init` lists it, and the others are equalities.

| theorem | says |
|---|---|
| `EngineTypes` | `Spec => []TypeOK` |
| `SortedMarksTrue` | `Spec => []MarksTruthful` |
| `MergesAreInOrder` | `Spec => []MergesInOrder` |
| `IdsMissOnlyIfRagged` | `Spec => []MissingIdsOnlyIfRagged` |
| `RowsAreAnswers` | `Spec => []IntermediateExact` |
| `SumsAreSQL` | `Spec => []RegularResult` |

The last two have the condition `irregular = {}` of their properties: the six shortcuts of section 2
are all that the proof has to exclude.  `RegularResult` has `AllMentioned` besides.

*The matrix by its cells.*  Every operation of `Matrix` is described by what it does to
`Cell(m, i, c)`, the tuple of row i in column c, where rows beyond the last have none:
`SetColumnIs`, `ReplaceIs`, `FinalizeIs`, `SpaceIs`.  With that nothing depends on how many rows
`matrix_create_space` has allocated.  `MatchesIs` does the same for the merge of `mx_join`: its
positions are those of equal keys, each pair once.  It is an induction over the steps of the merge,
from the runs at which it stands (`RunsMeet`).  `SortingsIs` says that a sort is a permutation in
order.

*The engine's invariant* `EngineInv` has four parts.  `ListInv`: the predicates executed and those
left are the query's, filters in front; the sort of the joins keeps them by `MergesortFor` of
`ListSortProofs`.  `PhaseInv`: what `empty`, `sums` and the phase say of each other.  `MatrixInv`: no
column has a gap, every id is one of its relation, and a column that is marked has the keys of the
attribute of its mark, in order (`Marks`); joins and filters keep that since they take rows in the
order in which they are, each perhaps several times (`KeepGood`).  `RaggedInv`: until a relation is
loaded beside others the columns have equally many rows, so that every row in use has an id for
each relation loaded.  `MarksTruthful`, `MissingIdsOnlyIfRagged` and `TypeOK` follow.  `MergesInOrder` needs to know besides where a mark can be
without its rows: unless `forgotten` or `ragged` has happened, a column that is marked has
rows whenever any column has (`MarkedInv`), because a mark is set for a column that is then filled (`JoinedFilled`), filters and
joins within the matrix take rows from all columns alike (`ThinnedFilled`), and before the first
predicate there are no marks (`UnmarkedFirst`).

*Exactness.*  `Exact(d, m, J, R, n)` says that the relations J fill n rows of m and no other is
loaded (`Fills`), that every row satisfies the predicates R (`Sound`), that every choice of rows
of J that satisfies R is a row (`Complete`), and that no two rows are the same choice (`Distinct`).
`ExactInv` is that for the predicates executed and their relations.  A first filter makes it so
(`FreshExact`), a filter on a new relation multiplies (`MultipliedExact`), a join within the
matrix thins out (`ThinnedExact`), a join with a new relation extends (`JoinedExact`), and a sort
of one column keeps it unless rows were torn (`ShuffledExact`).  Since the rows are a list of the
answers without repetition, `IntermediateExact` is the same thing (`ChosenRows`).

*Sums.*  The engine adds over the rows, SQL over the set of answers.  A sum over a finite set is a
CHOOSE of a recursive function: `SumIsFold` and `FoldTotals` show that it is the total along any
enumeration of the set, so that `SameSum` moves it from the set to the rows.  `SumsInv` has it for the projections
so far.  A query whose matrix is empty and which has stopped early has no answer at all, since a choice
that satisfies all predicates satisfies those executed (`AnswersLess`).

### Reading and lists

`QueryInputProofs` is about inputs of any length, any files, predicates and relations in any
number, and any `MaxPath`, `MaxQuery`, `PageWords`, `IntValues` and `WordValues`.
`InputAssumption` asks that the numbers are positive (a `fgets` of one character reads nothing),
that `WordValues` is a multiple of 8, the bytes of a word, and the fields of a header are below it,
that files have a size, and that every input is `WellWritten`: between the two bars of a line
there are predicates, and in front of them relations, as `query_init` takes it for granted.

| theorem | says |
|---|---|
| `Invariance` | `Spec => []ReadInv` |
| `BatchesRead` | `AllAnswerable => (Spec => []BatchesAsWritten)` |
| `RelationsFound` | `Spec => []RelationsInPlace` |
| `MappedTail` | `Spec => []OnlyTailUnmapped` |
| `PredicatesRead` | `Spec => []PredicatesAsWritten` |
| `ListsLinked` | `Spec => []DoublyLinked` |
| `SortNodesIs` (`ListSortProofs`) | `nodelist_mergesort` turns a chain of nodes of any length into a chain of the same nodes, linked both ways, in the order that the sort on sequences gives, and touches no other node |
| `JoinsSorted` | `Spec => []JoinsInOrder` |
| `FreedOnce` | `Spec => []NodesFreedOnce` |
| `TypesKept` | `Spec => []TypeOK` |

`AllAnswerable` is a hypothesis of `BatchesRead`: behind "done" every line that ends with a
newline is `F` or has three parts.  Without it `sscanf` leaves a string unwritten, and there is
nothing to say about what the program does next.  It speaks of the lines as they are written, not
of those that `fgets` makes of them: that a line which is too long is mistaken for two, or cut, is
excluded by the property itself (`AllWhole`), line by line.  TLC evaluates it for the inputs of
`query_input` (`LinesAnswerable`).

*Lists.*  `Linked(l, s, D)` says that the nodes of `l` are linked in the order `s`; it describes
`prev` between head and tail only and says nothing of `prev` of the head, which `list_add_start` and
`list_add_end` set differently.  `AddedAtEnd` and `AddedAtStart` turn an insertion into an append
and a prepend to `s`, `WalkIs` and `GetIs` say what a walk along `next` finds.  By induction over the
predicates of a line (`ListBuilt`) the order is the one that `PlaceAmong` counts out: a comparison
of columns moves none, another predicate moves all by one (`PlacesMove`).  A line may be cut
anywhere by the limit, so that the parts of a query are known only from what `fgets` took
(`LineIs`, `QueryLineIs`), and what it leaves is well written again (`LessIsWellWritten`).

*Relations and queries.*  `ReadInv` is inductive: the node of a relation has the number of its line
(`RelInv`), and a query is what `query_init` made of its line, except that `Execute` may replace
its list (`BatchesInv`); of that one it says that it is linked and has what the sort on sequences
makes of the predicates of the line (`Reordered`).

*The sort.*  `ListSortProofs` has it twice.  On sequences `nodelist_mergesort` is a function
that is recursive over pairs of sequences and over sequences; that it exists is the lemma
`Recursion`, by induction over the length, from which `MergesortIs` gives its equations and
`MergesortFor` says that it does not matter of which set the predicates are.  `SortInOrder`: its
result is in order.  On nodes a state of the two loops of `merge` is described by three sequences, the
nodes that are behind `prev` already and the rest of both chains (`Now`); what one iteration takes
(`TakenOne`) is what the merge on sequences takes, ties included (`MergeTakes`), and every iteration
leaves the nodes outside of the three alone (`Kept`).  `MiddleIs` says where the two
pointers of `split` are when the faster one is at the end.  The recursion is over the depth of the calls
(`NodeSortExists`), so that `SortNodesIs` is an induction over a number.  `Execute` then puts the sorted chain behind
the filters that have run: `tail` is stale, the chain is not (`WellThreaded`, `ListsThreaded`).

*The mapping.*  `MappedTail` is arithmetic about `rel_init`: if the size does not wrap, `data_size` is the size
(`WrappedIs`), and the pages that hold it reach within two words of its end.  Of a size that wraps nothing is
proved.

*The release.*  `NodesFreedOnce` needs to know what has been freed, which is what the way through the
lists says.  `Lists` has them by their places, `BehindOrder` says that main comes to one place after the other, and
`Route` that a walk along `next` meets every node of a list once.  `Freeing`: the nodes freed are all those of the
lists in front (`FreedBefore`) and of the current list those in front of the node in its chain (`FreedOf`).
A step of `list_free` frees the next one of the chain (`FreeOne`), which by `NotFreed` was not freed before, and at the end
of a chain goes on to the next place (`FreeOther`) or has freed all (`FreeLast`).  Meanwhile queries work.
`FreeInv` says that main has yet to come to the list of every query that is running (`RunningLater`); so the
list that a sort changes is one of which nothing is freed (`FreeingSame`), and a query that begins changes none
(`WorkLists`).  `FreeInv` is inductive together with `ReadInv`.

*Batches.*  `LinesInv` adds to `ReadInv` where in the input the program is: `stdin` is the rest of
an input behind a newline if all lines were whole (`SourceInv`), and "done" has been read
(`DoneInv`).  Then the next line is one of the input's (`RestFollows`), and by `AllAnswerable` it is
`F` or a query (`Answered`).  Whether a batch is open or one has to be opened, its closing `F` stands
behind the lines so far (`OpenedClosed`); `F` makes that true, and a query comes between
(`QueryWritten`).  `FlattenSeq` is a CHOOSE of a recursive function, whose values the lemmas
`FlattenIs`, `JoinsExist` and `FlattenMore` establish by induction.

### What is only model-checked

The liveness properties, the fairness half of the refinement (`ImplementsPool`) and
`OnlyStopHangs` (it speaks of ENABLED): liveness under fairness and ENABLED are beyond the provers
used here.

Induction over data with a predicate as parameter is not available; where a proof needs one
(`ShiftedSteps`, `RunningSumIs`, `ListBuilt`, `FlattenIs`, `Recursion`, `NodeSortExists`,
`MatcherExists`, `FoldExists`) it is over a set of numbers
(`NatSetInduction`), from the fact that a set of natural numbers has a least one.  For
the same reason `PredicateOrder`, `ListSort` and `Matrix` write their recursion over pairs of sequences, over
the depth of calls and over pairs of positions, and not over functions of several arguments, which `tlapm` does not know.

## 5. What is not modelled, and why

* The vector: no caller in the program.
* Printing, headers, names of tables: I/O without influence on control.  What characters
  make a token is left out of `QueryInput` for the same reason.
* The sequential main loop of the split files and the test and demo programs: the
  functions they call are modelled.
* `table_insert` of a new table when the last one of a join's result is full: the result
  is the concatenation of its tables.
* 64-bit wrap of sums and sums of 0, `1 << n` in `nearest_power_of2` beyond 2^30 rows: out of
  TLC's reach, listed as hazards in `PROJECT.json`.
* `realloc` or `malloc` returning NULL: where the code looks at it, it gives up.
* What happens after main and a query have met at a list, and the lists of projections, queries and
  batches (section 2, `QueryInput`).
* The order of evaluation of `i = i->prev->next = nodelist_mergesort(...)` (1423) is
  the compiler's; the model takes the one gcc chooses.

## 6. Plan

Done, in order of importance: (1) scheduler, queue, abstract pool, inductive
invariant and its theorems; (2) main program and memory, with theorems for one-query
batches; (3) matrix and query engine against SQL, with theorems for the rows and the sums of any
query; (4) sorts and merge, alone and composed, with
theorems for quick sort, the merge, a pass of the radix sort and the whole sort-merge join; (5)
lists and reading, up to the release of the lists, with theorems for all that is read; (6) the
refinement of the pool, proved.

Next:

1. Databases and queries of `engine_queries` with sums that wrap at a small width.
2. The refinement that is still implicit between the modules: that `Sortings` and `Matches` of
   `Matrix` are what `RadixSort` and `MergeJoin` compute is stated by their theorems in the same
   words (sorted permutation, pairs of equal keys once), not by an INSTANCE.
