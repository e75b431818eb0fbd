# MaestroCore in TLA+

MaestroCore is a C library for embedded services: a thread pool, a cooperative
scheduler, an HTTP client over TCP and TLS, and the utilities they need. This
directory holds TLA+ modules of its core, the TLC configurations that check
them on small instances, and TLAPS proofs of the safety of the pool, the list, the
scheduler, the HTTP client and the transport for instances of any size, and of the
URL parser and the timeout for arguments of any size. `PROJECT.json` lists
components, runs, the source lines behind every definition, the mutants that show
each property can fail, the findings, the hazards and the theorems.

    tlc -workers 2 -config PoolSafety.cfg MCThreadPool     # one run
    tlapm ThreadPoolProofs.tla                             # one module of proofs

## 1. The system

| Part | State | Operations | Used by |
|---|---|---|---|
| thread pool (`thread_pool.c`) | queue, `active_tasks`, `stop`, a mutex, two condition variables, the threads | `tp_init`, `tp_task_add`, `tp_wait`, `tp_dispose`, the loop `tp_worker` | applications |
| linked list (`linked_list.c`) | head, tail, count, nodes with links both ways | create, add, remove, items_dispose, destroy | the pool's queue, URL queries and headers |
| scheduler (`scheduler.c`) | one global table of slots | init, create/destroy task, `scheduler_work`, task count, dispose | HTTP clients, the main loop |
| HTTP client (`http_client.c`) | a state machine with a receive buffer, a decoded body, counters, a deadline | initiate, get/post, blocking get/post, taskwork, dispose | applications |
| HTTP parser (`http_parser.c`) | none (pure, allocating) | requests, responses, URLs, headers, line ends | HTTP client |
| transport (`transport.c`) | TCP or TCP + TLS | init, finish_connect, read, write, dispose | HTTP client |
| TCP (`tcp_client.c`) | a descriptor, buffers | init, init_ptr, blocking_init, connect_step, finish_connect, read, write, realloc_data, disconnect, dispose | transport, applications |
| TLS (`tls_client.c`) | an mbedTLS session | init, handshake_step, read, write, dispose | transport |
| global CA store (`tls_global_ca.c`) | one parsed chain and a flag | init, get, dispose | TLS, applications |
| configuration (`config_handler.c`) | none | two readers of `key=value` files | applications |
| time (`time_utils.c`) | none | calendar conversions, floors of the present time, the monotonic clock | HTTP client, applications |
| files, log (`file_utils.c`, `file_logging.c`) | a log file pointer | list and count by extension; open, write and close the log | applications |
| curl wrapper (`curl.c`) | a buffer | init, get_response, dispose | applications |
| strings, JSON, status table | none | | everything |
| CA bundle (`tls_ca_bundle.c`) | data | | global CA store |

**How the parts interact.** The pool stands on its own: application threads and
worker threads share one object under one mutex, and task functions may submit
further tasks. The HTTP side is single-threaded and cooperative:
`scheduler_work` loops over the slots and calls `http_client_taskwork`, which does
one step of one client; that step may call the application's `on_success`, which
may start and dispose of other clients while the loop is in progress. The client
calls the transport, which calls TCP and TLS; results come back as return values
*and* as `errno`, and the client uses both. `http_blocking_get/post` drive the
same step functions from a loop of their own, with a timeout.

**What is hard.** Wake-ups on two condition variables (which thread a signal
reaches, a signal nobody hears, spurious wake-ups); shutting down while tasks run
and submit others; a thread creation that fails half way; callbacks that change
the table being looped over; a response cut at any byte; partial writes and
retries; a state that is re-entered after more was read; `errno` that outlives
the call that set it; closing what was and was not opened. `hazards` in
`PROJECT.json` lists them with their lines.

**What makes each part correct.**

* Pool: every accepted task runs exactly once, in order of acceptance for the
  start; at most `max_threads` at a time; no worker sleeps beside work; `tp_wait`
  returns when and only when all is done; `tp_dispose` drops nothing, frees the
  pool last, and returns.
* List: it is a sequence; both directions agree; freed nodes are unreachable.
* Scheduler: slot and handle agree; a pass leaves no one out; a task count of 0
  means all requests are over; every slot comes back.
* HTTP client: the body is handed over whole and once, or an error; the request
  goes out once; a good response on a good network arrives; every request ends.
* Transport: success means connected, and secured for https; every descriptor
  opened, and no other, is closed; connecting comes to a decision.
* CA store: no session is set up without the chain its peer is checked against.
* Parser: what is taken is taken whole, in the only way it can be read, and what
  cannot be read is refused.
* Configuration, time, files, log, buffers: the result of a call is what the
  arguments mean, including at the limits of the buffers and integers used.

## 2. The modules

### TaskService and ThreadPool

`TaskService` is the abstract specification: a sequence of pending tasks, a set
of running ones, a set of finished ones, and a closed flag. It has no threads.

`ThreadPool` is the code. A critical section of the mutex is one action, since
everything it touches is touched by others only under the same mutex; what runs
outside is an action of its own. `pthread_cond_wait` ends an action: the thread is
`blocked` (workers) or `wait_blocked` (clients) until `Signal`, `Broadcast` or
`SpuriousWakeup` sends it back to evaluate its loop condition again.

| Model | Code |
|---|---|
| `queue`, `active`, `stop` | `Pool->queue` (its items), `active_tasks`, `stop` |
| `pool` | the life of the `Thread_Pool` object |
| `pc`, `cur` | the program counter of each thread, and its local `Task` |
| `st` | what became of each submission (history for most values) |
| `InitCreate`, `InitDone`, `InitFail`, `InitJoin` | `tp_init` |
| `WorkerWait`, `WorkerExit`, `WorkerTake`, `WorkerSpawn`, `WorkerRun`, `WorkerCallback`, `WorkerFinish` | `tp_worker` |
| `AddCall`, `AddCommit`, `AddRefuse` | `tp_task_add`, called by a client |
| `WaitCall`, `WaitBlock`, `WaitReturn` | `tp_wait` |
| `DisposeCall`, `DisposeStop`, `DisposeJoin`, `DisposeFree` | `tp_dispose` |

Two rules for callers are built in, because the code cannot work without them:
one thread, the `Owner`, creates and disposes of the pool, and it disposes only
when the other clients have stopped using it (`Leave`, `DisposeCall`). That no client
is inside a call when the pool is freed rests on this rule; that no worker is, on the
code. Tasks do not call `tp_wait`. `InitDone` writes `active_tasks` and `stop` without the mutex while
workers run; it writes the values they have, so no outcome depends on the race.

### ItemSequence and LinkedList

`LinkedList` follows the pointers: `head`, `tail`, `count`, `next`, `prev`, and
the set of allocated nodes. A node may be reused after it was freed, with
whatever its links held. `ItemSequence` is a sequence of entries with append and
removal; `LinkedList` implements it, which is why `ThreadPool` may use a sequence
for the queue.

### Scheduler

`tasks` is the slot table, `handle[c]` the pointer a client keeps into it, `i` the
loop variable of `scheduler_work`, `calling` the client whose `on_success` runs.
While a callback runs the application's actions (`Initiate`, `InitiateFails`,
`AppDispose`, `scheduler_dispose`) are enabled in the middle of the loop. The clients
are those of `http_client.c` with the states between connecting and the complete body
as one (`HttpClient` has them all). As in the code, nothing keeps the application from
starting a client that is in use, its own in a callback, another one's, or any from the
main loop: the handle is overwritten, by a new slot or, if the start fails, by NULL,
and the old slot is `lost`. After `scheduler_dispose` the clients keep their handles,
which are `stale`: disposing of such a client clears the slot for whoever is in it by
then. `open`, `lost`, `stale`, `thrown` (requests that will have no outcome) and
`unserved` are history variables.

### ClientLife

What `Scheduler` assumes of a client: five states and whether a slot is held.
`HttpClient` implements it (`ImplementsClient`, with `Life` as the mapping), so
that the two models of the same client cannot drift apart: no call of
`http_client_taskwork` skips a state, and the slot is held until the last one.

### HttpMessage and HttpClient

`HttpMessage` says what the text of a response means: what the client reads from its
head and from a chunk size (`IsChunked`, `LengthOf`, `ChunkSize`), and how a response
is laid out (`ResponseOK`). A response carries its text (`bytes`) with its `body`, what
the peer sends after its end (`after`), whether it is well formed (`valid`), where the line of the last chunk ends (`last`)
and, if it is chunked, what is left of the body at each place where a chunk begins
(`left`). `ResponseOK` ties these to the text: at each place of `left` there is a
chunk with data, which takes its data off the front of what is left, the last
chunk, with nothing left, or something that is no chunk at all, in a response that
is not valid. `MCHttpClient` computes `left` from the text of its responses (`Laid`).

`HttpClient` is one client over its whole life, one action per step function, for
both drivers (`blocking`). A response is a sequence of tokens in which CR and LF are tokens of
their own, so that a piece may end between them, and in which body data may look
like a separator or like a chunk size. `network` says what the surroundings may
do: fail, cut after the last chunk's size line, and how much a read returns. The size of
a chunk goes through `(int)` (`AsInt`), with `MaxInt` for `INT_MAX`; a negative one is
refused by `realloc`, or wraps around and ends the model's behaviour there. The clock is the flag `due`: whether `next_retry_at` has come.

Abstracted: the text of the request, status line and header syntax beyond what
the client decides by, buffer growth (a failed allocation is a `Faulty` branch of
each step), milliseconds, and three details of the line of a chunk size: the array
`line[48]` it is copied to without a limit, the sign and the `0x` that `strtoull`
takes, and that `strtoull` stops at 2^64 - 1. TLS reads and writes appear as the results they
translate to in `transport_read` and `transport_write`.

### Transport

Connecting and closing, with the loops inside `transport_init` unrolled as states
(`TRYING` an address, `POLLING` it, blocking `HANDSHAKE`). `errno` is a variable,
because `http_client_worktask_waiting_connect` decides by it; `fd` tells the
descriptor field from the socket (`sockets`), because a zeroed field is a valid
descriptor. `HandshakeResults` models `mbedtls_ssl_handshake` and is external.

A mode also says who connects (`by`): the HTTP client, an application that calls
`tcp_client_init` and then `tcp_client_connect_step` (and `tcp_client_disconnect`),
or one that calls `tcp_client_init_ptr`, which frees a client whose connection is
still being made (`PendingIsFreed`). `ca` is the flag of the global CA store; it is
loaded and unloaded at any time, except that the chain of a session in use is not
unloaded, which is the application's to see to.

`Scheduler`, `HttpClient` and `Transport` are three views of the HTTP side at
different grain: `Scheduler` sees a client as a few states, `HttpClient` sees the
transport's results, `Transport` sees where those come from.

### Utilities

`HttpParser`, `ConfigHandler`, `TimeUtils`, `FileUtils`, `FileLogging`, `TcpData` and
`CurlWrapper` hold one operator per function, from the arguments (and the
allocations or system calls that fail) to the result; `Text` has the searching and
trimming they share with `HttpClient`. Loops of the C code are recursive functions
or folds. Behaviour the code leaves undefined has a result of its own
(`"undefined"`): `strcmp` with a NULL phrase, an int that overflows, a `size` that
nobody has set.

`Utilities` puts them behind one variable, `call`: the call in progress with its
arguments and its result. A property names the functions of one part and says what
the result must be by a definition that does not follow the code: `UrlExact` by all
ways to cut a URL into four parts, `RequestLineExact` by putting the parts together
again, `ResponseHeadExact` and `ConfigExact` by what the text was made from,
`CalendarExact` by counting years and months one after the other.

| Function | What the property says beyond the normal case |
|---|---|
| `http_parser_url` | never two readings; parts that fill their arrays, colons in paths |
| `http_parser_first_line` | a parameter without `=` becomes part of the next key; the last one is dropped |
| `http_parser_response_firstline` | undefined only for a status without a standard phrase |
| `config_get_value`, `config_values_get` | the first value of a key, and the last; the second loses memory only if a key is repeated. Both read lines into a buffer of 512 bytes, the second too, of which `config_handler.h:30` says "no fixed buffer sizes"; the property is about lines that fit |
| `timegm` and the conversions | right until an int overflows, from 1901 to 2038, but for a day too many in the years before 1969 other than 1965, 1961, 1957...; offsets are read in whole hours; a printed time is read back as itself only for UTC |
| the timeout of a blocking call | exact while the clock fits an int, always expired from then on |
| `list_filenames_with_ext` | no name outside its array; NULL exactly if the directory cannot be opened or an allocation for the names fails; the NULL after the last name, which `file_utils.h:24` promises, is missing exactly if the allocation for it fails (`file_utils.c:243`) |
| `count_files_with_extension` | counts regular files with the extension, those with no dot before it, and entries of unknown kind |
| `log_init`, `log_close`, `log_write` | which file gets a line; a file stays open exactly if `log_init` is called over it |
| `tcp_client_write`, `tcp_client_realloc_data` | a prefix, nothing twice; appending works if the client was made in zeroed memory |
| `curl_get_response` | nothing of an earlier response, also after a failed `curl_init`; on failure the handle is lost, unless `curl_easy_init` gave none |

### The proof modules

`ThreadPoolProofs`, `PoolServiceProofs`, `LinkedListProofs`, `SchedulerProofs`,
`HttpClientProofs`, `TransportProofs` and `UtilitiesProofs` hold the theorems of
section 5. `TextProofs` has what they need to know of texts: least elements, searches,
and parts of a text.

## 3. The runs

| Run | Instance | Shows |
|---|---|---|
| `pool_safety` | 3 workers (symmetric), 2 clients, both waiting, 4 tasks of which one is submitted by another, creation may fail | `TypeOK`, `WorkConserving`, `NoTaskDropped`, `NoUseAfterFree`, `WaitMeansIdle`, `ImplementsService` |
| `pool_liveness` | 2 workers, 2 clients of which one waits, 3 tasks | `AcceptedRuns`, `WaitReturns`, `DisposeReturns` |
| `pool_two_waiters` | two clients in `tp_wait` | **violation** of `WaitReturns` |
| `pool_init_failure` | creation may fail | **violation** of `InitReturns` |
| `linked_list` | 4 nodes, 2 items | `TypeOK`, `BothWays`, `ImplementsSequence`, `ClearEnds` |
| `scheduler` | 3 clients, 2 slots, 3 starts | `TypeOK`, `SlotsMatch`, `EmptyMeansDone`, `PassIsComplete`, `SlotComesBack` |
| `http_client` | 17 responses, both drivers, a faulty and a gentle network, 2 uses | `TypeOK`, `BodyExact`, `RequestIntact`, `ResultTellsBody`, `Delivers`, `Released`, `Returns`, `ImplementsClient` |
| `http_split_last_chunk` | a chunked response, a network that only cuts | **violation** of `DeliversAnyCut` |
| `transport` | 3 addresses, all modes | `TypeOK`, `NoSocketLeak`, `ReadyIsSecured`, `ReadyIsConnected`, `OthersSettle` |
| `transport_stale_errno` | https from the scheduler | **violation** of `Settles` |
| `transport_bad_url` | URLs that are refused | **violation** of `OnlyOwnDescriptors` |
| `utilities` | some 190,000 calls, see below | `UrlExact`, `RequestLineExact`, `ResponseHeadExact`, `ConfigExact`, `CalendarExact`, `DeadlineExact`, `FilesExact`, `BuffersExact` |

**Why the bounds are enough to be interesting.** Pool: the races are between a
sleeping worker, one on its way to the mutex and one that is busy, so three
workers; four tasks fill the queue beyond the awake workers and let a task
arrive from a task after `stop`. Scheduler: three clients contend for two slots,
so the table is full at times and slots change hands within a pass; three successful
starts let a client be started again while it is in use, and take two slots, and let a
third client get the slot that a stale handle of another points to (failed starts are
not counted). HTTP client: the second use of a client finds
whatever the first left; reads of five tokens cut every response in several ways,
and `Arrive` cuts it in all others; `MaxLine = 5` is reached by one response, and
`MaxInt = 3` exceeded by two, whose chunk sizes become negative and too small. Three
responses are followed by more than they announce.
`MaxIdle` bounds how many writes of 0 bytes are followed: the code has no limit
for them. Transport: three addresses let the first fail in one way, the second in
another and the third succeed; the run has no further bound.
Utilities: the arrays are small (`SchemeSize`, `HostSize`, `PortSize`, `PathSize`,
`LineSize`, `FirstCapacity` stand for 6, 128, 6, 512, 512 and 8), so that short texts
and lists are below, at and above each limit; every text up to four or five
characters of a small alphabet with all the separators is tried, after each prefix
that matters. `IntMax` is the real one for dates, which run from 1901 to 2400 with
the last second that fits an int and the first that does not, and with years before
1969 that the divisions of C get right and wrong; for the milliseconds
of the clock a small width (`ClockMax`) lets every pair of times be tried on both
sides of the limit. Logs are sequences of up to five calls, sends of up to four
answers.

One mode of `transport` is https from the scheduler where a non-blocking `connect`
returns 0 at once: `transport_init` then reports success without a handshake. POSIX
allows it, Linux does not do it for another host. `ReadyIsSecured` names it as its
exception (`LateTls`).

The largest runs are `scheduler` (237,000 distinct states), `http_client` (209,000, with
four temporal properties, some three minutes) and `utilities` (187,000).

**Fairness.**

* Pool: weak fairness for each worker, for the steps of a call in progress, and
  for `tp_init` and `tp_dispose` once called: threads are scheduled, the mutex is
  eventually obtained, task functions return. Nothing obliges a client to make a
  call. A task function that never returns would break it.
* Scheduler: the application keeps calling `scheduler_work` and callbacks return
  (weak). No outcome is assumed: nothing bounds the life of a scheduled request, not
  the code either, which can keep a client in a dead handshake for ever (finding 4).
  `SlotComesBack` excepts a client that works for ever instead.
* HTTP client: the driver goes on, time passes, what is sent arrives (weak); a send that
  is possible again and again succeeds (strong); the peer closes when it has answered,
  as the request's `Connection: close` asks. Nothing is assumed of a connect: a client
  that stays in `WAITING_CONNECT` for ever, by a peer that does not answer or by
  finding 4, is excepted in `Delivers` and `Released` (`NeverConnects`). A blocking
  client connects within one step and needs no exception.
* Transport: the driver goes on, an attempt to connect is answered (weak), and a
  handshake that is tried again and again leaves the state "wants more" (strong).

`CHECK_DEADLOCK FALSE` stands where the system may really stop: after
`tp_dispose`, after the last use of a client.

## 4. What the runs found

1. `tp_wait` with two callers: each finished task signals `task_finished` once.
   When the last signal reaches one waiter it returns, and the other is never
   woken (`thread_pool.c:62`). One waiter is always woken: `WaitReturns` holds in
   `pool_liveness`.
2. `tp_init` after a failed `pthread_create` joins workers that nobody told to
   stop (`thread_pool.c:111`).
3. The last chunk: its size line is consumed before the end of the trailers is
   known to be there; after reading more, the state starts over and takes the
   CRLF for a chunk size (`http_client.c:663` to `715`). Any other cut is handled.
   What is taken for a chunk size may even be one: trailers that begin with a
   hexadecimal digit ("Date", "Digest") and arrive after that line are read as chunks
   and become part of the body. `BodyExact` excepts the responses that have such
   trailers (`Misleading`).
4. A TLS handshake that fails for good leaves `errno` alone, and the
   `EAGAIN` of the step before makes the client wait for ever
   (`http_client.c:284`). So does a session that cannot be set up, for want of a
   CA chain for example, with the `EINPROGRESS` of `connect`.
5. A client whose URL is refused disposes of a zeroed transport and closes
   descriptor 0 (`tcp_client.c:372`).

Other behaviour at a limit is stated by the properties that hold, in the form "so,
except exactly when": a plain scheduled client is told `SUCCESS` while its connect
is in progress, because `SO_ERROR` is still 0 (`tcp_client.c:356`,
`ReadyIsConnected`); a scheduled https client whose connect succeeds at once goes on
without a session (`transport.c:99`, `ReadyIsSecured`); `tcp_client_init_ptr` loses the
socket of a pending connect (`tcp_client.c:94`, `NoSocketLeak`); a client that is started
while it is in use loses its slot, and in its own `on_success` the new request as well
(`http_client.c:41` and `920`, `SlotsMatch`, `EmptyMeansDone`); after `scheduler_dispose`,
disposing of an old client takes the slot of a new one (`scheduler.c:48`, the same);
blocking calls with a timeout end at once after 2^31 ms of uptime (`http_client.c:164`,
`DeadlineExact`); dates stop in 2038, and most years before 1969 are a day late
(`time_utils.c:27` and `37`, `CalendarExact`); trailers end up in a body
(`http_client.c:663`), a chunk of 2^31 bytes or more is taken for one of another size
(`http_client.c:718`), and what follows a response with Content-Length, or one whose only
chunk is the last, is handed over behind its body (`http_client.c:873`, all three
`BodyExact`); a list of file names may lack the NULL at its end (`file_utils.c:243`,
`FilesExact`).

## 5. The proofs

Each component has its proofs in a module of its own. A theorem with a property in
its statement says for every value of the constants what a run shows on one
instance.

| Module | Theorem | States |
|---|---|---|
| `ThreadPoolProofs` | `Invariance` | `Spec => []Inv`, the inductive invariant |
| | `TypeCorrect` | `[]TypeOK`: `active_tasks` stays between 0 and the number of workers |
| | `PoolFreedLast` | `[]NoUseAfterFree` |
| | `NothingDropped` | `[]NoTaskDropped` |
| | `NoLostWakeup` | `[]WorkConserving` |
| `PoolServiceProofs` | `Bookkeeping` | `[]Book`: which task is where |
| | `WaitReturnsIdle` | the action property `WaitMeansIdle` |
| | `PoolImplementsService` | `Spec => Service!SSpec` |
| `LinkedListProofs` | `Invariance`, `TypeCorrect` | `[]Inv`, `[]TypeOK` |
| | `ListIsSound` | `[]BothWays` |
| | `PointersImplementSequence` | `Spec => Queue!QSpec` |
| `SchedulerProofs` | `Invariance`, `TypeCorrect` | `[]Inv`, `[]TypeOK` |
| | `SlotsAndHandles` | `[]SlotsMatch` |
| | `NobodySkipped` | `[]PassIsComplete` |
| | `ZeroMeansDone` | `[]EmptyMeansDone` |
| `HttpClientProofs` | `Invariance`, `TypeCorrect` | `[]Inv`, `[]TypeOK` |
| | `RequestSentIntact` | `[]RequestIntact` |
| | `ResultIsTrue` | `[]ResultTellsBody` |
| | `HandedOverOnce` | `[](Len(out) <= 1)`, the first part of `BodyExact` |
| | `BodyIsExact` | `[]BodyExact` |
| | `ClientImplementsLife` | `Spec => L!Spec` (`ClientLife`) |
| `TransportProofs` | `Invariance`, `TypeCorrect` | `[]Inv`, `[]TypeOK` |
| | `SocketsClosed` | `[]NoSocketLeak` |
| | `ReadyMeansConnected` | `[]ReadyIsConnected` |
| | `ReadyMeansSecured` | `[]ReadyIsSecured` |
| `UtilitiesProofs` | `DeadlineIsExact` | `[]DeadlineExact` |
| | `UrlIsExact` | `[]UrlExact` |

### What is assumed

Only the named assumptions of the models, which TLC evaluates on every run.

* `PoolAssumption`: a finite non-empty set of workers; clients, tasks and `Child`
  are any.
* `ListAssumption`: NULL is no node, and there is something to put into a list.
* `SchedulerAssumption`: the table has at least one slot.
* `HttpAssumption`: a request is not empty; a response is a non-empty text, and what
  it is labelled with (`body`, `after`, `valid`, `last`, `left`) is what its text says
  (`ResponseOK`). A text with no head, a broken chunk or the wrong length is a response
  too, only not a `valid` one. Anything may follow the end of a response. A read
  returns any number of tokens up to a bound of at least one.
* `TransportAssumption`: who connects and how, any number of addresses.
* `WidthAssumption`, `ClockAssumption`: the clock has more than twice the
  values of an int (64 and 32 bits in the code), the uptime stays far below its end, and a
  timeout is an int.
* `UrlSizes`, `UrlAssumption`: the arrays of `URL_Parts` have a size, and a URL is a
  text.

### The thread pool

`TypeOK` is not inductive: that `active_tasks` does not go below 0 needs to know
that it counts the workers that hold a task. `Inv` is the conjunction of

* `Shape`: types without the bound, and that a busy worker and an adding client
  have a task;
* `Phase`: what the owner's position says of the pool, of `stop`, of the other
  clients (`OwnerPhase`) and of the workers (`WorkerPhase`). Its last conjunct is
  the reason nothing is dropped: while `stop` is set and the queue is not empty,
  some worker is awake or busy. It is preserved because a worker exits only on an
  empty queue, and only a busy worker can add once `stop` is set;
* `Counted`: `active = Cardinality(Busy)`.

Each part has its own step lemma, with one step per action; what a signal does is
stated once (`TaskAddedSignal`, `TaskFinishedSignal`) and cited. `NothingDropped`
follows because at `drain` all workers have exited, so the queue is empty.
`NoLostWakeup` is inductive relative to `Inv`: an action that lengthens the queue
moves a sleeping worker, if there is one, to the mutex; one that takes a worker
from the mutex either shortens the queue or happens on an empty one.

None of this says which task is where, so `PoolServiceProofs` adds `Book`:
`Queued` (the queue has no task twice, and holds exactly the tasks that were
accepted and not taken) and `Held` (what a thread has in hand is in the state that
goes with its position, no two threads hold the same task, and a running task is in
the hands of a worker). `WaitReturnsIdle` needs both halves of it and `Counted`:
`tp_wait` looks at the length of the queue and at a counter, and the property speaks
of tasks. `PoolImplementsService` maps each step to `Accept`, `Start`, `Finish`,
`Close` or a stutter. `Start` needs that fewer tasks run than there are workers
(`RoomToStart`): by `Held` each running task has a worker of its own, and the worker
at the mutex has none. `Accept` needs `Held` too: a task that is being added is not
yet in the service.

### The linked list

`BothWays` is not inductive in itself, and it walks the list with recursive
functions, about which every operation would need an induction. `Inv` says instead
that there is an enumeration of the nodes (`\E at : Chain(at)`): injective, with
`live` as its range, `head` and `tail` at its ends and `next` and `prev` between
neighbours. Each operation is proved by giving the enumeration after it: `Extended`
adds a place, `Shortened(k)` closes the gap at place `k`, and the four ways to take
out a node (only, first, last, in the middle) differ only in which of its ends the
gap touches. That the walks visit the enumeration (`ForwardIsChain`,
`BackwardIsChain`) is shown by the first place at which they would not: the place
before it is right, so that one is too.

That argument is the same wherever a recursive function is met, here and in
`HttpClientProofs`: `TextProofs` states it once. `LeastPlace` says that a
non-empty set of natural numbers has a least element, and it takes the place of an
induction, whose library theorems have an operator as a parameter.

### The scheduler

`SlotsMatch` is nearly inductive: `lost` and `stale` are kept so that each of its
equivalences survives a step that overwrites a handle or clears a slot. The others are
not. `Control` says where the loop can be when a callback runs; `Ahead` says that a client not yet served in this pass
sits in a slot that the loop has still to visit, from which `PassIsComplete`
follows at the last slot; `OutcomeDue` says that a client with a request without
outcome holds a slot, from which `EmptyMeansDone` follows. The actions that happen
inside a callback are the hard cases: they change the table under the loop, and
`Ahead` survives because a slot is emptied only with its client leaving `unserved`.

### The HTTP client

`Inv` has three parts. `Driver`: a slot is held only by a scheduled client, a result
is there only for a blocking one, and which states go with which results. `Sent`:
the peer has exactly the first `bytes_sent` tokens of the request, none before the
sending begins and all of them in the states that read. `Handed`: nothing is handed
over before `DISPOSING`, and a blocking client does not get there without a body.
`RequestIntact`, `ResultTellsBody` and `HandedOverOnce` follow at once. For
`ClientImplementsLife` every step function is one step of the client's life or
leaves it alone.

`TypeCorrect` is the longest proof, because the types of the buffers depend on what
the parsers return for every text: a line end lies inside the buffer (`MinOf`,
`BeforeType`), a length and a chunk size are natural numbers (`LengthOfType`,
`ChunkSizeType`), whatever the text is. Its inductive form is `Buffers` and `Others`
beside `Inv`: `pos` stays below `arrived` and `arrived` below the length of the
response.

`BodyIsExact` has an invariant of its own, `Told`, which says how what the client
holds relates to the response:

* `Got`: before and while the client reads, the buffer is the part of the response
  between some place `f` and `pos`, and `At(f)` says which place: the front of the
  response up to `READING_FIRSTLINE`, the end of the status line in
  `READING_HEADERS`, the end of the head in `READING_BODY`. In the chunked states it is
  a place of `left` (`ChunkLine`), where `decoded` followed by what is left is the
  body, or one inside the data of a chunk (`InChunk`). In `RETURNING` the body to be
  handed over is `Right`.
* All that has been handed over is `Right`: a front part of the body and what follows
  it; the whole body at least if the response is valid, and the body alone if it was
  decoded from chunks.

A step of the client searches its buffer, which is a part of the response, while
`ResponseOK` searches the whole response. `BeforeInPart` joins the two: what is found
in a part is found at the same place in the text that the part begins, so that
where a cut falls has no influence on what is found, only on whether it is found
yet. From it follow `StatusFound`, `HeadFound`, `LengthRight` and `LineFound`, one for
each thing the client looks for, and one lemma for each step function. There is no
induction over the chunks: `left` gives each place its own equation. A client that
has consumed the line of the last chunk and then has to read more (finding 3) is at
`last`, which is no place of `left`; that is the second case of `ChunkLine`. `NoChunk`
shows that it cannot find a chunk there, and so fails, unless the response is
`Misleading`. All of `Told` is under `Clear`, the two exceptions of `BodyExact`; where no
chunk is `Oversized` the cast to int is the identity (`AsIntIs`).

### The transport

`Descriptor` ties `fd`, the number of open sockets and the state together; it is what
`NoSocketLeak` lacks to be inductive, because an error path closes what `fd` names
and not what is open. `Reached` says in which states a connection is up. `Session`
says that a session exists only with a CA chain, and that an https request is built
only after the handshake, or, where a non-blocking connect has succeeded at once, with
no session at all (`transport.c:99`); for this it also says that there is no session
before a connection is made.

### The timeout

`DeadlineIsExact` is arithmetic: the cast to int is the value itself up to `ClockMax`
and the value less `2 * (ClockMax + 1)` above it for one more period
(`AsIntValue`), and the unsigned difference of the two times is then either the
time that has passed or a number close to the end of the clock (`RemainderOfNegative`).
`ExpiredValue` joins them. The run has a clock of a few values; the theorem covers
the widths of the code.

### URLs

`UrlExact` compares two ways to read a URL that have nothing in common: the parser
searches for "://", for the first slash and for the first colon, and `UrlReadings` is
the set of all cuts of the text into four parts that are well formed. `UrlParsed` says
where the searches end and what the parser cuts out there (`PartsCut`), `UrlCutIs`
says what a cut is, character by character. `OneCut` is the heart of it: the host has
neither colon nor slash and the port only digits, so a cut can neither end the host
before the first of the two nor after it, and likewise the port; there is no cut but
the parser's. `OneReading` adds that the limits of the arrays are the same on both
sides. The theorem covers the real sizes, of which the run has small ones.

### What the proofs changed

Proving `ClientImplementsLife` failed at first on the mapping `Life`: two arms of its
CASE applied to a blocking client in `RETURNING`, so that its value was not
determined (TLC takes the first arm). It is an IF now, with the value TLC took.

`BodyIsExact` failed at the last chunk, in the state after it has read more: nothing
kept what had arrived from beginning like a chunk size. The responses of the run had
no such trailers; with one that has, TLC found the body with trailers in it. The
response is now part of the run, and the case is named in `BodyExact`.

### Only model-checked

* Liveness, which rests on fairness and is beyond this prover: `AcceptedRuns`,
  `WaitReturns`, `DisposeReturns`, `ClearEnds`,
  `SlotComesBack`, `Delivers`, `Released`, `Returns` and `OthersSettle`.
* `RequestLineExact`, `ResponseHeadExact`, `ConfigExact`, `FilesExact` and
  `BuffersExact`: what a fold or a recursive function computes for every input.
  `ResponseHeadExact` also goes through the decimal text of a number.
* `CalendarExact`: the reference counts years and months one after the other.

## 6. Not modelled

mbedTLS, libcurl, cJSON and the vendored test framework; `tls_ca_bundle.c`, which is
one string and makes up 14,070 of the 19,805 lines of the implementation, so that
no model can stand for a large share of the lines; `json_utils.c`, the
reading and writing of whole files, `stringcat`, `strdup`, `parse_string_to_double`
(one library call or one expression each); `http_build_full_response`, which is not
finished; the freeing of parsed requests and responses; `utc_offset_hours` and
`time_is_at_or_after_hour`, which depend on the machine's time zone; two concurrent
calls of `tp_dispose` and `tp_wait` from inside a task (misuse); the overrun
of `line[48]` by the line of a chunk size, its sign and `0x` prefix; the output and arguments of the manual test program.

A blocking `recv` is a step that is not enabled until the peer does something: the
timeout of a blocking call does not reach it, and `Returns` assumes a peer that
answers or closes.

## 7. Plan

Done: `TaskService`, `ThreadPool` and its proofs, `ItemSequence`, `LinkedList`,
`Scheduler`, `HttpClient`, `Transport`; then the parser, configuration, time, file,
log, buffer and curl functions as operators, the CA store and the remaining ways to
connect, starts of clients in use, and `ClientLife` between the two models of the
HTTP client.

Proved: every safety invariant and action property of the pool, the list, the
scheduler, the HTTP client and the transport, the three refinements that carry the
composition (`TaskService`, `ItemSequence`, `ClientLife`), the timeout and the reading
of URLs.

Left, by weight:

1. `BuffersExact`: that `tcp_client_write` sends a front part of its data, by the
   first place at which it would not.
2. `CalendarExact` in parts: the rules of leap years are arithmetic without
   recursion.
