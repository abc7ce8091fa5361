# Highway in TLA+

Highway is a small C library for HTTP servers: a socket and server layer, threads and a
thread pool, a servlet layer that parses requests and buffers responses, and a "boot"
framework with a `main` of its own. This directory holds TLA+ modules of it, the TLC
configurations that check them on small instances, and TLAPS proofs of the properties
that matter most. Paths below are relative to the root of the repository.

## Running it

    tlc -config MCServletConnection.cfg MCServletConnection
    tlapm ServletConnectionProofs.tla

Every `.cfg` belongs to the `MC` module whose name it begins with. The community modules
(`Functions`, `SequencesExt`, ...) have to be on the path.

## Inventory

| component | state | operations | who calls it |
|---|---|---|---|
| sockets, `core/src/hiw_socket.c` | the kernel's | listen, accept, recv, send, "close" (a `shutdown`) | server |
| server and clients, `core/src/hiw_server.c` | `running`, `socket`; a client's `socket` | new, start, stop, accept, delete; recv, send, sendall, delete | boot, servlet threads, the SIGINT handler |
| request reader, `servlet/src/hiw_servlet.c` 449-644, 819-863 | the header buffer, read-ahead, content length remaining | read_headers, recv | the keep-alive loop; the servlet function |
| response, same file 646-722, 865-1113 | flags, status, headers, memory, bytes left | set_status_code, write_header, set_content_length, set_connection_close, flush_headers, write_body_raw | the servlet function; the loop |
| filter chain, same file 268-309, 428-447 | an array of filters | set_filter_chain, next | the loop, each filter |
| keep-alive loop, same file 724-806 | the request and response of one thread | accept, read, call the filters or the servlet function, flush, reuse or close | each servlet thread and the main thread |
| servlet life cycle, same file 243-428 | the list of threads | start, release, delete | boot |
| boot, `boot/src/hiw_boot.c` | `hiw_app_state` | start, signal | `main`, the kernel |
| thread, `core/src/hiw_thread.c` 87-312 | `started`, `func`, the context stack | start, wait, delete, push, pop, find | servlet, pool |
| thread pool, same file 314-758 | a list of workers; per worker a queue and a free list of work memory, a mutex and a condition | new, start, push, delete; worker_main | an application |
| memory pool, `core/src/hiw_std.c` 268-362 | `ptr`, `pos`, `end`, `resize_bytes` | get, reset, resize | request, response, static cache |
| strings and numbers, same file | none | readline, split, trim, toi, uitoc | the servlet layer |
| file traversal, `servlet/src/hiw_file_content.c` | a path buffer | traverse | the static example |
| examples | jc: a map behind a mutex and files; static: a cache filled once | GET, PUT, DELETE; look-up | the servlet threads |

Shared state and who touches it: `hiw_server.running` and `.socket` are read by every
servlet thread and written by whoever stops the server, which may be a signal handler on
top of any thread; the queue of a pool's worker is shared by the pushing threads and the
worker, under the worker's mutex; everything of a request and a response belongs to the one
thread that serves the connection. What makes the code hard is therefore

* the **order of calls** a servlet function makes on a response, with sends that fail half
  way, against what the client was already told;
* the **cutting of the byte stream** by `recv`, and a reader that parses in place;
* **start and stop**: threads in `accept`, threads in `recv`, signal handlers and
  `hiw_servlet_delete` around one `hiw_server`;
* **servlets one after another** on threads of their own and on the main thread, whose
  `hiw_thread` is static and outlives them;
* **pushes, workers and deletion** of a pool;
* in the examples, **views into a cache** that are used after its lock was given back, a
  **process that is killed** while it writes a file, and **pointers into one growing memory**.

The list of hazards in `PROJECT.json` names each of them at its line.

What makes each component correct: the client of a connection always knows where a response
ends and a connection is reused only then (response, loop); a line is parsed as it was sent
and the body starts where the head ends (reader); a stopped server ends, and is freed when
nobody uses it (server, life cycle, boot); what is started is joined, and contexts and filters
nest (life cycle, thread); every job runs once (pool); a document is served whole, and is on
disk (jc); a file is served as it was, under its own uri (traversal, memory pool, static).

## Modules

| module | models | built on |
|---|---|---|
| `HttpExchange` | what a keep-alive connection promises its client (abstract) | |
| `ServletConnection` | response and keep-alive loop of one connection | implements `HttpExchange` |
| `ServletConnectionProofs` | its theorems | `ServletConnection` |
| `RequestReader` | `read_headers`, `hiw_request_recv` and the reset between two requests | |
| `RequestReaderProofs` | its theorems | `RequestReader` |
| `RequestLines` | splitting, trimming and numbers of one line | |
| `RequestLinesProofs` | its theorems | `RequestLines` |
| `ServletServer` | boot, server, servlet life cycle, accept loop and SIGINT | |
| `ServletServerProofs` | its theorems | `ServletServer` |
| `ServletLife` | servlets, their threads, filter chains and contexts, over several starts | |
| `ServletLifeProofs` | its theorems | `ServletLife` |
| `ThreadPool` | the thread pool | |
| `ThreadPoolProofs` | its theorems | `ThreadPool` |
| `FileTraverse` | the directory walk | |
| `StaticSite` | the static example: cache, dynamic memory, sending | extends `FileTraverse` |
| `StaticSiteProofs` | its theorems, of the walk too | `StaticSite` |
| `JsonCache` | the jc example: cache, files, lock, kills and restarts | |
| `JsonCacheProofs` | its theorems | `JsonCache` |
| `MC...` | the small instances | |

All of them follow the POSIX build. Each leaves to the others what they model: a connection
of `ServletServer` is in the state of its socket only, a request in `ServletConnection` has
been read by `RequestReader`, and what a line of `RequestReader` says is the subject of
`RequestLines`. `ServletServer` takes one servlet's threads and server apart, access by access;
`ServletLife` takes these as "may serve, may return" and looks at several servlets and starts.

### ServletConnection

`req` and `resp` are `hiw_request` and `hiw_response` with the fields the calls read or
write; `wire` is what the client has received since its last request; `phase` is the place
in `hiw_servlet_start_filter_chain`.

| action | code |
|---|---|
| `ReadRequest`, `ReadFails` | `read_retry`: the two resets, `read_headers` |
| `RecvBody` | `hiw_request_recv` |
| `SetStatusCode`, `WriteHeader`, `SetContentLength`, `SetConnectionClose` | the calls of the same names, all refusals included |
| `WriteBodyRefused`, `WriteBodyHeadFails`, `WriteBody`, `WriteBodyFails` | `hiw_response_write_body_raw` and the `flush_headers` in it, by how far they get |
| `FinishUnread`, `FinishRefused`, `FinishHeadFails`, `FinishResponse` | from the end of the servlet function to `read_retry` or `read_abort` |

A servlet function is any sequence of calls that ignores their results; filters are part of it.
Every send may fail after any number of its bytes, and the failure either comes back or ends the
process with SIGPIPE, which nothing ignores (`phase = "killed"`). A send may also succeed and
garble the header block: `hiw_client_sendall` starts from the first byte again when the socket
took a part. The client is then lost (`wire.lost`), and so it is when a negative length is
announced, as an `unsigned`; the server goes on, and the model with it. A header is its name,
and response memory is counted in lines. A head that does not fit ends in `phase = "crashed"`:
`hiw_memory_get` (`core/src/hiw_std.c:349`) takes fixed memory for resizable and decrements the
capacity until the `int` wraps.

### RequestReader

The client's bytes are a sequence of cells, each of a kind the parser tells apart (a letter
of the status line, a header letter, a colon, a line feed, a carriage return, a body byte,
a byte of what follows). `buf` remembers for each buffer cell *which* byte of the stream it
holds, so a line put together of the wrong bytes shows (`garbled`). A cell that was not
written yet may look like anything (`junk`). `recv` delivers any non-empty piece that fits.

| action | code |
|---|---|
| `RecvStatusLine`, `RecvNoStatusLine` | the first loop with the parse of the status line |
| `ParseHeader`, `ParseSeparator`, `RefuseHeader` | one line of the second loop |
| `RefuseFull`, `RecvMore`, `RecvFails` | the capacity test and the further `recv` |
| `RecvBody`, `RecvBodyFails` | `hiw_request_recv` |
| `NextRequest`, `NextOutOfStep` | the end of a keep-alive request and the reset at `read_retry` |

The model is the release build (`-DNDEBUG`): the assertion at
`servlet/src/hiw_servlet.c:630` compares `pos` with the free space and would stop a debug
build on ordinary requests. Of a Content-Length header the model keeps what it says of this
stream. The servlet leaves `connection_close` as the request says. After a keep-alive request
whose body was drawn the next request of the stream is read; when bytes of it were received
with this one, the reset drops them and the reader is out of step with the client
(`pc = "out_of_step"`, behind which nothing is modelled). `mixed` records that one
`hiw_request_recv` took bytes from the read-ahead *and* from the socket: the code then puts the
latter over the former.

### RequestLines

Characters, where `RequestReader` has kinds of them: `mem` is one line with its line feed, a
`hiw_string` is a slice of it, and the functions of `core/src/hiw_std.c` are operators on
slices, among them the look of `hiw_string_trim` at the character *behind* a blank string.
`ParseStatusLine`, `ParseHeaderLine` and `ParseNoHeader` call them as `read_headers` does;
`SetContentLength` writes a line as `hiw_response_set_content_length` does, which is then
read. A loop over characters is the place where it stops (`Forward`, `Backward`), and a number is
written by dividing it by ten again and again (`Rest`), as the code does. An `int`
that overflows while digits are read may become any `int`.

### ServletServer

`pc[t]` is the place of thread `t` in `hiw_servlet_start_filter_chain`, `main` the place of
the main thread in `hiw_boot_start`, `stop[p]` the place of each `hiw_server_stop` (by a
signal handler or by `hiw_servlet_release`), one step per access of `running` and `socket`.
A handler runs on top of the thread it interrupts, which stands still meanwhile. `fds` counts
client descriptors, which are shut down but never closed. A handler that looks at the server
after it was freed reads anything (`RunningRead`, `SocketRead`), and may go on to stop it.
A connection is `away`, `queued`, `held` by a thread or `closed`.

### ServletLife

One program makes servlets one after another and calls `hiw_servlet_start`,
`set_filter_chain`, and `hiw_servlet_delete` in any order they allow; `at` is where it is.
`pthread[w]` is the thread the kernel has, `started` and `object` are what the code knows of it.
`call[t]` are the filters and the servlet function in progress on thread `t`, `context[t]` the
linked stack of contexts. A function that pushed a context pops it before it returns, as the
stack of the thread holds it.

| action | code |
|---|---|
| `NewServlet`, `SetFilterChain`, `StartNew`, `StartAgain`, `StartUnlinked` | `hiw_servlet_new`, `set_filter_chain`, the first loop of `hiw_servlet_start`; a second start finds `last` NULL |
| `StartThread`, `StartThreadFails`, `SkipStarted`, `StartMain`, `SkipMain` | `hiw_servlet_start_threads` and `hiw_thread_start`, by what `started` says |
| `Stop`, `Delete`, `Join`, `DeleteServer` | a signal's `hiw_server_stop`; `hiw_servlet_release`, `hiw_thread_wait`, `hiw_server_delete` |
| `Request`, `ChainNext`, `Return`, `ThreadReturns` | the call of the chain, `hiw_filter_chain_next` (as often as a filter likes), the ends |
| `ContextPush`, `ContextPop`, `Find` | `hiw_thread_context_push`, `pop`, `find` |

### FileTraverse and StaticSite

A path is the sequence of its characters, clipped to the path buffer as `hiw_std_copy` clips it.
A frame of `stack` is one call of `hiw_file_traverse` or `hiw_file_traverse1`, with the entries
`readdir` still has to give, in any order. `Descend`, `DescendFails`, `Skip`, `Visit`, `CloseDir`
and `Unwind` are the branches of its loop; an opendir may fail anywhere. A link to a directory is
a file here, as its `d_type` says, and its `ftell` gives -1 (as an `int`) and no byte; this is why
directories nest finitely deep (`NestingAssumption`). A path that fills its buffer has no zero at
its end: `fopen` reads on behind it and may open any file (`Openable`).

`StaticSite` extends the walk: `FileFound` is `static_cache_add` by how far it gets, each kind
of failure leaving behind what the code leaves behind (a name, a name and bytes, an open file).
A size is made an `int` (`ToInt`). `memory` is the dynamic `hiw_memory`; it is never resized,
and what does not fit is written behind its end (`phase = "behind"`, where the behaviour ends,
as it does where a size became negative and memory that is in use is handed out again:
`"astray"`). `Request`, `SendPart` and `SendFails` are `on_request` and the loop of
`hiw_client_sendall`; `got` holds the addresses of the bytes the client got. Cache and memory
are constant while requests are served, so one request at a time stands for any number.

### JsonCache

`cache` is `mCache`, `disk` the files, `holder` who has `mMutex`, `work[p]` what worker `p` does
and the locals that outlive the lock. A uri is a sequence of characters and `NormalizePath` maps
several of them to one file, as the code does. `owner` says who owns the bytes that the
`string_view` of a GET shows: the cache, a request whose `old_value` took them over (a move hands
a heap string over, and loses one that is kept inside the `std::string`: `Short`), or nobody.
`last`, `ever`, `cut` and `leaked` are history: what the last PUT or DELETE did to a file, what a
file held while nobody wrote it, which PUTs were killed or failed to write, how many files a GET
left open.

| action | code |
|---|---|
| `GetCached`, `GetUnknown`, `GetRead`, `GetTooLarge` | `get_view`, one step under the lock |
| `PutOpen`, `PutNotOpened`, `PutWritePart`, `PutEnd` | `add_view`: the file is truncated, may be written in part, and is written and closed |
| `DeleteUnknown`, `DeleteKnown` | `remove_view`; the rename may fail, which nobody looks at |
| `Refuse`, `Answer` | the rest of `on_request` |
| `Restart` | the process is killed, at any moment, and started again |

### ThreadPool

A critical section without a wait is one step. Work memory is named after the job it was
allocated for; `work[m]` is what it carries now and its `next`. `prev` pointers are written but
never read, and are left out. The wait may return at any time: its deadline adds nanoseconds
without a carry and is invalid part of every second. The use of freed memory and of NULL ends
the behaviour (`crashed`). `crowded` records that work was pushed to a worker that had some:
from there on the queue of the code is not a queue any more. Pushes are made between
`hiw_thread_pool_start` and `hiw_thread_pool_delete` only, as the ring they make would keep a
later start from ending.

## Runs

| run | instance | shows |
|---|---|---|
| `servlet_connection` | 5 header names of the servlet, 2 of them the library's own; lengths -1..2, pieces of 1..2 bytes, at most 4 body bytes (`MaxBody`); 5 header slots, memory for 6 lines | one whole, well-formed head per request; what was announced is what is enforced and reuse comes only when the client has everything, until a block is garbled or announces a negative length; the connection implements `HttpExchange` |
| `servlet_server` | main and a servlet thread, 3 connections, 2 descriptors, 2 SIGINTs, read timeout on | nothing uses the freed server but a handler that main takes too late, whatever it reads there; a connection is held once; `hiw_server_delete` finds what it asserts |
| `servlet_server_live` | the same with 3 connections, 2 descriptors, 1 SIGINT, no timeout, clients that leave | a stopped server ends, also when `accept` fails for lack of descriptors; no connection stays in the accept queue, not even when the server is stopped, as long as a descriptor is left |
| `thread_life` | main and 2 threads, 2 servlets, 2 starts each, chains of 0 or 2 filters, 2 context keys; requests come to main and one thread (`Busy`) | what runs is owned and joined before the server is freed, `started` tells the truth to `pthread_join`, filters are called in the order of the thread's chain, contexts are found innermost first and none of a call that is over |
| `request_lines` | all header lines of up to 5 and status lines of up to 6 of the characters that matter; an `int` of 5 bits | lines are taken apart exactly, nothing outside of a line is kept, a Content-Length is what its digits say |
| `request_reader` | a buffer of 12 cells, 2 header slots, 11 streams: keep-alive with body and a next request, also one sent early, no body, longer than the buffer, faulty, cut off, one header too many | memory safety of the parse for any cutting; exact lines, headers, read-ahead and body when cuts fall on line ends; no body is overdrawn; the next request begins where this one ends |
| `thread_pool` | 2 workers, 2 pushing threads, 5 pushes, a job run at most twice (`MaxRuns`); `FairSpec` | no lost wake-up, even spread, drained exits; a worker is freed only when no thread or push can come to it any more, `main` aside, which does after a push; work pushed to an idle worker runs, once, and a join ends unless the queue of its worker follows itself |
| `static_site` | three trees of up to three directories with a known suffix, an empty file, a link to a directory, names at and beyond the limit of a path buffer of 11, a memory of 31 bytes, a largest `int` of 31 with files of 60 and 66 bytes, a table that grows by 2 | every file is visited once, directories are closed on every way out, cached files share no byte, those whose path fits are found as themselves, answers have their length |
| `json_cache` | 2 workers, 3 uris of which 2 share a file and one is refused, a small, a large and a too large document, 2 descriptors | nothing is served that a PUT is still writing; a document written to its end stays on disk until it is replaced or renamed; bytes that are being sent are moved, not freed, by a PUT that succeeds; the lock is given back, and open are the file of the PUT and those that were too large |
| `saved_is_new` | as `json_cache` | **violated**: a PUT caches what was there before, not what was put |
| `memory_grows` | as `static_site` | **violated**: what does not fit is written behind the memory |
| `pool_lost_work` | as `thread_pool`, 6 pushes | **violated**: the third job of a queue takes the place of the second |

The bounds are enough for what could go wrong. Two header names of the library's own and fewer
slots than names (six with `Connection`) let every refusal of `write_header` happen, a body of 4
bytes against an announcement of 2 lets a response be short, exact and over. Two threads and
three connections make one connection wait, and with two descriptors the third is never
accepted; two handlers overlap with each other and with the stop of main. Twelve cells hold a
request with two headers and a part of a body, so `recv` can cut at every place of a line and
the buffer can fill up. Five pushes over two workers put three jobs in a queue and reuse work
memory. Two servlets with two starts each let the second servlet and the second start meet
everything the first left, and one thread that fails to start follow one that runs; two filters
are the least that have a next. One worker more or less does not matter to `thread_life`'s
requests, as threads share no call and no context: two serve, so that the main thread and a
spawned one do. A second worker of `json_cache` does everything that can happen to the first
between lock and answer; three documents are one per way a string and a file can be kept. In
`static_site` the memory holds some of the files of a tree and not all, a directory and a file
do not fit the path, and the sizes 60 and 66 become negative and short when they are made an
`int` of 6 bits. A line of five characters holds a name with blanks around it and a value with a
colon, or a sign and two digits; the largest `int` and the largest `unsigned` of 5 bits have
equally many digits, as those of 32 bits have. `Deadlock` is not checked where a connection that
was closed, a program that ended or a client that sends no more really stops; `json_cache` has
no such state and checks it.

Streams, header names and statuses are sets of the `MC` modules; the modules assume of their
constants only what their `ASSUME` says.

### Fairness

`FairSpec` of `ServletServer` has weak fairness for the main thread, for each servlet thread
and for each handler: the operating system schedules a runnable thread. It has none for
clients. `LeavingSpec` adds that a client leaves some day, which is needed: a thread in `recv` on
a silent connection is not woken by `hiw_server_stop`, whose `shutdown` is of the listening
socket, and the default read timeout is infinite.

`FairSpec` of `ThreadPool` has weak fairness for each worker (`Proceed`), for the second half
of a push that began and for the join. It has none for `WakeUp`: what is shown does not rest on
a wait that runs out. Nor does anybody have to push or to delete.

### Other statements that do not hold

Met while modelling, present in the modules as states or steps, and stated by no run:

* `hiw_response_write_body_raw` sends all bytes before it compares them with the announced
  length, so that a surplus leaves and the connection is reused behind it (`WriteBody`;
  `servlet/src/hiw_servlet.c:1009`).
* A client that keeps its connection open and silent keeps a stopped server from ending
  (`Spec` without the leaving clients; `core/src/hiw_server.c:104`).
* A SIGINT after `hiw_servlet_delete` reads the freed server through `hiw_app_state.server`,
  and goes on to stop it when `running` still reads as non-zero (`Guard`;
  `boot/src/hiw_boot.c:42`; the comment on line 52 speaks of the ownership).
* A header line that `recv` cuts is overwritten from its start by the next piece (`RecvMore`;
  `servlet/src/hiw_servlet.c:631`).
* The rest of a body is received over the read-ahead bytes that were just copied (`RecvBody`
  with `mixed`; line 852).
* A second `hiw_servlet_start` returns at once and serves nothing on the main thread, for any
  servlet, as `started` of the main thread is never reset (`SkipMain`; line 420 says it blocks);
  one that makes threads for a servlet that has some links them to NULL (`StartUnlinked`; line 412).
* `hiw_boot_config.filters` (`boot/include/hiw_boot.h`) is read by nothing.
* `hiw_client_sendall` sends the first bytes again after a send that took a part, of a body
  (`Source`) and of a header block, which the client then cannot read (`FlushedWire`;
  `core/src/hiw_server.c:234`).
* A file of the jc example that is too large stays open (`GetTooLarge`;
  `examples/jc/main.cpp:115`), and so does an empty file of the static example (`AddNotRead`;
  `examples/static/static_cache.c:48`).
* A PUT that cannot open its file, or the end of a DELETE, frees the string that a GET of the
  same uri is sending (`PutNotOpened`, `Answer`).
* A DELETE whose rename fails answers 200 and leaves the document (`DeleteKnown`;
  `examples/jc/main.cpp:64`), where `README.md:173` speaks of a removed entry. For an entry that
  is on disk and was not asked for yet it answers 404 (`DeleteUnknown`), where the same line
  says 200.
* A PUT whose write fails answers 200 (`PutEnd`; `main.cpp:87`). The torn file it leaves, as a
  kill in the middle of a write does (`Restart`), is later cached and served with 200 (`GetRead`).
* A PUT answers with the string that was just moved from, empty or unspecified, where
  `README.md:163` says that the previous value is returned (`PutEnd`; line 92).
* `const int size = ftell(f)` makes the size of a file between 2 and 4 GiB negative, which moves the
  memory of the static example back over what is cached, and cuts that of a larger one short
  (`ToInt`, `AddAstray`; `examples/static/static_cache.c:38`).
* A path that fills its 1024 bytes is given to `fopen` without a zero behind it (`Openable`;
  `core/src/hiw_file_content.c:263`, `static_cache.c:30`).
* The name of a header `" : x"` becomes `":"`: trimming a string of blanks looks at the
  character behind it and keeps it when it is no blank (`Trim`; `core/src/hiw_std.c:115`).
* A response with a negative length announces it as an `unsigned`, so that the client waits for
  bytes the server does not know of (`SetContentLength`; `servlet/src/hiw_servlet.c:1048`).
* A complete status line that arrived in pieces is not found, as only the size of the last
  `recv` is searched (`RecvNoStatusLine`; `servlet/src/hiw_servlet.c:512`).
* A first `recv` that fills the buffer counts as one long status line and drops the headers
  (`pc = "status_only"`; line 530).
* One header more than the slots is stored behind the array (`pc = "corrupted"`; line 549).
* After a read timeout, `hiw_request_recv` forgets the read-ahead bytes it copied; with
  `ReadTimeout = TRUE` in `MCRequestReader.cfg`, `NeverOverdrawn` fails (line 857).
* `accept` fails on a running server once the descriptors are used up, as the socket of a client
  is shut down and never closed; a queued connection then waits for ever (`AcceptFails`;
  `core/include/hiw_socket.h:30`).
* Work memory stays in the free list when it is reused, so that a job runs twice or with the
  data of another (`Memory`, `HeadAfterNew`; `core/src/hiw_thread.c:718`), and memory that
  follows itself makes a queue without an end, whose worker is never joined; the pushes make the
  list of workers a ring, so that the deletion comes back to the worker it freed first and uses it
  (`StopFreed`; line 675); a pool of one worker writes to NULL at the first push (`Rotate`;
  line 734).

## Proofs

TLAPS proves the following for every value of the constants that the modules' `ASSUME`s
admit: any number of threads, workers, clients, signals and jobs; any header names, lengths,
sizes of memory and buffer, streams and cuttings; any tree, uri and document; lines of any
length. None of the properties is inductive. Each module of proofs begins with the invariant
that is, in named parts, proves it with one step for each action, and derives the properties.

| module | invariant | properties proved from it |
|---|---|---|
| `ServletConnectionProofs` | `Good` responses, tied to the wire | `TypeOK`, `HeadSound`, `AnnouncedIsEnforced`, `BodyAccounted`, `ReuseIsClean`, `HeadFrozen`, `ImplementsExchange` |
| `RequestReaderProofs` | `Safe`; `Faithful`; `Owed`; `Exact` | `TypeOK`, `BufferSafe`; `LinesFaithful`; `NeverOverdrawn`; `HeadersComplete`, `BodyExact`, `ReuseInStep` |
| `RequestLinesProofs` | `LineInv`; `LengthInv` | `InsideLine`, `LineExact`; `LengthExact` |
| `ServletServerProofs` | `LifeInv`, `StopInv`, `RunInv`, `ListenInv`, `HoldInv` | `ServerAlive`, `DeleteIsClean`, `HeldByOne` |
| `ServletLifeProofs` | `OwnInv`, `QuietInv`, `ChainInv`, `ContextInv` | `RunningIsOwned`, `ChainInOrder`, `FindIsInnermost` |
| `ThreadPoolProofs` | `RingInv`, `LifeInv`, `DeleteInv`, `SleepInv`, `IdleInv` | `NoLostWakeup`, `Balanced`, `JoinedBeforeFree`, `IdleRunsOnce` |
| `JsonCacheProofs` | `LockInv`, `JobInv`, `FileInv`, `ViewInv` | `ServedWasStored`, `Durable`, `OneFileOpen`, `ViewIsBacked`, `PutKeepsViews` |
| `StaticSiteProofs` | `WalkInv`, `PhaseInv`, `BlockInv`, `SlotInv`, `SendInv`; `TodoInv`, `FoundInv` | `CacheSafe`, `AnswerIsOwn`; `WalkIsWhole`, `FoundIsOwn` |

**ServletConnection.** What carries the properties is a statement about the response as a value
(`Good`): which flags imply which headers and fields (`headers_sent` implies that the three
mandatory headers are there, `content_length_set` that its header is, headers are injective and
fit), tied to the wire: a sent or torn block means that `Server` is in the header list, which is
what makes every further flush refuse. Until the client is lost, what is left to send covers
what it waits for (`Covers`); a garbled block or a negative length loses it, and from there on
nothing is said of what it has (`LostAtHead`, `LostRefines`). Lemmas prove that each of the
calls, as functions on responses, keeps `Good` and only adds (`Evolves`); the step lemma then
has one case per action. The refinement takes `HttpExchange` step by step: `WriteBody` that also
sends the head maps to `SendHead`, a bodiless `FinishResponse` to `SendEmpty`, refusals and
setters to stutters.

**RequestReader.** `TypeOK` and `BufferSafe` are inductive together (`Safe`).
`LinesFaithful` follows from `Faithful`: after aligned pieces nothing is garbled; while the
status line is awaited nothing was taken; while headers are parsed the buffer holds exactly the
stream's first bytes, `pos` is behind a line feed and not past the end of the head, and the
last byte received ends a line or lies behind the head. That is why, when no line is left to
parse, receiving at `pos` is the same as receiving behind the data. `NeverOverdrawn`, for
sockets without a read timeout, follows from `Owed`: what was drawn and what is owed add up to
the Content-Length, and nothing is drawn before the head was read. Each of these facts is also
carried over `NextRequest`, which sets the reader back to an empty buffer on a stream of which
nothing was taken.

The other three properties say that the reader and the client agree on where things are, which
they only can about a request. Their theorems therefore assume `WellFormedStreams`: a
header line has a name before its colon, every other colon of it belongs to its value, and no
line of one letter without a colon stands in a head, since the reader takes one for the empty
line. `MCRequestReader` assumes this of its streams, so that the run shows that
streams with bodies, too many headers and early requests admit it. `Exact` counts the headers
stored by the colons that were passed, keeps Content-Length and Connection to what the passed
lines said, and after the head says which bytes of the stream the read-ahead holds.

**RequestLines.** `LineInv` says that a line has one line feed, at its end, that the strings
kept of it are inside (`InsideOf`), and that they are what the grammar says (`ExactOf`).
The lemmas below it say of each loop where it ends (`ForwardEnds`, `BackwardEnds`), and from that
what `hiw_string_trim` leaves and where `hiw_string_split` cuts. `LengthInv` says that
no length is set before a line was read, that the line of a response is the name, a colon, a
space and the digits, and that what was read is what these say. The lemmas on numbers relate
`Rest`, `Width` and the digits that `hiw_std_uitoc` writes to the sum that `hiw_std_ctoi` makes of
them. A fact about all digits is proved from the least one that refutes it, as a set of natural
numbers has a least element (`WFMin`), which needs no induction over an operator.
What an `int` that overflows becomes is any `int` here too.

**ServletServer.** The properties look at one place of one thread; the invariant has to know
where all others can be at that time. `LifeInv` relates `main` to the threads (none is
born before the loops, all have ended behind the joins), `StopInv` places each
`hiw_server_stop` (main's own while it stops, a handler's on a thread that lives), `RunInv`
says who may still find the server running and that somebody is left to forget the socket when
it is no longer, `ListenInv` ties the listening socket to the one the server knows. `HoldInv`
makes `holds` and `conn` agree on every client. That all threads have ended when `main` is
behind the joins is what makes the server free to delete. A handler may start after that, reads
anything of the freed server and may go on to stop it: this is the one use that `ServerAlive`
excepts, and the invariant shows that there is no other.

**ServletLife.** `OwnInv` says that the list of threads is the workers that have objects, in
order, and that `started` is true of exactly those the kernel has a thread for. `QuietInv` says that
a thread outside its function has no calls and no contexts, `ChainInv` that the
calls in progress walk the chain, `ContextInv` that the contexts are those of the calls that
pushed one, innermost first. `FindIsInnermost` then compares the first match of the list with
the last call, by the least and greatest element of two sets of positions.

**ThreadPool.** `RingInv` describes the list of workers before and after the first push closes it
to a ring, and that whoever stands before `first` got one job more. `LifeInv` orders starts,
stops, joins and frees. `DeleteInv` says what the loops of a deletion have freed: what is behind
them, or all, and then main is back at the first worker of the ring; `JoinedBeforeFree` is about
everybody else. `SleepInv` is `NoLostWakeup` with what a returned worker has. What work
memory holds can be said only while no work was pushed on top of work: `IdleInv` is
`~crowded => ...`, as the code is wrong about its queue from there on (`pool_lost_work`). Until
then a queue is empty or one memory long (`QueueInv`), no two workers share memory (`MemoryInv`),
and a job that was pushed and not called is at exactly one place (`JobInv`).

**JsonCache.** `LockInv` makes the PUT that writes the holder of the lock and counts open files,
those included that a GET of a too large one left open.
`JobInv` says what the locals of a worker hold at each of its places; while a PUT writes, its uri
has no cache entry and its file is expected to be torn. `FileInv` says that a file which nobody
writes, a cache entry and an answer were once what that file held while nobody wrote it, and that
a file is torn only by a PUT that was cut off (`cut`). `ViewInv` says
who owns the bytes under each GET: the cache, or a DELETE or PUT that took the old value over.
A kill is a step like any other, behind which the locals are gone and the files are what they
were. `PutKeepsViews` is an action property and follows from the same invariant.

**StaticSite.** `BlockInv` orders the blocks: the cache takes memory from the front, a name and
then its bytes, and the position is behind the last. A link to a directory, of which `ftell` says
-1, moves the position back by one; the name copied just before has at least that one character, so
that no entry is touched. `SlotInv` says that the table has whole batches, which is why a full
one is noticed. `SendInv` says which addresses the client got, by how far the loop of sends came.

`Named` gives the files of a tree by recursion over its directories, and the walk is compared with
it. That the recursion has a value needs `NestingAssumption`, directories that nest finitely deep,
as those of a file system do; `NamedUnfolds` takes the least depth at which it would not have one.
`TodoInv` says of a walk in progress that each file of the tree was visited or is found by exactly
one of its calls: `TakenFiles` moves the files of an entry out of a call, `SubDirFiles` makes
them those of the call for the subdirectory, and only `VisitFile` takes one away. No two calls
find the same path, as names in a directory differ and contain no slash (`EntriesDiffer`), and
what was cached is not found again. `FoundInv` keeps what that says of each visit. A file
whose path leaves no room for its zero is visited too, but what is opened for it is anything;
`FoundIsOwn` therefore speaks of the other paths (`Terminated`), which were not clipped.
`SizeTypes` says what `ToInt` makes of a size.
`WalkIsWhole` is about files, and the theorem assumes `OneNameEach`, a tree without hard links;
`MCStaticSite` assumes it of its trees. `FoundIsOwn` is about names and needs no such assumption.

What is left to TLC, of the properties that hold, is liveness (`ShutdownCompletes`,
`QueuedIsServed`, `IdleRuns`, `JoinEnds`), which is out of the prover's reach. The module
assumptions are the only ones, with `WellFormedStreams`, `OneNameEach` and the absence of a read
timeout where the theorems name them.

A property of a run is often a conjunction of named parts. Where a component's `TypeOK` is no
property of its own, it is a part of the first invariant (`NoLostWakeup`, `HeldByOne`,
`RunningIsOwned`, `CacheSafe`, `ViewIsBacked`, `InsideLine`), as it is the part that makes the
other meaningful.

## Not modelled, and the plan

Left out for good:

* the Windows halves, logging, address parsing, the Hello World and boot examples;
* `hiw_std_ctoui` and `hiw_string_toui`, which nothing calls;
* user-data of servers, threads and boot, which is stored and returned;
* `hiw_thread_set_func` on a thread that was started: the only call is for the main thread,
  whose handle is always 0;
* a callback that stops `hiw_file_traverse`: the only callback never does;
* the growing branch of `hiw_memory_resize`: `hiw_memory_resize_enabled` admits only memory
  with `resize_bytes <= 0`, for which the loop ends by an overflow of the `int` at best.

What comes next is a composition of `RequestReader` and `ServletConnection` over several requests,
so that a body the servlet left unread and a response it left short meet.
