# TLA+ models of LinuxHPSP_note

The repository holds the programs of a study of high-performance server
programming on Linux: one complete load balancer (`springsnail`), servers that
are complete in themselves (an HTTP server on a thread pool, a CGI server on a pool
of processes, two chat servers, a finite state machine for HTTP, two timers) and many short demonstrations of one
system call. This directory models the programs that have state and concurrency
of their own, checks them with TLC, and proves theorems about all of them with
TLAPS: every safety property the runs check is also proved for every value of the
constants. Paths below are relative to `src/`.

To run: `tlc -config <cfg> <module>` for a row of the table of runs, and
`tlapm <name>Proofs.tla` for the proofs: ConnRelay, ConnMgr, Balancer, HttpServer
and CgiServer have a module each, `ServerPartsProofs` is about ThreadPool and
HttpParser, `ChatProofs` about MyTalk and TalkRoom, `TimerProofs` about TimeWheel
and TimeHeap.
`PROJECT.json` lists the runs, the source lines of every definition, a mutant
for every property, the hazards and the theorems.

## 1. Inventory

### springsnail (load balancer, `springsnail/`)

| part | state | operations |
|---|---|---|
| process pool, parent (`processpool.h` run_parent) | per child: pid, pipe, busy ratio; epoll set; signal pipe; `m_stop` | a connection on the listening socket: tell the child with the least ratio; a child's ratio; SIGCHLD: reap; SIGTERM: pass on |
| process pool, child (run_child) | epoll set, pipe to the parent, one mgr | a message of the parent: accept a client and bind it; an event of a socket: `mgr::process`; timeout: recycle; SIGTERM: stop |
| mgr (`mgr.cpp`) | `m_conns` (idle server connections), `m_used` (both sockets of a session), `m_freed` (ended) | pick_conn, free_conn, recycle_conns, process |
| conn (`conn.cpp`) | two sockets, two buffers with a read and a write index each, `m_srv_closed` | read_clt, write_clt, read_srv, write_srv, reset |
| fdwrapper | the epoll registration of a socket | add_read_fd, add_write_fd, modfd, removefd, closefd |
| start, configuration, log | none after the start | straight-line I/O, not modelled |

The parent and its children share the listening socket, one socket pair each,
and signals. A child owns everything else; inside it there is one thread, and
what interleaves are the kernel's events with the program's steps: a batch of
epoll events is handled while sockets change, close and get their numbers again.
All sockets are edge-triggered: an edge that is not used up is gone.

Correct means: bytes cross a session in order, without loss or repetition, and
arrive unless an end stops; no socket leaks or serves two sessions; a session
ends only because one of its own two ends is gone, also when an old event of a
number that was reused is handled as its own; the parent stops when all children
are gone and only then.

### Chapter 15: thread pool and HTTP server

| part | state | operations |
|---|---|---|
| thread pool (`15_5_1_thread_pool.h`, `14_7_1_locker.h`) | a list, a mutex, a semaphore | append (main), run (workers) |
| HTTP connection (`15_6_1_http_conn.cpp`) | per descriptor: socket, buffers and indices, parser state, linger, file mapping | read, write, process, close_conn (main and workers) |
| HTTP server (`15_6_2_main.cpp`) | epoll set, array of connections indexed by descriptor | accept, hang-up, readable: read and append, writable: write |
| request parser (process_read and below; chapter 8's `8.6_1_finite_state_machine.cpp` is its first version) | read buffer, checked index, start of line, state, content length | parse_line, parse_request_line, parse_headers, parse_content |
| process pool (`15_3_1_process_pool.h`) | per child: pid, pipe; the child whose turn it is; signal pipes; `m_stop` | a connection: tell the next child that is not reaped; SIGCHLD: reap; SIGTERM: pass on; in a child: accept, or process() of a connection |
| CGI server (`15_4_1_cgi_server.cpp`) | per connection: buffer and read index | read up to CRLF, fork and run the program of that name on the connection |

main and the workers share the connections without a lock. What keeps them apart
is EPOLLONESHOT: a socket that was reported is not reported again until someone
calls modfd. Correct means: a connection is at every moment in one place only, no
request and no connection is forgotten, nothing of an earlier request or client
is left for the next, keep-alive is kept, and the parser's answer does not depend
on how the bytes were cut into pieces.

The processes of the CGI server share the listening socket, one socket pair for
each child, and signals; a program shares with its child every connection that
was open when it was forked. Correct means: clients are passed round in turn
whoever was reaped, one program is run per request, by the first line, whatever
its pieces, ended programs are reaped, and every client sees its connection end.

### Chapter 13: talk room (`13_6_1_shm_talk_room.cpp`)

A parent accepts clients, forks a child for each and keeps tables of users and
children; each child reads its client's words into its own segment of shared
memory and tells the parent its number, which the parent passes to the other
children, and these send that segment to their clients. When a user leaves, the
last one gets its number. Hard: signals, exits and numbers that move while
messages with old numbers are on their way.

### Chapter 9: chat server on poll (`9.6_2_mytalk_server.cpp`)

One thread; an array of pollfds, compacted while it is walked, and per descriptor
a buffer for what its user says and a pointer to the buffer of what it is to be
sent. Hard: the walk goes by the revents of the last poll while sockets move on,
entries change places and other entries' events and pointers are set. Correct
means: the array is the open sockets, each once, every user that left is removed,
and nobody is sent its own words.

### Chapter 11: timers

`11.4_1_time_wheel.cpp`: slots of doubly linked lists, rotations, callbacks that
may change the list tick is walking. `11.4_2_time_heap.cpp`: an array heap that
grows, lazy deletion, tick running callbacks that may change the heap. Correct
means: callbacks run when they are due and in order, and no pointer dangles.

### The rest

Chapters 6, 7, 9, 12, 13, 14 and `some_test_program` hold demonstrations (pipe,
readv, sendfile, splice, select, poll, LT and ET, semaphores, descriptor passing,
a deadlock on purpose, throw-away clients) and an excerpt of libevent. They are
listed in `PROJECT.json` with the reason why they have no model.

## 2. Modules

| module | models | abstraction |
|---|---|---|
| `ConnRelay` | one session: conn, the four cases of `mgr::process`, modfd | a byte is its serial number; a handler is one action |
| `ConnMgr` | a child's maps, descriptors and event loop | a session's bytes are left to ConnRelay: an event keeps or ends the session |
| `ConnPool` | abstract: the life of a conn, whatever maps hold it; ConnMgr implements it | a conn has a place and a set of sockets |
| `Balancer` | parent and children, pipes, signals, accept queue | a child's mgr is its number of sessions |
| `ThreadPool` | append and run, one step per shared operation | a request is a value |
| `TaskQueue` | abstract: a first-in first-out queue, each request given to one worker | |
| `HttpServer`, `MCHttpServer` | main, workers, connections, EPOLLONESHOT | the pool at its interface (TaskQueue's), requests as pieces, answers as lengths |
| `HttpParser`, `MCHttpParser` | both request parsers, byte by byte | one byte for a text that matters |
| `TimeWheel`, `TimeHeap` | the two timers with callbacks | addresses are values |
| `Timers` | what the two have in common: the addresses of timers | |
| `TalkRoom` | parent, children, shared segments, signals | of a text only the author |
| `CgiServer`, `MCCgiServer` | the process pool of chapter 15 with the CGI server and its programs | a byte is CR, LF or another; of a program the connections it holds |
| `MyTalk` | the chat server on poll | of a text only the author |
| `Chat` | what the two chat servers have in common: users, the accept queue, texts | |
| `MCWorker`, `MCServerParts`, `MCTimers` | two modules in one run each (section 3) | |
| `ConnRelayProofs`, `ConnMgrProofs`, `BalancerProofs`, `HttpServerProofs`, `CgiServerProofs`, `ServerPartsProofs`, `ChatProofs`, `TimerProofs` | theorems (section 4) | |

How the modules fit together: Balancer's child accepts or rejects by a free
choice that ConnMgr resolves by its maps; ConnMgr's event on a session keeps or
ends it, which ConnRelay resolves by bytes; HttpServer's list of the pool is the
queue that ThreadPool is shown to implement, and its `process_read` stands for
what HttpParser does in detail.

Names are those of the code. Where a variable stands for several of the code
(`readIdx["clt"]` for `m_clt_read_idx`), the declaration says so. Operators whose
comment says "Variant" are what a plausible bug would do; only the mutants of
`PROJECT.json` use them.

What is taken from the kernel: a socket is on the ready list of an edge-triggered
set after new data, new room, a close or an EPOLL_CTL_MOD that finds it ready;
epoll_wait takes any part of the list in any order; send and recv take any number
of bytes the queues allow; signals of one kind that are not yet handled become
one; a new descriptor is the lowest free one. Handlers of one thread are one
action where no other thread sees their state between two steps; where several
threads or processes share it (ThreadPool, HttpServer, TalkRoom, the children of
Balancer) the steps are separate.

Details a reader of the code may miss in the models:

- ConnRelay: `recv` and `send` loops stop at EAGAIN, at the end of the buffer or at
  a close, as the code does, so that partial transfers of every length occur.
  A full buffer makes no recv at all (`m_clt_read_idx >= BUF_SIZE` is tested first).
- ConnMgr: `m_used[ fd ]` inserts a NULL entry for an unknown number; it stays, and
  `map::insert` does not replace it. An event of the batch for a number that has
  been given out again finds the new session, in the code and in the model: the
  handler then reads a socket with nothing to read. recycle_conns reconnects one
  freed conn per step and clears the map at its end.
- Balancer: the parent reads whatever bytes of a child's pipe there are into an
  `int` it does not clear: several bytes together make another number. What a
  child sends is the size of m_used, NULL entries included: any number of them up
  to `MaxStale` (`get_used_conn_cnt`).
- ThreadPool: the results of sem::wait and of locker::lock are ignored; an
  interrupted wait lets its worker go on. The destructor is not part of the model.
- HttpServer: write takes an answer for sent when what was sent is no less than
  what is left of the head, and so does the model (`Sent`). m_linger comes from the
  Connection field alone: a request for an empty file that asks to keep the
  connection has it set, and is closed. read with an exactly full buffer ends
  with EAGAIN and the request is processed; with more to come it ends with 0.
  `refused` and `raced` are history variables (section 5).
- HttpParser: the reference (`Expected`) is what the comments of the two chapters
  say: blanks and tabs between the parts of a request line, BAD_REQUEST for a line
  that is none, a body complete when it has been read in. `Agrees` names the two
  cases in which a parser says otherwise (`SpacesRefused`, `ErrorMissed`) and leaves
  out bodies that come in pieces (`cut`), which the run `http_parser_bodies` is about
  (section 5). An exactly full buffer is parsed, as in HttpServer. The loop of
  process_read is a recursive function over the number of its rounds (`Round`: the
  condition is `Found`, the switch `Handle`); that it has an answer by then is proved.
- TalkRoom: reading the next text into a segment, sending it and passing its
  number on are different steps of different processes. `unreached` is a history
  variable: the children a SIGTERM was not sent to or found before their handler,
  or between the test of stop_child and epoll_wait.
- TimeWheel: a callback does not delete its own timer (tick does). `left` counts
  the turns from the comment's number of ticks; `late` is a history variable: the
  timers a callback set for whole turns of the wheel.
- TimeHeap: pop_timer leaves the address of the deleted timer at the top of a heap
  that became empty, and tick loads it; `Expired` tests the size first, as the code
  does.
- CgiServer: process() of a connection is one action per recv, because data may come
  between two of them; the recv loop is left at EAGAIN, at the end of input, and
  when a line is complete. A recv of length 0 (full buffer) is an end of input if
  more has come, and EAGAIN if not.
  SIGINT is treated as SIGTERM is. The children are numbered from 1.
- MyTalk: one action per entry of the walk. revents of a reset socket hold POLLERR,
  POLLIN and POLLRDHUP until SO_ERROR is read, by getsockopt, recv or send. POLLOUT
  is never taken back: `events |= ~POLLOUT` sets bits. A client that leaves and is
  reset then has EPIPE pending, and a send to it raises SIGPIPE, which kills the
  server (`killed`), as does a send on a socket whose error has been fetched.

## 3. Runs

| run | question | bounds and why they are enough |
|---|---|---|
| `worker` | of one session: do two requests and responses cross it intact, and do they arrive? Of all: are sockets and conns kept apart while numbers are reused? | buffers of 3 bytes, responses of 4, sockets of 1: a buffer fills, empties, is half written and reset while data waits. A second round uses reset indices. Peers are half-duplex (HTTP/1.1 without pipelining). Either end may stop at any time. 2 conns and 4 numbers: two sessions at once, every number reused within a batch. 3 clients, one failing connect |
| `balancer` | are jobs, children and signals accounted for? | 2 children, 3 clients, one crash, one SIGTERM, one ended session, one NULL entry: edges, messages and signals coalesce, all connections of a child get used, and counts are odd and even |
| `server_parts` | is the pool a queue, and is every request served? Does a parser's answer depend on the pieces? | 2 workers (one may take what the other was woken for), 4 requests, a limit of 1 (2 fit), one interrupted wait. 784 messages of right and wrong lines, headers and bodies, also bodies that look like the end of a line or of the head, each cut in every way; a body of 4 bytes; a buffer of 16 that the longer ones fill |
| `http_server` | does a connection stay in one place, and is a request answered? | 2 clients, 2 descriptors (a number is reused while a worker closes it), 1 worker beside main, a list that takes one request, 3 pieces, answers that do not fit the socket |
| `timers` | of the wheel: is every callback in its turn, and the list in order? Of the heap: does tick run what is due, in order? | wheel: 4 timers, 3 slots: head, middle and tail of a list; delays of 1 slot, part of a turn, a turn, more than two turns. Heap: 4 timers from capacity 1: the array grows twice; arrays of 1 to 4 timers with every choice of times given to the constructor; equal and different times up to 3 |
| `talk_room` | do the tables stay right, is anybody sent his own words, and does the server stop? | room for 2, 3 clients: one is refused or gets the number of one that left; 2 texts: the second overwrites the first while its number is passed on. At most 4 inputs of all kinds: 3 clients with a text or a SIGTERM, or 2 clients with 2 texts, or with a text and a SIGTERM |
| `cgi_server` | are clients passed round, programs run once, and connections ended? | 3 children: one is skipped and two are left to take turns. 2 clients: one is accepted while a program of the other runs. A buffer of 6 bytes, of which 5 are used: two lines that fill them, or 6 bytes without a line; pieces end in the middle of CRLF and where the buffer is full. One child that exits on its own, or a SIGTERM |
| `my_talk` | does the walk keep the array right, and is every user that left removed? | room for 3, 4 clients: first, middle and last entry are removed, a number is reused, one is turned away; 2 texts, 2 leaves or resets |
| `queue_limit` | violated: are at most max_requests waiting? | as in `server_parts` |
| `time_wheel_late` | violated: is every callback called after its ticks? | as in `timers` |
| `response_complete` | violated: is an answer complete when write says so? | section 5 |
| `http_parser_bodies` | violated: is a request answered when its body has been read in? | section 5 |

Three runs hold two parts each that never meet: a session and the maps of a mgr
(`MCWorker`), the pool and the parsers (`MCServerParts`), the wheel and the heap
(`MCTimers`). A variable (`part`, `container`) says which of them a behaviour is
about; the other stays as it was made, and neither reads the other's variables. In
`MCWorker` the conns start in one order, as nothing tells them apart.

The properties:

- ConnRelay. `StreamIntegrity`: what is delivered to an end is a prefix of what the
  other sent, and a buffer holds exactly what was read and not yet written
  (`BufferIsGap`). `PendingIsArmed`: pending bytes have their socket registered for
  EPOLLOUT. `Delivery`: they arrive. `StopFrees`: a session with a stopped end is freed.
- ConnMgr. `SocketsOwned`; `EndsForItsOwn`: a step ends a session only if the remote
  end of one of its own two sockets is gone, whatever old event led to it;
  `ImplementsConnPool` (refinement: a conn is
  in one of the three maps, in the order idle, session, freed, with the sockets that
  belong there and share none).
- Balancer. `JobsBacked`: no more messages and edges than waiting clients.
  `StopsLast`: the parent stops after the last child and always hears of it. `Shutdown`.
- ThreadPool. `NoStrandedRequest`: each queued request has a count, a coming post or
  a worker already awake; `EveryRequestServed`; `ImplementsTaskQueue` (refinement).
  `MutualExclusion` and `Once` are proved and have no run of their own: the
  refinement fails without them.
- HttpServer. `OneHolder`, `NoLeftovers`, `LingerKept` (but for empty files),
  `Answered`.
- HttpParser. `Agrees` with a reference that looks at the bytes as a whole
  (`Expected`), with the bounds of the indices.
- TimeWheel: `Linked`, `OnTime` (in the turn that was asked for, or, for timers in
  `late`, exactly one turn of the wheel after it). TimeHeap: `HeapOrder` (with what it is for: the
  earliest timer is called and the same one popped), `NoneLeft`.
- TalkRoom: `Registered`, `NoEcho`, `StopsLast`, `Shutdown` (or there is always a
  running child in `unreached`).
- CgiServer. `InTurn`: of the children not reaped none is a client and more ahead of
  another. `Programs`: one program per request, named by the first line of all that
  was sent, and no zombie without a SIGCHLD to come. `Answered`: who has sent a line,
  or too much, or left, sees the end of its connection, also from the programs that
  inherited it; a client that fills the buffer exactly and sends no more is waited for. `TypeOK`.
- MyTalk. `Slots`: the array is the open descriptors, each once. `Usable`: old revents
  never lead to a recv of 0 or a send on a socket whose error has been fetched. `Foreign`: what a user
  is to be sent is another's. `Removed`.

Deadlock is not checked where the system may rest: when the bounded clients have
done all they do, the servers wait in epoll_wait, the workers in sem_wait. The
runs of the parser end with an answer. The timers have no such state and are
checked for deadlock.

### Fairness

All of it is weak. In ConnRelay the event loop of the child (it never blocks
while events are there) and a live peer that takes the bytes it is sent. In
Balancer, TalkRoom and HttpServer the loops of the processes and threads; in
HttpServer also a live client that reads. In CgiServer the loops of the parent and
of each child, and programs that end (a CGI program that never ends is not the
server's). In MyTalk the one thread of the server. In ThreadPool each thread, as a
scheduler gives, and a mutex that is free is taken: with one producer and
workers that return to sem_wait nobody is overtaken for ever. Nobody has to
connect, send, leave, fail or send a signal. The modules without liveness
properties (ConnMgr, HttpParser, TimeWheel, TimeHeap) state no fairness.

## 4. Proofs

`ConnRelayProofs` proves for every buffer size, socket size, message length,
number of rounds and either kind of peer:

- `TypeCorrect`: the indices stay in the buffers (`TypeOK`),
- `StreamsIntact`: `StreamIntegrity`, which includes `BufferIsGap`,
- `PendingArmed`: `PendingIsArmed`, of peers that wait for each other (section 5 says
  what happens to others).

The inductive invariant `Inv` is TypeOK, BufferIsGap and, for each end, what TCP
and the indices give (`Flow`: received is no more than sent, delivered no more
than sent, what is not drained fits the socket) and the order of delivered bytes
(`InOrder`). BufferIsGap alone is not inductive: that write starts at the right
byte follows only from what was delivered before, and that reset indices lose
nothing only from the two being equal. Recv, Store, Send and Advance each have a
lemma about what they keep, and the four handlers combine them.

PendingArmed needs `ArmedInv` on top: the k-th request is not sent before the
responses to the earlier ones are taken, nor a response before its request
(`TakeTurns`), a batch names an end once, and EPOLLOUT is asked for, or reported,
exactly when bytes or the end of the session wait (`Armed`). That it is exactly so,
and not only asked for when needed, is what makes it inductive: an event that is out of date would
set the other socket back to EPOLLIN. The key lemma `OneWay` says that bytes are on
their way in one direction at most.

`ConnMgrProofs` proves for any number of conns, descriptors, clients and failed
connects:

- `TypeCorrect`, `SocketsHaveOwners` (`SocketsOwned`),
- `SessionsEndForTheirOwn`: the action property `EndsForItsOwn`,
- `Implements`: `ImplementsConnPool`, each action mapped to a step of one conn or a stutter.

The invariant adds what an entry of m_used leads to (`Current`: a session and one of
its two open sockets), where each conn is filed (`Homes`), that recycle_conns runs
between two batches (`Batched`), and `Filed`: no conn that could be freed has a server
socket with the number of one that waits in m_freed already. Without Filed
`m_freed.insert` would drop a conn. free_conn closes the socket, so that its number
may be given out again while m_freed still has it as a key: but to a client socket
only, as server sockets are made by recycle_conns alone, which clears m_freed. For
EndsForItsOwn `Noticed` says that m_srv_closed is set only in a session whose server
is gone, so that an old event, which finds nothing to read, ends nothing.

`BalancerProofs` proves for any number of children, connections, clients and crashes:

- `TypeCorrect`, `JobsBackedHolds` (`JobsBacked`), `StopsLastHolds` (`StopsLast`).

The invariant: a batch names a descriptor once (`Once`), what a child owns goes with
it (`Gone`), messages and edges together are no more than the clients that wait (`Counted`, by
counting the pairs of a child and a message), and an exited child has its SIGCHLD in
the pipe, with the edge for it on the ready list or in the batch (`Heard`).

`ServerPartsProofs` proves of ThreadPool, for every set of workers, producers and requests and
any number of interrupted waits:

- `TypeCorrect`: `TypeOK`, and `Holds`: who is between lock and unlock holds the mutex,
- `MutexHolds`: `MutualExclusion`, from Holds,
- `NoneStranded`: `NoStrandedRequest`, by counting: threads about to post and workers
  that are awake are finite sets, and every step that adds to the list or takes
  from the semaphore moves one thread between them,
- `ServedOnce`: `Once`, with the mutex telling that the head a worker takes is still
  the head,
- `Implements`: the pool is a TaskQueue of max_requests + 1 places, each step mapped
  to a step or a stutter.

and of HttpParser, for any messages, any length of the body and any size of the
buffer, and for every way to cut the bytes into pieces:

- `ParserAlwaysAgrees`: `Agrees`, with `ParserTypeOK`.

The invariant (`ParserInv`) relates the parser's buffer and indices to the bytes
received (`Known`). `Shape` orders the indices. While the head is read (`Scan`) the
line the parser is at begins behind a break, no misplaced byte and no end of the head
comes before it, there is no CR or LF from there to checked_idx (`Place`), and
content_length and linger are those of the lines so far. At the end of the head
(`Body`) they are those of the whole head. Agrees alone says nothing of an answer
still to come. What the parsers say at each point is `Computed`; `ComputedExpected`
compares it with what the comments say, and leaves `SpacesRefused` and `ErrorMissed`.
Three groups of lemmas carry the proof:

- the reference, line by line: `OneLineMore` says what one break more adds to
  `Lines`, `HeadEnds` and `BodyLength`, and `ComputedAt`, `ComputedBad` and `ComputedOpen` what the
  answer is then; `Extended` that more bytes change nothing of it,
- the parser, line by line: `ParseLineKeeps` and `ParseLineRight` (parse_line stops at
  the next break or the next misplaced byte, wherever the last call had stopped,
  also between CR and LF), then `ScanRound`, `BodyRound` and `StuckRound` for a round
  of the loop,
- the loop: `Rounds` shows that the recursive function exists, `RoundKeeps` that a round
  without an answer goes over a byte, or is the one that finds the body incomplete,
  so that read_idx + 2 rounds are enough (`ReadKeeps`): process_read ends, and its
  answer is the one computed (`ReadRight`).

`HttpServerProofs` proves for any number of clients, workers and descriptors and any
lengths of buffers and answers:

- `TypeCorrect`, `OneHolderHolds` (`OneHolder`), `NoLeftoversHolds` (`NoLeftovers`),
- `LingerHolds`: the action property `LingerKept`, which leaves out empty files.

The invariant is about one descriptor at a time, as long as no number was reset
under a new client (`raced`): it is in no two places and not twice in one (`Alone`),
in some place if it is open and the pool did not refuse it (`Kept`), and its buffers
are as far as that place says (`Stage`: nothing written while it waits for input, a
whole head and the linger of its request while it waits for output). OneHolder alone
is not inductive, since that a hang-up and an answer cannot be in one batch, or that
the worker that closes is the only one, depends on the stage.

`CgiServerProofs` proves for any number of children and clients, any requests and
pieces of them, any size of the buffer and any number of children that exit on their own:

- `TypeCorrect`, `TurnsAreFair` (`InTurn`), `ProgramsHold` (`Programs`).

For the turns the invariant (`Rota`) orders the children from the one whose turn it
is: of two that are not reaped the later one has had as many turns, or one more.
InTurn says only that they differ by one at most, and a reaped child that is
skipped would break it without the order. For the programs `Sound` says of each
client that no CRLF is in what was read of an open connection, so that the one
found next is the first of all that was sent.

`ChatProofs` proves of MyTalk, for any USER_LIMIT and any number of clients, texts and leaves:

- `SlotsHold`: `Slots`, with `TypeOK`,
- `UsableHolds`: `Usable`,
- `ForeignHolds`: `Foreign`.

The invariant says where the walk is (`Placed`), that no two open descriptors have
the same client (`Numbered`), that what an entry still to be visited was reported
for lasts (`Fresh`: stronger than Usable, which allows a text or an error, as a
client may be reset while its text waits), and whom pointers lead to (`Aimed`).
Numbered is what makes Aimed inductive: a buffer that now holds the speaker's words
does not hold those of the one it is passed to. RemovedEntry is the step that
compacts the array under the walk; `Passed` is every visit that does not.

and of TalkRoom, for any USER_LIMIT and any number of clients and texts:

- `ChildrenRegistered`: `Registered`, with `RoomTypeOK`,
- `NobodyHearsHimself`: `NoEcho`,
- `StopsAfterTheLast`: the action property `StopsLast`.

The invariant (`RoomInv`): there is always a pid for a client that was accepted
(`Counted`, by counting), a child's batch names each event once and its pipe holds a
number if the batch says so (`Batches`), an exited child has its SIGCHLD on the way to
the parent (`Announced`), the table is the children forked and not reaped, and
`sub_process` is its inverse (`Roster`), and a child says its own number only
(`OwnNumber`). For NoEcho it adds, as long as nobody was reaped, that the number a
child was forked with is still its place in the table, so that no two children have
the same segment, and no number is on its way to its own child (`Apart`). After the
first reaped child the last one gets its number and Apart is false: that is where
section 5 says that NoEcho ends. Removing a user is `RemovedUser` for one pid; a SIGCHLD reaps
every exited child in one step, which needs an induction over them.

`TimerProofs` proves of TimeWheel, for any number of timers and slots and any timeouts:

- `ListsLinked`: `Linked`,
- `CallbacksOnTime`: `OnTime`.

That a list has no circle is stated as in Linked: every set of timers has one whose
predecessor is outside of it (`Grounded`), which needs no induction along the list.
For OnTime the invariant says that a set A exists of what tick has still to visit
(`Ahead`: closed under next, from tmp on) such that the turns left of a timer (`Due`: for those in `late`, and N more) are
rotation * N and the way from cur_slot to its slot, a whole turn of the wheel for
those tick has passed (`Counted`). A timer that a callback adds at the head of the
current slot, or deletes from it, changes A; Counted does not depend on which A it is.

and of TimeHeap, for any addresses, any first capacity, any array given to the
constructor, any delays and times:

- `HeapTypeCorrect`: `HeapTypeOK`: the timers fit the array, and each is in it once,
- `HeapAlwaysOrdered`: `HeapOrder`,
- `TickLeavesNone`: the action property `NoneLeft`.

The places a hole passes on its way up or down are a set (`UpPath`, `DownPath`):
closed under the parent or the earlier child, one place per level, earlier or later
than the timer that moves. An array whose places on such a path are shifted by one
level is ordered again, and holds the same timers; this is one lemma for add_timer and one
for percolate_down, which the constructor applies from the last parent to the
root: its loop keeps the order from the current place on. That the recursive functions
exist and yield such paths is shown by induction on the places. HeapInv adds to the type and the order that
tick's tmp is array[0], earlier than nobody and expired: what callbacks add
is not earlier than the clock, so that it cannot take the place of tmp.

Induction over data is done without the theorems of the library, which take an
operator as a parameter: `LeastOf` gives the least element of a set of numbers (from
the well-foundedness of <), and `SetInduction` says that a set with 0 and with n + 1
for each of its n is Nat. The statement to be proved defines the set. For a recursive function the set is of
the n up to which a function with its equations exists.

The assumptions are those on the constants (`RelayAssumption`, `MgrAssumption`,
`NullIsNoConn`, `BalancerAssumption`, `PoolAssumption`, `NobodyAssumption`,
`HttpAssumption`, `ParserAssumption`, `CgiServerAssumption`, `MyTalkAssumption`,
`RoomAssumption`, `WheelAssumption`, `HeapAssumption`); TLC evaluates them in the runs.

Model-checked only is liveness: `Delivery` and `StopFrees` of a session,
`EveryRequestServed`, the two `Shutdown`, the two `Answered`, and `Removed`. PTL cannot
reason from fairness here, nor from ENABLED. The violated runs of section 5 are
counterexamples and need no proof.

## 5. Where the code does not do what it says

Shown by a run that is violated (the comments are quoted in `PROJECT.json`):

- `queue_limit` (`15_5_1_thread_pool.h:81`): the list takes one request more than
  max_requests (`>`). `TaskQueue` is a queue of `Capacity` places; the pool implements
  it with max_requests + 1 and not with max_requests.
- `response_complete` (`15_6_1_http_conn.cpp:418`): write counts only the head of an
  answer and stops when half of it is sent; a large file is cut off, and after
  EAGAIN the answer would start over. `http_server` does not ask what arrives: its
  answers (4 bytes) go into an empty socket (5) at once and block on a filled one.
- `http_parser_bodies` (`15_6_1_http_conn.cpp:293`): after a part of a body
  parse_line moves m_checked_idx over it, and parse_content waits for the whole
  length again, so that a request whose body comes in pieces is not answered when
  it is complete. `cut` are the requests for which the
  answer was NO_REQUEST with a byte of the body there. A body may itself hold an
  empty line, so that the head has several ends for `HeadEnds`; one of them with a
  byte behind it is enough.
- `time_wheel_late` (`11.4_1_time_wheel.cpp:79`): a timer that a callback sets for whole
  turns of the wheel is one turn late, as its rotation is counted from the slot tick
  is still in. `OnTime` says so of these timers (`late`) and of no other.

Excepted by name in a property, which states everything else:

- springsnail, peers that do not wait for each other (`mgr.cpp:205`, 275): after one
  direction has written its buffer, modfd sets the socket of the other back to
  EPOLLIN although bytes may wait to be written to it; nobody writes them any more.
  The model has such peers (`HalfDuplex = FALSE`), and `Delivery` fails with them;
  half-duplex peers (HTTP without pipelining) never get there, which is what
  `PendingIsArmed` and the theorem `PendingArmed` say. StreamsIntact holds for both
  kinds, as no byte is lost.
- springsnail, a server that closes while its last bytes wait for room in the
  client's socket (`mgr.cpp:218`): free_conn discards them. `Delivery` excepts sessions
  of which an end stopped.
- HTTP server, a keep-alive request for an empty file (`15_6_1_http_conn.cpp:556`):
  it falls through to the default case, and its connection is closed, although
  m_linger is set. `LingerKept` excepts this request.
- HTTP server, a connection whose request the pool refuses (`15_6_2_main.cpp:140`): it
  is never armed again and never closed (`refused` in `OneHolder` and `Answered`).
- HTTP server, main gives a number to a new client while a worker is still in
  close_conn for it (`15_6_1_http_conn.cpp:59`), and the worker then resets the new
  connection (`raced`): the properties are about runs without it.
- Parsers: the request line of chapter 8 is split at tabs only
  (`8.6_1_finite_state_machine.cpp:105`, `SpacesRefused`); a line of chapter 15 that is
  none is NO_REQUEST and not BAD_REQUEST (`15_6_1_http_conn.cpp:341`, `ErrorMissed`); in
  an exactly full buffer the zero behind the body is one byte behind the buffer
  (279, allowed by `ParserTypeOK`).
- Talk room, SIGTERM (`13_6_1_shm_talk_room.cpp:123`): between the test of
  stop_child and epoll_wait the child does not see it, nor before its handler
  is installed or before it is forked, and the parent waits for it for ever
  (`unreached` in `Shutdown`). A client accepted later in the batch in which
  stop_server was set (377) gets a child that outlives main.
- Talk room, numbers (358): after a user left, two children may use the same segment,
  and a client is sent its own words; `NoEcho` is about the time before.
- Chat server on poll (`9.6_2_mytalk_server.cpp:189`): a client that closes and is reset
  between the poll and its visit kills the server (`killed` in `Removed`; `Usable`
  says that it is the only way). `users[]` of the last user is copied over that of
  the one that left (136), also its buffer, to which `write_buf` of others still
  points: they are sent words of another user, perhaps their own. `Foreign` excepts
  these buffers (`copied`).

Kept in the models, and said here because the properties allow for it:

- springsnail: a late event for a closed number leaves a NULL entry in `m_used`
  (mgr.cpp:153) that hides a later session with that number from its events; the
  safety properties of ConnMgr hold in spite of it. The parent may choose a child
  that is gone, or choose by a number that is several ratios in one `int`; a client
  then waits until another one connects. So it does when several connect at one edge.
- HTTP server: data that comes behind a request is dropped by init.
- Talk room: every edge is answered by one recv, so the second of two numbers in a
  pipe waits for the next edge.
- CGI server: two clients that connect at one edge of the listening socket give one
  message, and a child takes one message per edge of its pipe: the others wait for
  the next connection. A message to a child that has exited and is not yet reaped
  is lost. `Answered` is therefore about clients that were accepted. process()
  reads `m_buf[-1]` for the first byte (`&` instead of `&&`, line 65) and does not
  use it. A signal before setup_sig_pipe has installed the handlers ends the process.
- Chat server on poll: `events |= ~POLLIN` (175) is commented as closing the readable
  event and sets all other events instead; POLLOUT stays asked for from then on, so
  that poll returns at once for ever after. What a user sent before it left and was
  not read yet is dropped (132). A second text overwrites the first in the buffer of
  its author before all are sent it.

## 6. Bounds of the models, and what is not modelled

Named bounds in guards: `MaxClients`, `MaxFail`, `MaxEnds`, `MaxCrash`, `MaxStops`,
`MaxEintr`, `MaxStale`, `MaxPieces`, `MaxTexts`, `MaxInputs`, `MaxTime`, `MaxConnects`, `MaxWords`, `MaxLeaves`, `Clients`,
`Cuts`, `Rounds`, `NFd`, and the addresses in `Timer`.

Not modelled: failure of fork, pipe and epoll_create (the programs stop; a fork
of the CGI server that fails is in `Line`); the count of a child sent as one byte
(256 entries look idle); m_user_count of the HTTP server, changed by main and the
workers without a lock, and its limit of 65536; mapping a file and overflow of the
write buffer; the destructors, of which that of the thread pool frees the list,
mutex and semaphore while detached workers may be asleep in wait; what a child of
the talk room does after its parent has returned; the client of the chat server on
poll; configuration and log of springsnail. The remaining chapters are
demonstrations of one call each: they have no state that outlives a few lines, and
what they show of edge triggering and EPOLLONESHOT is in the servers' models.

## 7. Plan

Done, in this order: ConnRelay, ConnMgr, Balancer, ThreadPool with TaskQueue,
proofs of ConnRelay and ThreadPool, HttpServer, TimeWheel, TimeHeap, TalkRoom,
HttpParser; then CgiServer, MyTalk, ConnPool and its refinement by ConnMgr, the
array constructor of the time heap, and the proofs of MyTalk; then the proofs of
ConnMgr with its refinement, HttpServer, Balancer, CgiServer and TimeWheel, and
PendingIsArmed of ConnRelay; then those of TimeHeap, TalkRoom and HttpParser, for
which process_read became a function over its rounds.

What is left:

1. HttpServer and HttpParser meet at process_read only by their comments. With
   ParserAlwaysAgrees the server's free choice of an answer could be an INSTANCE
   of the parser, on messages of few bytes.
2. An abstract specification of the two chat servers: who has been sent which
   text, in which order, as a PROPERTY of both.
3. The destructor of the thread pool, with the workers it leaves behind.
