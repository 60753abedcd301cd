# A TLA+ model of as_proxyd

as_proxyd is an HTTP proxy in front of an Aerospike cluster: a boost::asio
server whose worker threads parse requests, fetch a record through a pool of
Aerospike clients, and answer with JSON.  This directory holds a model of it in
TLA+, the TLC configurations that check the model on small instances, and
theorems that TLAPS proves for every instance.  Paths below are those of the
repository.

## 1. Inventory

| Part | Source | State | Operations |
|---|---|---|---|
| server | `src/server.cpp`, `src/main.cpp` | worker threads, health timer, acceptor, `isHandleStop`, `io_service` | `run`, `handle_timer`, `start_accept`, `handle_accept`, `handle_stop`, joins and deletion in `main` |
| handle pool `AS_CONTROL` | `include/as_control.hpp` | `rAsList` (thread id to `AS_OBJECT *`), `mthreadList`, `as_server_list_` | `GetAsObject`, `Initialize`, `CheckAsServersStatus`, destructor |
| handle `AS_OBJECT` | `include/as_object.hpp` | the client `as_`, `isalive_`, `as_err_` | constructor, `GET`, `AS_OBJECT_STATUS`, `AS_OBJECT_RECONNECT`, conversion of bins to JSON; `PUT`, `REMOVE` and `isAliveAsServer` have no caller |
| connection | `src/connection.cpp`, `include/connection.hpp` | socket, `buffer_`, `request_`, `reply_`, parser, `keepalive_` | `start`, `read_more`, `handle_read`, `handle_write`, `reset` |
| request parser | `src/request_parser.cpp` | `state_`, `body_bytes_`, the request it fills | `parse`, `consume`, `reset` |
| request handler | `src/request_handler.cpp` | none of its own | `url_decode`, `parse_query`, `handle_request` |
| reply | `src/reply.cpp`, `include/reply.hpp` | status, headers, content | `to_buffers`, `stock_reply`, `clear` |
| configuration | `src/ini.c`, `src/INIReader.cpp` | section, previous name, values | `ini_parse_file`, `ValueHandler`, `Get`, `GetInteger` |
| codecs | `src/wp_base64.cpp`, `src/as_gzip.cpp` | none between calls | `base64Decode`, `gzdecode`; `base64Encode`, `base64DecodeToData` and `compress_gzip` have no caller |
| the rest | `util`, `mime_types`, `microtime`, `jsonutil`, `reader.h` | none that matters | text, tables, time stamps |

How the parts interact.

- `main` reads the configuration, creates the pool, then the server.
  `server::run` spawns the workers, each of which runs `io_service::run`, calls
  `Initialize` while they are already serving, and joins them.
- Any worker can be given any handler that is ready: an accept, a read or a
  write of a connection, the health timer, or the signal handler.  A
  connection's handlers go through its strand; the timer and the pool have no
  such protection.
- A request handler calls `GetAsObject`, which looks up the object of the
  *calling thread* in `rAsList` and creates it when it is missing.  The timer
  handler walks over all of `rAsList` on whichever worker got it.
- `handle_stop` sets `isHandleStop` and stops the `io_service`; the workers
  leave after the handler they are in, `run` joins them, and `main` deletes the
  pool.

What is hard about it: an unlocked hash map that workers, the main thread and
the timer extend and walk at once; lazily created objects; the order of
shutdown; a chain of asynchronous operations whose buffers are shared by
reference; a parser, request and reply that are reused for every request of a
connection; input that arrives in arbitrary pieces; a cluster that goes away
and comes back.

What makes each part correct.

- *Pool*: no two requests use one `AS_OBJECT`, none is used after its deletion
  or while it is NULL, the map stops changing once it is complete, each object
  is deleted once, dead handles recover.
- *Connection*: one operation at a time; a reply is not changed while it is
  written; one reply to each request, in order; the `Connection` header tells
  the truth; every complete request is answered; the object is freed.
- *Server*: accepting never ends before a stop, no accepted connection is lost or
  handled by two workers at once, the pool outlives every handler, a stop signal
  ends the process.
- *Request handler*: every JSON object and record is freed once on every path, the
  bins of a reply are those of one version of the record, the values a client
  encodes into a query are the values used.
- *Handle*: no call reaches a client library that has no cluster object; a
  reply shows only bins that were read; a call returns its own outcome, though
  the health check writes the same `as_err_`; what is put is what is read; the
  handle comes alive with its cluster.  The shuffle of the shared list of
  servers loses none of them.
- *Codecs*: what is packed unpacks, at every length of the last group; no write
  outside of a block; every block and state of zlib released on every failure;
  a buffer grows only for want of room.
- *Configuration*: the hosts the file means are the hosts the cluster gets.
- *Parser*: no access to a header that is not there; a body of exactly the
  declared length; nothing left of the request before; sections in order.

## 2. Modules

| Module | What it is |
|---|---|
| `AsControl` | the pool, its threads, the timer, start and shutdown |
| `HandlePool` | the abstract pool that `AsControl` implements |
| `AsControlProofs` | theorems about `AsControl` |
| `RequestParser` | the parser, fed one character at a time, and `reset` |
| `RequestSections` | the abstract parser: sections, headers and bytes to come |
| `RequestParserProofs` | theorems about `RequestParser` |
| `Connection` | one connection, its client and their TCP stream |
| `ConnectionProofs` | theorems about `Connection` |
| `Server` | accepts, connections, timer, signals and the pool, composed with `HandlePool` |
| `ServerProofs` | theorems about `Server` |
| `RequestHandler` | the dispatch, `GET` and the conversion of bins |
| `RequestHandlerProofs` | theorems about `RequestHandler` and `Query` |
| `Query` | `url_decode`, the split of the URI and `parse_query` |
| `Base64` | `base64Encode`, `base64Decode`, `base64DecodeToData`, loop pass by loop pass |
| `Gzip` | `gzdecode` with its buffers and its caller, `compress_gzip` |
| `CodecProofs` | theorems about `Base64` and `Gzip` |
| `AsObject` | one handle, its owner and the health check, `isalive_` and `as_err_` |
| `AsObjectProofs` | theorems about `AsObject` |
| `HostList` | the list of servers that all constructors shuffle |
| `HostListProofs` | theorems about `HostList` and `IniFile` |
| `IniFile` | the configuration file, `INIReader` and the list of servers |
| `MC...` | the instances TLC checks |

The modules that share a run (`RequestHandler`, `Query`, `Base64` and `Gzip` in
`MCRequest`, `IniFile` and `HostList` in `MCHosts`) have no state in common: a behaviour of
the run is one of one of them, so that their properties are checked side by
side and their states are not multiplied.  Where two of
them would clash, `Init`, `Next` and `Spec` bear the module's name.

`Server` takes from the others what it does not repeat: its pool is the
specification that `AsControl` is shown to implement, its connections are the
chain of operations that `Connection` has in detail, whose parser is judged as
`RequestParser` does, and whose `handle_request` is `RequestHandler` on the
parameters that `Query` reads.

### AsControl

Each thread has a `pc`.  A worker is in the `io_service` (`run`), in
`GetAsObject` (`count`, `fill`, `fetch`), in `AS_OBJECT::GET` (`get`,
`getnet`), in the health check (`tick`, `status`, `reconnect`), in
`handle_stop` (`stop`) or has left (`exited`).  The main thread spawns, runs
`Initialize` (the same `count` and `fill` with the key of another thread),
joins and deletes.

`rAsList` is a list of nodes, of which some are reachable (`linked`).
`operator[]` is a search (`Subscript`) and, on a miss, the linking of a new node
with a NULL pointer (`Link`); the assignment is a third step (`Assign`), and
`new AS_OBJECT` (`Construct`) comes before or after the subscript as the
constant `NewFirst` says, because the language leaves the order open.

The map has no lock, so two threads inside it are a data race.  The model
makes a race a choice of what a build can do: a search during another thread's
insertion may miss, an insertion may drop nodes that were linked since it
began, and an iteration over a map that grows may see the new node, miss it, or
end.  `MaxAllocs` bounds how long races misbehave.  A race can also crash the
process; safety properties speak of every prefix of a behaviour, so a crash
adds nothing to them, and the liveness properties are about runs without one.

`obj` has, for each `AS_OBJECT`, the key it was constructed for, `isalive_`
and how often it was deleted.  `alive` is read once, at the start of `GET`, and
again by the health check, which reconnects what is dead.  `up` is the cluster.

### RequestParser

Characters are fifteen classes; every comparison in `consume` tells classes
apart and never two members of one.  The transitions that depend only on the
character are the tables `LineMoves` and `HeaderMoves`; the others are actions
(`StartLws`, `StartHeader`, `EndName`, `ValueChar`, `EndHeaders`, `BodyChar`),
and `Bad` is every character that no transition takes.  A header keeps its name,
chosen at the `:`, and the number `atoi` reads from its value, which every
value character may change.  `body_bytes_` starts with any value: the
constructor does not set it.

### Connection

A request is two parts of the byte stream, of a kind: it wants keep-alive, it
wants the connection closed, or it is malformed.  A read delivers any number of
parts that fit the buffer; what the parser does with a part that continues what
is in `request_` is given by the kind, and with any other part it may do
anything.  What follows a verdict in the buffer is dropped, as `handle_read`
drops it.

`reads`, `writes` and `written` count the operations under way and completed
ones whose handler has not run; `handler` is the handler that runs.  A handler is
two steps where it calls the parser and then acts on the verdict.  A write
takes the contents of `reply_` when it completes, as the buffers of
`to_buffers` refer to it.  The connection is destroyed when neither an
operation nor a handler holds its `shared_ptr` (`Alive`).  The client may send a
request in pieces and leave at any time; whether it is `orderly`, and waits for
each reply and sends proper requests, is chosen at the start.

### Server

Every asynchronous operation that completes puts its handler at the end of
`queue`, and a free worker takes the first.  A connection object is an index of
`ops`, the operations under way on it; the last object is `new_connection_`,
which is what `handle_accept` starts and `start_accept` replaces, in two steps
between which other workers run.  A request works with a handle between
`GetBegin` and `GetEnd`, which are the actions `Acquire` and `Release` of
`HandlePool`; deletion is its action `Free`.  Handles are created (`CreateHandles`)
until main has joined all workers: `Initialize` runs in main and may still be at
it when they have left.  A stopped `io_service` makes no
more handlers ready; what is left in the queue is destroyed by `DestroyServer`,
after the pool.  The strand of a connection is left out: `OneHandler` is the
reason that it never has to hold anything back.

### RequestHandler

One worker, one request after the other, while other clients of the cluster put
and remove the record (`Write`).  `refs` counts for each of the two JSON
objects the references that this code must drop, `recRefs` the same for the
record.  A bin is one of twelve kinds, by what the conversion does with it; the
value of a list or a map, and a record that is not found, are choices.  A
"packed" string may be delivered or lost: base64 of plain JSON is handed to
`gzdecode` first, and some JSON texts happen to be a complete deflate stream of
something else.

### AsObject

The worker that owns a handle is in `GET`, `PUT` or `REMOVE`, and the worker that
runs the timer in `AS_OBJECT_STATUS` or `AS_OBJECT_RECONNECT` of the same handle.
A call tests `isalive_` (`Begin`), resets `as_err_` and enters the client library
(`Call`), waits for the network, and, if that fails, has the error written and
then read again as the return value (`Fail`, `ReturnCode`): between any two of
these the other thread may write the same error.  `got` remembers what really
became of the call, `mixed` that the timer wrote meanwhile.  `OwnStatus` is about
calls that were not mixed; a failed GET can indeed return `AEROSPIKE_OK` when
the timer resets the error at the wrong moment, and `BinsAreRead` says why that
shows no foreign bins: the record was initialised empty.  A write that fails may
have been done (`doubt`).  `IsAliveAsServer` may run whenever the timer is idle.

A value is a kind: what PUT makes a bin of, and what GET makes of this bin.  Every
text of a bin is decoded as base64, so texts have kinds of their own (`Texts`): one
that decodes to nothing is delivered as it is, one that is base64 of an object or
array is delivered as that object or array (`Meant`), or as nothing when its JSON
happens to read as a deflate stream, and any other is lost, among them the digits
that PUT writes for most reals.  `PutIsRead` says of each kind which it is.

PUT, REMOVE and `isAliveAsServer` (with `GetAsHealthStatus`) are called by nothing
at this commit; they are modelled for the programs that will.

### HostList

`random_shuffle` swaps the elements of the one `as_server_list_` in place; a swap
is three steps (`PutAside`, `MoveUp`, `PutBack`).  Constructors on two threads can
thereby lose a server of the list for good, and give a handle one host twice.
`HostsAreServers` says what holds all the same: every handle gets as many hosts as
there are servers, all of them servers, and each of them once when the
constructors ran in turn.

### Base64 and Gzip

`Base64` has bytes and characters as numbers and makes one pass of a loop a
step.  A text was packed by `base64Encode` or is any text.  The reference,
`BytesIn`, is the bits of the characters.

`Gzip` has a string as its length, how it reads as a deflate stream (whole, cut
short, or corrupt) and the size of what comes out.  Every allocation, and
`inflateInit2` and `inflate`, may run out of memory.  `blocks` has the size of
every block `realloc` has returned and `heap` those that are allocated;
`Length % UInt` is what `avail_out` keeps of the length.  The commented length
of the code ("16 times greater") is 2^15 times at most: a stream that ends too
early makes the loop try all twelve sizes before it gives up, which `WholeIsRead`
allows for this kind of stream only.  `compress_gzip` writes a
gzip header, which `gzdecode` does not read, so there is no round trip to check
between the two.

### Query

A client means a value for `key` and one for `set` and writes both into a URI,
character by character, encoding what it must and what it likes.  The operators
`url_decode`, `Query` and `Param` are what the handler makes of the URI.
Characters are their codes.

### IniFile

A writer means a list of hosts by each name and writes the file line by line
with every layout of the format; with each line the loop of `ini_parse_file`
runs for every piece that `fgets` makes of it.  `as_server_list` is what `main`
and `AS_CONTROL` make of a value.  The writer keeps to lines and names that
fit the buffers, writes each name of a section once, indents a line that is no
continuation only where there is nothing to continue, and puts comments behind
values that are not empty.  `bad` is the first line that is neither a section
nor a pair, `full` the number of lines before it whose newline did not fit.  Names, sections
and hosts always fit, lines end without a carriage return, and tabs come only as
indentation.

## 3. Runs

| Run | Instance | What it shows |
|---|---|---|
| `pool_races` | 2 workers, subscript first, races until 3 allocations | all safety properties hold with every misbehaviour of the map; `AsControl` implements `HandlePool`; the map settles, and is complete when no request came early |
| `pool_live` | 1 worker, `new` first, 3 cluster changes | dead handles recover |
| `server` | 2 workers, 2 clients, 1 failing accept | the accept chain, the connections and the order of the end; a signal at any point ends the process |
| `parser` | contents up to 3, 3 headers | all of the parser's properties |
| `connection` | 3 requests of any kind, pipelined or each after the reply, 3 parts to a read | what holds for any client, and one reply each, in order and always, for an orderly one; the connection is destroyed after its client left |
| `connection_keepalive` | 2 requests of any kind | *violated*: see findings |
| `request` | 5 paths, records of up to 2 bins of every kind; `Query`: 8 characters, values of up to 3 and 2; `Base64`: 5 bytes, 5 characters, up to 5 of each, buffers of 1 to 4; `Gzip`: lengths 1, 2 and 4, `uInt` of 4096 values, blocks of 3 | ownership of objects, complete bins, results only of a read; values arrive as meant, except for `&`; what is packed unpacks; what inflates is read, inside of the blocks |
| `handler_strings` | records of scalars and words | *violated*: see findings |
| `as_object` | records of 2 bins, 4 kinds of value, an unreliable cluster | the guards, the error and the record of a call under the health check; what is put is read; the handle comes alive |
| `config` | 4 lines of up to 13 characters, 2 sections, 2 names; 3 servers, 2 constructors on each of 2 threads | hosts arrive as meant; errors are reported exactly for bad lines; constructors in turn lose no server |
| `config_readme` | values closed by `";` | *violated*: see findings |
| `config_errors` | the lines of `config` | *violated*: see findings |

Bounds.  Two workers and the main thread are enough for every pair of threads
that can meet in the map, and for a third (the timer runs on a worker). The
races add at most `MaxAllocs` nodes and objects to the two each that an orderly
start makes, so that double creation, a lost node and a re-creation all
happen.  One worker is enough for the liveness of the pool: recovery is a
property of the timer chain (that a stop ends the process is left to `server`,
where two workers can be inside handlers when the signal comes); three
changes of the cluster make it fail, recover and fail again.  A content of 3
has a first, a middle and a last byte, and 3 headers
allow two content-lengths and another.  Three requests and three
parts to a read make every cut of two requests happen, and leave one for the
connection that was confused by it.  In `server`, two clients and an error make
four connection objects, so that an object can be new, busy and ended beside
the others while both workers are inside handlers.  Two bins make every kind
come before every other.  A value of three characters can hold a whole pair
(`&s=`); the alphabet has every character the handler's code compares with, and
two that are none of them.  Five bytes are a group and each of the two shorter
ones behind it; 0, 63, 64, 170 and 255 have every pair of bits at the borders of
characters, and the texts have characters of the alphabet, `=`, and one that is
neither.  The sizes of `Gzip` are at and around the lengths of the first and the
later buffers, at half and at all of `UInt`, which is small enough for lengths to
exceed it and large enough for eight doublings before; three is the smallest block that has a
first, a middle and a last byte.  In `as_object`, `null`, an array and two texts
are stored as nothing, as bytes, and as strings of which one is delivered as it is
and the other unpacked or lost; the theorem has every kind.
Three servers are one more than a swap touches.  Four lines are a section, a value, its continuation
and one more at any place; with 13 characters a value with all its trimmings
fills the buffer to the last character, and names of 2 fill theirs.

Fairness.  In `AsControl` every thread that can step does (weak fairness of
each: the operating system schedules threads, and the network calls of the
client library return or time out); the timer's handler is in the FIFO queue of
the `io_service`, so requests cannot overtake it for ever (strong fairness).
Requests, signals and changes of the cluster need not happen.  In `Server` the queue is
explicit and first-in-first-out, so that weak fairness of each worker and of what
main does after `Initialize` is enough, with an acceptor that accepts a client that waits; clients need not connect or
send.  In `Connection`
the `io_service` runs ready handlers and TCP completes operations (weak fairness
of the server's steps), and a client that has begun a request sends all of it
and reads its reply.  In `AsObject` the timer fires again and again (its chain is
what `DeadHandlesRecover` of `AsControl` is about), and the calls of the client
library return (weak fairness of the timer and of a call that has begun); calls
need not be made.

`PoolSettles` and `PoolComplete` state what protects the pool in practice:
after the start, when every worker has its entry, no one writes the map again,
so its unlocked readers race with no one.  Before that, an early request can
race with `Initialize`; `PoolComplete` is therefore conditional on `~early`, and
the runs show that it is the only condition needed.

Findings.

- `connection_keepalive`: `keepalive_` ("HTTP/1.1 keepalive enabled?",
  `include/connection.hpp:64`) is neither initialised nor assigned when a request
  is rejected, so whether the connection is kept open after the 400 reply is
  decided by uninitialised memory or by an earlier request.
- `handler_strings`: a string bin whose letters are base64 of anything that is not
  JSON, such as the "user1" of README.rst's example, is left out of the reply.
- `config_readme`: the `;` with which README.rst and `conf/config.ini` close the
  list of servers is no comment for the parser and stays in the last host.
- `config_errors`: `ini_parse_file` counts what `fgets` returns (`src/ini.c:91-92`); a
  line whose newline has no room in the buffer counts twice, and the "line number
  of first error" (`include/ini.h:29`) of every later line is too high.

Beside these, README.rst differs from the code in ways that need no run: PUT and
DEL (README.rst:126-149) are answered 200 with nothing done
(`src/request_handler.cpp:154-178`), and the reply to a GET has `results` and
`took` in place of the fields of README.rst:91-104.

## 4. Theorems

### AsControl

For every set of workers, both evaluation orders and all bounds:
`TypeCorrect`, `PoolInvariant`, `HandlesAreExclusive`, `HandlesOutliveUses`,
`PoolStaysSettled`, `PoolRefinesHandlePool` and `PoolIsComplete`.  Assumptions: main
is not a worker and the workers are a finite set; the bounds are natural numbers.

`ExclusiveHandle` is not inductive: that two workers hold different objects
follows from where they got them.  `OwnersMatch` is the strengthening: an
object was constructed for the key of each node that points to it, a node
returned to a thread has that thread's key, so the object a worker passes to
`GET` was constructed for this worker, whatever a race lost or doubled.
`HoldsInPlace` says where a thread can have a node or an object in its hands,
which each step of the map needs.  `DeletedLast` says that an object is deleted
only after all joins, when no worker is inside a handler, which gives
`NoUseAfterFree`.  Together with `TypeOK` they are `PoolInv`, which is inductive,
one lemma per action.  The refinement maps a worker's handle to the object it
passed to `GET`, the live handles to those never deleted; the second deletion of
an object would be a stutter there, and `PoolComplete` excludes it.

`PoolIsComplete` needs more, for the behaviours in which no request came early.
`Quiet`: until `Initialize` is over, main is the only thread inside the map (the
health check only walks over it), and afterwards the map is settled, so that
`SettledStep` says that it stays as it is.  `Mapped`: the workers that were
served have one node each, with an object, and there is no node or object but
these and the ones main has in its hands.  `Deleting`: of the nodes, those that
the destructor has visited have objects deleted once.  Since the object of a
node was constructed for its key (`OwnersMatch`) and no key has two nodes, the
second search of the destructor finds the node it came from, and the owners
make a bijection from the objects to the workers.

### RequestParser

For every limit and every stream of characters: `ParserTypes`,
`BackIsDefined`, `BodiesAreDeclared` and `ParserRefinesSections`.  The invariant
`ParserInv` is the conjunction of the four safety properties: that
`body_bytes_` plus the content read is the declared length needs the content
to be empty before the body (`CleanStart`), and every header step needs a
header (`NoBackOfEmpty`).

### Connection

For every client and buffer: `OperationsAreChained`, `HeadersAreHonest` and
`RepliesAreStable`, from an invariant of the counters and flags alone;
`ConnectionTypes`; and `RepliesAreMatched`, for any number of requests and any
cut of them into reads.  That replies match is inductive only with an account of
where the parts of the client's requests are, which is `InTurn`: an orderly
client is at most one request ahead of its replies, what it has sent of this
request is what is in `request_` followed by what is in the stream, and
`reply_` answers it from the verdict until the write has completed.  The
`reset` between two requests is what re-establishes it.

### RequestHandler

For every set of paths and bins and records of any length: `ObjectsAreFreed`,
`ConversionIsComplete`, `ResultsAreOfTheRead` and `HandlerTypes`.  `HandlerInv` says
for each phase who owns which object (`Ownership`), what is known of the read
and the reply (`Progress`: bins other than none come from a read that
succeeded), and that the bins behind the iterator are converted (`Converted`).

### Query

For every alphabet of bytes and values of any length: `ValuesArrive`, that is
`RoundTrip`.  `QueryInv` says that what the client has written means its values: in
whatever text it stands, `url_decode` makes the value of it and goes on behind
it (`Meanings`), which is kept when one character, encoded or not, is written at
the end.  `url_decode` is a recursive function, from the end of the text; that it
exists and is the one its definition describes is an induction in the form of a
set of places.  So the decoded URI is the URI of the values themselves
(`QueryIs`), and what `parse_query` makes of it follows from where its first `&` and
`=` are: the pair of `set` is the last one whatever `key` contains
(`SetIsRead`), and that of `key` is whole unless `key` contains an `&` (`KeyIsRead`).

### Codecs

For every sequence of bytes and every text: `UnpacksAlways` and `DecodesBitsAlways`.
`Base64Inv` relates the text to the
data group by group (`Grouped`, `TailAt`) and says of the decoder which groups it
has unpacked (`Unpacked`); that a character is found again, and that each byte
comes back from its bits whatever the missing characters of the last group give,
are lemmas of their own.  `DecodesBits` compares the decoders with `BytesIn`,
which speaks of single bits and of all characters at once.  `Hold` is the bridge:
the bytes delivered so far are, group by group, the three that four values make
(`Byte1`, `Byte2`, `Byte3`), and a lemma shows that these are the bytes in the bits.
`BitsInv` is that `base64Decode` has read nothing but characters of the alphabet
(`Reading`), and that `base64DecodeToData` has in `a` what the last, incomplete
group of them holds and has stored the groups before as far as the buffer had
room (`Filling`).  Which characters those are is a recursive function of the text
(`OfAlphabet`); what the proofs need of it is shown by induction, stated for the set of
the lengths for which it holds: the smallest element of a well-founded order
(`WFMin`) takes the place of the induction theorems that the provers cannot use.

For every input and any widths: `StaysInBlock`, `ReleasesAll`, `ReadsTheWhole` and
`StreamIsWhole`.  `GzipInv` says for each phase which blocks are allocated
(`Buffers`); `Tried` says that every pass before this one was in vain, for want of
room or because the stream is cut, which is what the end of the loop needs to
know of all its passes; `StreamInv` says that what was copied is the beginning of
the stream.

### AsObject

For any bins and any kinds of value: `HandleTypes`, `OnlyConnectedCalls`,
`OnlyReadBins`, `CallsOwnTheirStatus` and `PutsAreRead`, the last for all kinds of
value.  Three invariants, each on
top of the one before: `Places` (a thread inside a call has a cluster object,
unless it is the one that reconnects, and then nobody can reset its error),
`Outcome` (until it returns, a call that was not mixed with another has its own
error, and a record only if it got one), `Kept` (the record is what was put, and
a GET that succeeded has read this one).

### HostList

For every list without duplicates, any threads and any number of handles:
`HostTypesHold` and `HostsStayServers`.  That the list keeps its length and holds
nothing but servers is `HostTypes`, and needs to know where a thread is in its
swap (`Place`).  That constructors in turn lose no server is `Turns`: as long as
no two met, there is at most one inside (`Alone`), the list has each server once,
or would have it after the element put aside is put back, and the handle under
construction has the beginning of the list.  That a swap keeps each server once
is a lemma about sequences of any length.

### IniFile

For every alphabet, buffers and names of any size, lists of hosts of any length
and a file of any number of lines: `ErrorIsTheFirst` (`FirstErrorKept`) and
`HostsAreRead` (`HostsRead`).  Neither is inductive: the number of an error is
that of a line only if the parser has counted the lines, and a continuation goes
to the right key only if `prev_name` is the name written last.  `ReadInv` has
three parts.  `Lined`: the parser has counted the lines, and one more for each
whose newline was left over, and the error is a number of this kind (`Numbered`).  `Placed`: it is in the section the writer is in,
and `prev_name` belongs to the writer's last key, or is empty after a section.
`Collected`: the keys are those the writer gave, and each value, cleaned, is the
hosts it means with a ',' between them, and a ',' at the end while the line goes on.

A line is followed from the writer to the reader: it is one piece, or two of which
the second is blank (`PiecesOne`, `PiecesTwo`); stripped of its mark, indentation
and newline it is the text that was written (`LineStart`), which each kind of
line is parsed as (`SectionParsed`, `PairParsed`, `MoreParsed`, `BadParsed`,
`NothingParsed`).  Cleaning goes part by part (`CleanedConcat`), the hosts of a
continuation follow those before it (`JoinedConcat`), and splitting gives back
what was joined (`JoinedParts`).  `Cleaned`, `Parts` and `Joined` are recursive
functions; what the proofs need of them is an induction in the form of a set of
lengths (`SetInduction`), as in Codecs.

`HostsAreRead` has one hypothesis, `Closed`: what the writer puts behind the hosts
is made of quotes and has no ';'.  The run `config_readme` shows that without it
the hosts of README.rst's own example are not those that were meant.

### Server

For every set of workers, clients, handles and failing accepts:
`PoolDeletedLast`, from what the place of main says of the workers;
`ServerTypes`; `StrandIsIdle` and `ChainUnbroken`, from `ServerInv`.  That one
handler of a connection is in progress is a statement about three places where
it can be: an operation under way, a handler in the queue, a handler on a worker.
`Alone` says that an object has at most one of the three, and each of them at
most once.  `Accepting` says that there is one accept, that it is of the last
object, that there is none while a worker is between `start` and
`start_accept`, and some until the server is destroyed.  `Owned` says that an
object without a client has no other operation, and that one with a client has
something in progress until it ended.  The steps are sorted by what they do to
the three places (`Completes`, `Posts`, `Takes`, `Answers`, `Gets`, `Destroys`),
so that each conjunct is proved for six shapes and not for every action.

### Only model-checked

Liveness (`DeadHandlesRecover`, `StopTerminates`, `EveryRequestAnswered`,
`ConnectionFreed`, `ClientsServed`, `ComesAlive`), which needs fairness and
ENABLED, beyond the prover.

Proved and not part of a run: the type invariants of `Connection`, `Server`,
`RequestHandler` and `AsObject`, and `PoolInv` and `CompleteInv`, from which
properties of the runs follow.

## 5. Not modelled

The text of replies, status strings, MIME types, logging and time stamps; memory
of the client library (the record that `AS_OBJECT_STATUS` does not destroy);
overflow of the HTTP version and of `atoi`, which are undefined in the
language; `GetInteger`, which is `strtol`; the inside of zlib; the 20 bytes that
`doubleToLPSTR` copies of a shorter text and leaks; `GetAsHealthStatus` as a whole,
`GetBoolean`, `get_byte` and the `getConfig` helpers, which nothing calls; most of
`util.cpp` and `jsonutil.hpp`, which nothing calls either.  Exceptions that
leave a handler end the process and are not modelled either.

## 6. Plan

What is left, most important first.

1. An abstract specification of `Server` (each client gets its replies, in order,
   or the server stops) that `Server` implements.
2. The version of the request line: its digits are accumulated in an `int`
   without a limit, which `RequestParser` leaves out.
