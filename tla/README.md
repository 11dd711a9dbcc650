# TLA+ models of looka

looka is a small full-text search engine. `looka-indexer` fetches documents from MySQL, segments
them and writes an inverted index and four files of attributes. `looka-searchd` loads those files
and answers queries over HTTP from a pool of threads that share one epoll instance. Both read a
configuration file with inheriting sections.

Paths below are relative to the repository's directory `src/`, but for `looka.conf`, which stands in
its root. `PROJECT.json` maps every definition to the
lines it models, and lists the hazards each property is for.

## 1. Inventory

| part | code | state | operations |
|---|---|---|---|
| event loop | `http_frame/http_server.cpp` `Start`, `Stop`, `Run`, `AddEvent`, `DelEvent` | `m_running`, `m_epoll_mutex`, `m_epoll_ready_events` and its counter; per thread a descriptor and a reply; in the kernel the accept queue, descriptors, registrations, edges | create threads, wait, pop, accept, serve, close, stop |
| one connection | `HandleRequest`, `ReadHttpHeaderTimeout`, `ReadHttpContentTimeout`, `ReadOnceTimeout`, `SendReply`, `WriteTimeout` | read buffer, header, bytes left, one `timeval` that every `select` shortens | read header, read content, call handler, write reply |
| request and reply text | `http_frame/http_request_parser.cpp`, `http_reply.cpp` | none | split, decode, format |
| search | `looka_intersect.cpp`, `searchd/looka_searchd.cpp` `Process` | candidate, list index, count, window | seek, leap, filter, count |
| filters and answers | `searchd/looka_request.cpp`, `looka_result_packer.cpp`, `DropByFilter`, `GetAttrNameIndex` | the names of the attributes | parse a filter, find an attribute, show a document |
| index files | `looka_file.cpp` | five files; in searchd the inverted index, the summary and the names | write, read |
| indexer | `indexer/looka_indexer.cpp`, `looka_inverter.hpp`, `looka_types.*` | next id, posting lists, attributes | check columns, process a row |
| MySQL client | `looka_mysql_wrapper.cpp` | connection, current result | connect, query, fetch, dismiss |
| configuration parser | `looka_config_parser.cpp` | sections of each tag | parse, inherit, look up |
| typed configuration | `looka_config_*.cpp` | copies of items | read an item, or its default, or exit |
| the two programs | `searchd/looka_searchd_main.cpp`, `indexer/looka_indexer_main.cpp` | the list of indexes | choose indexes, start, stop |
| token ids, segmenter, strings, log, `reader_test`, jsoncpp | `looka_str2id.cpp`, `looka_segmenter.cpp`, `looka_string_utils.cpp`, `looka_log.hpp`, ... | none that matters here | |

How they interact:

* The indexer's `DoIndex` drives the MySQL wrapper row by row, gives each row to `ProcessDoc`, and
  when the rows are over writes the five files one after the other.
* searchd's `Init` reads those files once. Nothing but the file system stands between the two
  programs: neither knows whether the other one runs.
* searchd's `main` registers `LookaSearchd::Process` as handler of the HTTP server. Every thread
  of the pool runs `Run`; under the one mutex it waits, pops an event, and accepts; outside it
  reads a request, calls the handler, replies and closes.
* The handler is read-only on the index, so that queries do not disturb each other, but for the
  segmenter, which a mutex guards. It parses the parameters, runs the intersection, drops documents
  by the filter, and packs the window.
* Both programs start by parsing the configuration, whose values decide the rest.

What is hard:

* *Concurrency*: a thread closes a socket without the mutex while others pop events and accept
  under it, and the kernel hands the number out again at once; events are edge-triggered, so one
  that is lost never comes again; `epoll_wait(-1)` blocks with the mutex held.
* *Failure*: `accept`, `epoll_ctl`, `epoll_wait`, `pthread_create` fail; a query fails; a file
  cannot be opened or written, or the indexer crashes between two of the five files.
* *Ordering*: `read()` cuts a request anywhere; the readers of the four kinds are the operands
  of `&`, which the compiler may evaluate in any order; a parent must stand before its children.
* *Time*: one budget for all reads of a request and one for all writes of its reply.
* *Numbers*: `offset + limit` in `int`, sizes in `uint8_t`, a counter compared and decremented in
  one expression, hash collisions.

What makes each part correct is stated with its module in section 3.

## 2. Plan

| step | modules | status |
|---|---|---|
| 1 | `HttpServer`, `ConnectionService` (what it promises), `HttpServerService` (the refinement), `HttpServerProofs` (of both) | done |
| 2 | `HttpConnection`, `HttpConnectionProofs` | done |
| 3 | `Search`, `SearchProofs` | done |
| 4 | `IndexFiles`; `SearchdQueries`, which composes it with queries on whatever searchd has read; `SearchdQueriesProofs` (of both) | done |
| 5 | `Indexing`; `DocAttributes`, which composes the indexer's rows with searchd's filters and answers; `IndexProofs` (of both, and of `IndexFormat`) | done |
| 6 | `MysqlSource`, `MysqlSourceProofs` | done |
| 7 | `ConfigParser`; `TextsProofs` (of it, `SqlFile` and `RequestText`) | done |
| 8 | `Startup`, `StartupProofs`: required items or exit, which index each of the two programs chooses, and whether threads serve the port | done |
| 9 | readers of text against what their author meant: `ConfigText`, `SqlFile`, `RequestText`, `IndexFormat`; `TextLines` is what the first three share, `MCTexts` checks all of them and `ConfigParser` | done |
| 10 | in `IndexProofs`: the reader of `IndexFormat` undoes the writer, record by record | done |
| 11 | in `TextsProofs`: the readers of statements and of requests find what was meant in texts of any length; `ConfigText` stays with TLC | done |

Every module with theorems has its parameters as constants under a named assumption, one action
per operation, and an inductive invariant made of named conjuncts.
Recursive functions and folds stand in place of RECURSIVE operators throughout.

## 3. Modules and code

### HttpServer

The variables `m_running`, `m_epoll_mutex`, `m_event_num`, `m_events` are the members of the same
meaning; `pc`, `fd`, `request` belong to each thread; `backlog`, `sock`, `interest`, `ready` are
the kernel's, modelled from how the code uses it; `client`, `sent`, `replies` are the world's.

| action | code |
|---|---|
| `Spawn`, `SpawnFails` | the `pthread_create` loop of `Start` |
| `Stop` | `Stop`: only clears `m_running` |
| `Check` | `while (m_running)`, read without the mutex |
| `Lock` | taking the mutex; the test of the counter decides between `epoll_wait` and a pop |
| `EpollWait`, `EpollInterrupted` | `epoll_wait(-1)`: any selection of the pending edges in any order; -1 when interrupted |
| `PopNothing`, `PopListen`, `PopClient` | what the popped slot holds: nothing (after -1), the listening socket, a client, which is taken out of epoll before the mutex is released |
| `Accept`, `AcceptFails`, `AcceptRejects` | the accept loop with `AddEvent`, its end, and the accept that reads an uninitialised `addr_len` |
| `HandleRequest`, `SendReply`, `Close` | the rest of the loop, outside the mutex |
| `Connect`, `Arrive` | clients |

`Faults` says which system calls may fail. One is the `epoll_ctl` of `AddEvent`, which returns 0
whatever happens: `Init` is therefore either a server whose listening socket is registered or one whose
listening socket epoll refused, and that accepts nobody. A descriptor number is free again as soon
as it is closed. The bytes of a request are not in this module, and neither is a request that ends the
process (`ContentThrows` of `HttpConnection`): it ends a behaviour like a crash.

*Correct* means: the shared array holds no stale or repeated event (`EventsAreLive`); a descriptor
is served by one thread and out of everyone else's reach meanwhile (`ExclusiveOwnership`); a reply
goes where its request came from (`ReplyToRequester`); nothing registered is forgotten
(`NoLostRequest`); queued connections lose their event only when descriptors run out, `accept` read a
bad `addr_len`, or `Start` did not notice that the listening socket was refused
(`StrandsOnlyWhenExhausted`); clients are answered (`RequestsAnswered`) and a stopped server drains
(`DrainsAfterStop`).

### ConnectionService, HttpServerService

What the pool promises without epoll, descriptors or a mutex: a connection is claimed by at most
one worker, answered once by that worker and closed afterwards, closed unanswered only if the
service is lossy, and after `Stop` each worker claims at most one more. The mapping of
`HttpServerService` reads a connection's phase off the thread that serves its descriptor.
`Lossy` is true only if `accept` may fail on a connection it has taken.

### HttpConnection

One connection, from its first byte to `close`. A stream is a sequence of symbols: a request line, a
Content-Length line, any other line, an empty line, a NUL, a byte of content; `HeaderEnd` finds the
empty line. `ahead` and `behind` are what has been read and not yet used, and what is left over;
`timeout` is the `timeval` that Linux's `select` shortens. `ReadHeader`, `BeginContent`,
`ContentBuffered`, `ContentThrows`, `ReadContent`, `ContentRead`, `ReadFails` are the branches of
the two read functions (the case of no Content-Length included), `RejectHeader` and `AcceptHeader`
the outcome of parsing, `Process` the handler, `Write` and `WriteFails` the loop of `WriteTimeout`.
`Tick` is time that passes in a blocked `select`. Chunks are appended as C strings: what follows a
NUL is dropped (`CString`).

A request's length is whatever `int` `atoi` finds in its Content-Length line, and `left` is an `int`
that may wrap (`AsInt`, `IntMax`). With a length below zero `behind.substr(len)` throws, nobody
catches, and the process ends (`ContentThrows`); but for those so near
the least `int` that `left` wraps, to a number of bytes that no client ever sends.

*Correct*: what the client sent is what the handler gets (`HandlerGetsRequest`); a 400 and a cut
reply have a cause (`RefusedOnlyForCause`, `AbandonedOnlyForCause`); a thread is bound to a client
for no longer than both budgets (`WaitBounded`), and gives it back whatever it does, or the process
ends because of a length below zero (`HandlingEnds`).

### Search

`LookaIntersect::Seek` and the loop of `Process` around it. `Propose` takes the first list's next
document, `Agree` finds the next list has it, `Leap` goes back to the first list from a later
document, `ProposeNothing` and `LeapNowhere` are the ends of a list, `Found` is the filter, the
count and the window. `TokenSeek` is the scan of one list. `dropped` is the set of documents the
filter drops (what a filter means is in `DocAttributes`). A signed overflow of `offset + limit` is
undefined, so `BeforeWindowEnd` may then be either.

*Correct*: the count is that of the common documents that pass the filter (`TotalIsExact`), the
answer is their window in order (`WindowIsExact`), every query ends (`SearchEnds`). That the summary
is only indexed with ids it has (`SummaryInRange`) is a theorem.

### IndexFiles

A file is the run of the indexer that wrote it, or torn, or absent. `Fetch` to `Crash` are the five
writers in their order with each one's failures; `Start`, `ReadIndex`, `LoadSummary`,
`RefuseSummary`, `Serve` are `Init` of searchd, the kinds in every order. The first kind that is
read sizes the summary, and a kind of another size is refused. `snapshot` is history: the complete
run that was on disk when searchd started, forgotten when an indexer opens a file meanwhile.
Reading one file is one step.

*Correct*: an undisturbed start serves one whole index (`ServesWholeIndex`), a disturbed one never
has a kind with fewer attributes than documents, unless with none at all (`KindsCoverSummary`).

### SearchdQueries

`IndexFiles` with the handler on top. `Process` begins a query: any of the ids in the lists searchd
has read may be found, and the names of the filter and of the answer's format may be of any kind, or
of none (`Nowhere`). `Keep` and `Drop` are one turn of the loop of `Process`, `PackResult` the
packers. `GetAttrNameIndex` walks the names of every kind, so one kind that was not loaded makes any
name a null pointer (`Reaches`); an id that the summary does not have, or anything from a torn file,
is undefined, and the model takes both ways (`MayGoOn`, `MayCrash`). `FilterCrashes` and
`PackResultCrashes` end searchd and note in `crashes` what it had read. `ProcessStep` is any
step of `IndexFiles`: an indexer may replace the files under a query.

*Correct*: in a searchd that found a complete index and was not disturbed, every document of a query
exists and has all its attributes, of the same run as the lists, until the query is answered
(`DocumentsAreWhole`), and no query crashes it (`QueriesAreSafe`). One that was disturbed may crash
at a query that uses any attribute: the model does it.

### IndexFormat

The bytes of the five files, in their three layouts: the index, attributes of numbers, attributes of
strings. `FileOfIndex` and `FileOfSummary` are the writers, with the memory of a `DocInvert`
(`DocInvertOf`), whose hits begin in the padding of the structure, and of `AttrString`, whose texts
lie behind their lengths in one array. `Write` and `WriteTorn` leave a whole file or any beginning
of it. `ReadToken`, `ReadInvert`, `ReadNames`, `ReadNumbers`, `ReadTexts` are the reader record by
record; `Undefined` is a read past the end of the file, or past the buffer of `BUFF_SIZE` bytes. A
token that fills the buffer has no NUL behind it, so that what comes after it is whatever memory
holds (`Buffered`).

*Correct*: searchd reads what the indexer wrote, and of a torn file a beginning of it
(`FilesReadBack`).

### Indexing, DocAttributes

`CheckFields` compares the configuration with the columns; `ProcessDoc` is one row: the values in
the places of their names (`Slots`), the numbers of multi attributes behind those places
(`MultiSlots`, the "todo: fix multi value" of the code), the words of the searched columns, the tokens
told apart by their hash alone (`Tokens`), their hits as bytes (`Hits`), one entry in each token's
list. `GetHits` is the reader of these bytes, whose loop goes on behind what each round has read
(`NextHit`). `% UChar` is the width of `uint8_t`, that of a field's id too: fields that are 256 apart
share one (`FieldID`, `SharedBy`). `% UInt` is that of `uint32_t`, in which a number below zero is
stored (`Cell`). A row's value is given by what the code reads in it (words, number, numbers, text).

`DocAttributes` goes on from that state: `GetAttrType` and `GetAttrIndex` find a name,
`ParseFilter` and `DropByFilter` decide, `GetResultPacker` chooses a packer, and `Item` is what that
one shows: XML prints a number as an `int`, JSON as the `uint32_t` it is, and any other format has the
basic packer, whose answer is empty.

*Correct*: lists ascend and name documents the summary has (`PostingsAscend`); a document is in a
word's list if and only if one of its searched columns has the word (`PostingsExact`); hits read
back, as long as their bytes fit a `uint8_t` and the fields are no more than it tells apart
(`HitsReadBack`); filters and answers are about the
document's own row (`FiltersAreExact`, `AnswersShowTheRow`), whatever the order and repetition of
columns, names and filters, as long as what a document has of a type fits the `uint8_t` that counts
it (`NamesFit`): the size wraps without a word, and an index behind it is not looked at.

### MysqlSource

`MysqlWrapper` as `DoIndex` uses it. A `Statement` is the sequence of its results, of which only the
last may be without rows: text of several statements is refused unless the bit of
`CLIENT_MULTI_STATEMENTS` happens to be in `m_iFlags`, which nothing initialises. The client
library is external; what is modelled of it is that it takes a statement only when all results of
the one before have been read, and that `mysql_fetch_row` returns NULL for an error as for the end.

*Correct*: only rows of the query are indexed, and all of them if nothing failed (`RowsAreOfQuery`);
the post-queries are sent whatever was left (`PostQueriesRun`); the run ends (`RunEnds`).

### ConfigParser

`LoadConfig` section by section: `ParseFirst` stores the first one of its tag, `ParseAlone` and
`ParseChild` the later ones, `Reject` is each of the reasons for which it fails, `Load` the end of
the file. A child's text is its own with
the parent's behind it, and nothing between them but the line breaks that were there (`Glue`).
`ReadString` and `ReadStringV` look an item up (`Matching`). A section is its lines, and whether the
first and the last one share a line with a brace.

*Correct*: an item and a list have the values of the whole lineage, the nearest first
(`ValuesAccumulate`, of a lineage whose texts are `Separate`: the last line of one and the first of
the next are not the same line), and names and parents are sound (`SectionsAreSound`).

### TextLines, ConfigText, SqlFile

An author writes a text, the program reads it, and both sides must agree about what it says.
`ConfigText` is `LoadConfig` on the characters: `DelComment`, `Trim`, `PureString`, and what
`ParsePureConfig`, `ParseSection`, `ParseSectionHead` and `AnalyseItem` make of the text between two
braces; `WriteHead`, `WriteItem`, `WriteBrace` are the author, with the ways of writing each that an
editor allows. `SqlFile` is `AppendSqlFromFile` with `rtrim` and `rtrimc`; its author types one
character after the other. `TextLines` has `find`, `substr`, `getline` and the loop that cuts a text
at a separator, which both programs have in several forms.

*Correct*: the sections that are read are those that were meant (`SectionsAreRead`, which names the
two heads that are not); each `;` at the end of a line gives the words of its statement
(`StatementsAreRead`).

### RequestText

`HttpRequestParser` and `LookaRequest` on bytes. `ParseHeader` takes the lines apart that `Header`
puts together, and `GetHeaderValue` looks one up; `UrlDecode` decodes the URI and the content, and
leaves the bytes of `LeftEscaped` escaped; `Parse`, `Parameters` and `FilterPieces` split what was
decoded. A client appends to its parameters chunk by chunk, each byte as it is or escaped, and sends
them in a GET, a POST, or another method.

*Correct*: although the text is split after it was decoded, nothing that is escaped separates
anything: the server gets the parameters and filters that are meant, and finds the values of header
lines (`RequestsAreRead`).

### Startup

The two `main` functions as processes that an administrator launches, signals and relaunches while
the configuration file is edited. An index on disk is one location named by `FilesOf`.

| action | code |
|---|---|
| `Launch`, `Refuse` | `LoadConfig` and the typed configurations: all required items, or exit |
| `Skip`, `DoIndex`, `DoIndexFails`, `IndexerDone` | the indexer's loop over its indexes |
| `ReadIndex`, `NoDictionary`, `DereferenceNull` | searchd's: the first index with a source is read and the loop left; none is a null pointer |
| `ServerStarts`, `ServerFails`, `NewThrows` | `Start` with its port, an `unsigned short`, and its threads; its result is not looked at |
| `Signal`, `Edit` | the outside |

*Correct*: what searchd has read was written for the index it chose (`ServesItsOwnIndex`); an indexer
that ends has written every index it could (`IndexerLeavesAll`).

## 4. Runs

| run | question | bounds |
|---|---|---|
| `HttpServerSafety` | the safety properties under every fault, and the refinement | 2 threads, 3 clients, 2 descriptors, 2 events |
| `HttpServerLiveness` | answers and draining | 2 threads, 2 clients, 2 descriptors; `epoll_wait` may be interrupted |
| `HttpConnection` | requests cut in every way | buffer 2, read budget 2, write budget 1, reply 2, send buffer 1, `IntMax` 8; 125 requests |
| `Search` | count, window, end | 3 documents, up to 3 tokens, int up to 3, offsets -1 to 1, limits 0 to 3 |
| `SearchdQueries` | what a started searchd has read, and queries on it | 2 runs of 0 to 2 documents, 2 kinds, ids up to 1 in a torn file |
| `DocAttributes` | postings, filters, answers | 2 rows, 3 values, 5 configurations, 3 headers, 3 formats, 3 words of which 2 share a hash, `UChar` 8, `IntMax` 7 |
| `MysqlSource` | rows and post-queries | up to 2 pre- and 2 post-queries, 5 queries |
| `Texts` | the readers of texts | 3 sections, 2 tags, 3 names, 2 items; 2 sections and 2 items in characters; 8 characters of statements; 3 beginnings and 3 of 17 chunks of a request, 3 methods; files of up to 2 tokens or 2 documents, `BUFF_SIZE` 3 |
| `ConfigParserParents` | violated: a missing parent is an error | the sections of `Texts` |
| `Startup` | which index is written and served | an indexer, 2 searchds, 5 configurations, an `unsigned short` of 3 values, every fault |
| `StartupSkipped` | violated: an index without a source is skipped | the usual configuration and one whose indexes have no source, no fault |
| `StartupDeaf` | violated: while `main` pauses, the server runs | 2 searchds, 1 configuration, no fault |

Why the bounds are enough:

* *HttpServer*. Two threads are one that serves and one that holds the mutex, which is all that can
  meet at a descriptor. Three clients on two descriptors let numbers be reused while another
  thread serves, and let `accept` run out. An array of two can hold an event while it
  is used up by the other. Threads, clients and descriptors are interchangeable, hence the
  symmetry; the liveness run has none. It has a descriptor for each client because a client
  may rightly wait for ever when there is none (`StrandsOnlyWhenExhausted` says when).
* *HttpConnection*. A buffer of two cuts before, in and after the empty line. The contents are
  shorter than, as long as and longer than announced, and one holds an empty line itself. A length
  is 0, 1, 2, -1, or the least `int`, from which `left` wraps.
* *Search*. Three documents and three lists give every pattern of leaps: over a document, from the
  last list back to the first, past the end. The last id lies next to the illegal one. Windows begin
  before, at and after the first match, are empty, and overflow.
* *SearchdQueries*. Two runs are the least that can mix. With two kinds either may be the one that
  sizes the summary and the other be refused, in both orders; the four of the code differ in nothing
  else here. Runs of 0, 1 and 2 documents make the second one larger or smaller than the first.
* *Texts*. One run for five parts that share no state: each behaviour is one of one of them. Three
  sections make a grandchild, and two tags tell a parent of another tag from a missing one. Two
  sections in characters have something between them and an item at each end. Eight
  characters make three statements, or two with blanks on every side. The chunks of a request hold
  every separator and decoded byte class. Two tokens or documents are a record and its
  neighbour; files are torn at every byte; a token is shorter than the buffer, or fills it.
* *Startup*. Two searchds contend for a port. The usual configuration has two indexes in one
  directory, spelled in two ways, behind one that is skipped; the others have indexes that clash and
  a port that is 0 as an `unsigned short`, a negative `thread_num`, no source at all, and numbers
  and a section that are missing. Any may be edited into any other between two launches. An
  `unsigned short` of three values leaves two ports that the kernel may give for 0, one for each
  searchd.
* *DocAttributes*. Two rows tell a document's own values from another's. A `uint8_t` of 8 values
  overflows with three hits or four numbers, and does not with fewer; nine fields share an id. A
  `uint32_t` of 16 values is -1 as 15, which filters name in both ways. The formats are those of the
  three packers.
* *MysqlSource*. Two queries before and after are one that is refused after another. Queries have
  no rows, some, and several results with and without rows.

The unbounded proofs of section 6 confirm most of these choices. `ConnectionService` is checked and
proved with every fault on: `Lossy` is then what `EINVAL` allows.

Each property of a passing run is violated when a definition of the model is replaced by the form a
plausible bug would give it; these mutants stand beside their originals. `Inv` of a run is
the inductive invariant of the proofs, of which `TypeOK` is the first conjunct. Those of `Startup`,
`MysqlSource` and `ConfigParser` are in the modules of their proofs.

## 5. Fairness

* `HttpServer`: weak fairness of each thread's `Run` and of its creation. The operating system
  schedules every runnable thread. That the mutex is fair is not assumed, and nothing is
  assumed of clients: one that connects and stays silent is not owed an answer.
* `HttpConnection`: weak fairness of the thread and of time. A client may do nothing for ever.
* `Search`, `MysqlSource`: weak fairness of the next step: sequential code whose library calls
  return.

The other modules state safety only: an administrator need not launch anything, and an author need
not go on writing.

## 6. Proofs

All with TLAPS, for every value of the constants under the named assumptions.
Theorems about a module and about one that composes it share a module of proofs.

**HttpServerProofs**, the pool (`ConstantsAssumption`: the values are distinct and the array is not
empty). `Inv` adds to the properties what ties a thread to its descriptor. `ThreadState`: a thread
has one exactly while it serves it, it is open and unregistered, and the counter is what the label
says. `Registration`: what is registered is open, only that has an edge, and the listening socket is
registered unless `epoll_ctl` may fail. `OwnedOnce`. Without `Registration` the properties are not
inductive: a descriptor that is closed while registered would turn up in the array when its number
has been handed out again. `PopClient` is the step that needs all of it. Proved: `TypeOK`,
`MutexDiscipline`, `EventsAreLive`, `ExclusiveOwnership`, `ReplyToRequester`, `NoLostRequest`, and
the action property `StrandsOnlyWhenExhausted`, for which `ListenerStays` says that a listening
socket that is registered stays so.

**HttpServerProofs**, the refinement (the same assumption). `ServiceImplemented`: every behaviour of
the pool is one of `ConnectionService`. `Queued` and `Open` say that a connection waits in the queue
or is behind one descriptor, never both nor twice; with `OwnedOnce` they make the owner that the
mapping gives a connection the one thread that serves it (`OwnersKnown`). Each action that a client
sees is then a step of the service (`ConnectStep`, `ClaimStep`, `AnswerStep`, `FinishStep`,
`LoseStep`, `StopStep`); the others change nothing of it, but that a thread which leaves the
critical section of a stopped server without a connection has given up its last claim (`Rest`).

**HttpConnectionProofs** (`ConnectionAssumption`: streams are no longer than an `int` counts, and a
length is an `int` of either sign). `BufferedStream` says which piece of the stream the buffer is,
`BudgetKept` that what is gone from the budget was waited. The step that matters is the one from
header to content: the lemmas about `HeaderEnd` show that the empty line found in the buffer is that
of the stream, and `LeftTyped` that `left` is below zero for a length that is not only if the buffer has
more than the content. Proved: `TypeOK` and the four safety properties.

**SearchProofs** (`SearchAssumption`: lists ascend, their ids are documents). `Candidate` says which
lists have been asked. `SeekFindsLeast` is what the scan of one list returns; from it no leap skips
a common document. Proved: `TypeOK`, `SummaryInRange`, `TotalIsExact`, `WindowIsExact`.

**SearchdQueriesProofs** (`FilesAssumption`, `QueriesAssumption`). Of `IndexFiles`: `SnapshotKept` and
`SnapshotRead` say that the snapshot stays on disk while it is read, and what has been read of it. A
query changes nothing of `IndexFiles` or ends searchd, so the composition implements it
(`QueriesImplementFiles`) and its invariant is at hand. `QueryInv` adds that the ids a query holds
are documents of the snapshot; that the snapshot stays while searchd is up is `SnapshotFixed`.
Proved: `TypeOK`, `ServesWholeIndex`, `KindsCoverSummary`, `DocumentsAreWhole`, `QueriesAreSafe`.

**StartupProofs** (`StartupAssumption`, and `ConfigurationAssumption`: what `LoadConfig` accepts has
one index of each name). `Inv` says that a process past its configuration has a complete one
(`OwnComplete`), that files lie where the index they were written for says (`DiskPlaced`), that a
searchd serves what lay at its index's files (`ServesPlaced`), and what the indexer's loop has left
behind it (`LoopKept`). The lemma that matters is `FilesTellIndexes`: two indexes with the same files
have one name, or clash. Proved: `ServesItsOwnIndex`, `IndexerLeavesAll`.

**IndexProofs**, of `Indexing` and `DocAttributes` (`IndexingAssumption`: lists of names and rows are
finite, a hash is a number, and what `atoi` finds is an `int`; `DocAttributesAssumption`: filters are
finite). `Inv` says that summary and ids count the rows, that
lists ascend, and that a document's id is in the lists of its row's tokens and in no other;
`SummaryFollows` and `PostingsFollow` that attributes and hits are those of the rows. Proved:
* `TypeOK`, `PostingsAscend`, which is what `SearchAssumption` takes for granted: a search in what one
  run of the indexer left is exact.
* `PostingsExact`. `TokensAreHad` is the step from the flattened words of a row, told apart by the
  first one of each hash, to the columns that have them: an earlier word is an earlier place.
* `HitsReadBack`. A hit lies in the bytes of its list at a place that only depends on the hits before
  it (`LiesAt`); reading it there goes on exactly behind it (`NextHitIsRead`), so that after as many
  rounds as there are hits all have been read (`HitsAreRead`). The rounds left over do nothing
  (`StaysRead`). No two of the fields share an id, as there are no more than `UChar`.
* `FiltersAreExact`, `AnswersShowTheRow`. The type in which a name is found is the last one that has it
  (`TypeIsLast`), the place the first one of the name, where the value of its last column was put
  (`SlotHasValue`); a filter keeps of one key what every piece of it leaves (`FilterHasValues`). What
  the XML packer casts back to an `int` is the number that was read (`IntOfUInt`), for which the
  columns of a row that was processed have to be those of the configuration (`ColumnsChecked`).

**IndexProofs**, of `IndexFormat` (`FormatAssumption`: the indexer has each token once, with at
least one document; lengths, ids and numbers fit `uint32_t`, the bytes of a document's hits and the
number of an attribute's values fit `uint8_t`; an id has eight bytes). `FormatInv` says where in the
file the reader stands and what it has by then: between two tokens or after some documents of one
(`Between`, `Within`), after the head and some documents of a summary (`SummaryRead`). A file is a
sequence of records laid end to end; `Ends` are the places where they end, `FlattenEnds` says that
they exist and what stands between them, and `StandsAt` and its lemmas carry a part of a record to
its place in the file and to what is left of the file behind the reader (`Behind`). Each kind of
record has two lemmas: what its bytes are (`InvertInBytes`, `TokenInBytes`, `TextsInBytes`,
`NumbersInBytes`, `SummaryInBytes`) and what is read where they stand (`InvertIsRead`,
`TokenIsRead`, `StringsAreRead`, `NumbersAreRead`, `HeadIsRead`, `AttrIsRead`). These hold of a
beginning of the file too (`IsBeginning`): of a torn one the reader either finds a whole record or
is undefined, and of a whole one it always finds it. The lists are proved for tokens shorter than
the buffer only, as the property says; one that fills it is read with whatever stands behind it, and
from there on the invariant says nothing of the lists. Proved: `FilesReadBack`, of files of any
length torn anywhere.

**MysqlSourceProofs** (`MysqlAssumption`: statements have results). `Inv` says that the library is in
the middle of a statement exactly while the wrapper holds its result, unless the connection broke
(`DriverFollows`), that the rows indexed and the rows left make up the query's first result
(`RowsAreCounted`), and which post-queries have been sent (`PostQueriesFollow`): without the first
two a post-query might be refused because of a row nobody fetched. Proved: `TypeOK`,
`RowsAreOfQuery`, `PostQueriesRun`.

**TextsProofs**, of `ConfigParser` (`ConfigAssumption`: sections are of known tags and have finite
text). `Inv` says that what is stored is found by its name and is a section of the file
(`SectionsAreKept`, `KeptAreSections`), that no name is stored twice (`NamesDiffer`), and that a
section's text is its own before its parent's, as that still is (`ConfsAreJoined`). The lookup then
unfolds along the lineage: `MatchingOfConcat` and `JoinOfConfs` say that the items of a joined text
are those of its parts if no line is glued, `LineageUnfolds` what a lineage is, `ItemsAreWritten`
puts them together. Proved: `SectionsAreSound`, `ValuesAccumulate`, of lineages of any length.

**TextsProofs**, of texts in general: what `TextLines` finds in a text that is put together of
others, or in one in which each element is replaced. Texts are sequences of whatever. `CutOnce`,
`CutCases` and `CutInto` say what `Cut` does at the first separator, at any, and at the last;
`CutMapped`, `ThoseMapped` and `MappedSpread` that cutting and selecting commute with replacing
elements, as long as only a separator becomes a separator.

**TextsProofs**, of `SqlFile` (no assumption: any characters, any length). The invariant is about the
text as far as it is written (`IsRead`): the statements read so far have the words of those that
were meant; on a line behind its `;` there is nothing but blanks (`Open`), and on any other the
statement so far is what was meant without its line breaks, but for blanks before it (`Led`). One more
character ends a line (`ReadBreak`), ends a statement (`ReadEnd`) or does neither (`ReadOther`);
`OneMoreCharacter` is what it does to the pieces of `Cut`. Blank lines and blanks behind the `;` are
what makes `Led` weaker than equality. Proved: `StatementsAreRead`.

**TextsProofs**, of `RequestText` (`RequestAssumption`: methods and versions are words, names of
header lines have no colon, values no blanks at their ends, no byte sent unescaped is a CR; the
names of the parameters are of bytes that need no escape). What is sent never changes its kind
(`RequestInv`); the rest is about what the server makes of it:
* *Decoding*. `UrlDecode` is a text read in steps, each of which yields a byte and goes on behind it
  (`DecodeFirst`). A symbol that the client sends is decoded into what it means (`SymbolDecoded`),
  unless a bare `%` meets two bare digits (`Misleading`): of an escape that `UrlDecode` leaves, the
  `%` stays and its digits are then bytes like others (`PercentStays`). So the text that is decoded
  is the text that is meant without the marks of what was escaped (`SymbolsDecoded`).
* *Splitting*. `Low` takes the mark off a byte. It makes a separator of nothing, because the
  separators are among the bytes that are left escaped (`LowMarks`, `SeparatorsStay`). Therefore
  each of `splitString`, `xsplit`, `trim`, `ParseFilter` and `Parse` commutes with it
  (`splitStringMapped`, `HalvesMapped`, `trimMapped`, `ReadFilterMapped`, `ParametersMapped`): the
  server's parameters are those that are meant. If one separator were decoded, `LowMarks` would be
  false, and this is where the proof would fail.
* *The header*. The lines, the first line's words and each field are cut where they were put together
  (`HeaderLines`, `WordsOfFirstLine`, `FieldIsRead`); a space in the URI gives a fourth word, and
  nothing else is refused (`HeaderRead`).

Proved: `RequestsAreRead`.

The theorems of the library that do induction take an operator as a parameter, which the installed
provers cannot instantiate. Where a proof needs induction it is over a *set* of numbers
(`SetInduction`) or goes to the least counterexample (`LeastNatural`), both from the library's
well-founded order of the numbers. That a recursive function has the values its equation gives is
proved in the same way where it is used, from a chain of functions on `0..n` (`FlattenUnfolds`,
`FlattenPrefixes`, `OffsetIs`, `ReadUnfolds`, `MatchingUnfolds`, `SumOfAncestors`, `LineageUnfolds`,
`CutUnfolds`, `GluingExists`, `RunsExist`). Induction over texts is over a set of texts in the same way
(`AppendInduction`, `PrependInduction`).

Model-checked only:
* liveness (`RequestsAnswered`, `DrainsAfterStop`, `HandlingEnds`, `SearchEnds`, `RunEnds`), which TLAPS
  cannot prove under fairness;
* `SectionsAreRead`, of the characters of looka.conf. Which heads, items and braces are read as they
  are meant depends on the text of each in a way that no rule shorter than the parser itself
  describes (one blank behind a tag but not two, a `#` inside quotes), so that an assumption about them
  would be what has to be proved; the runs enumerate the ways of writing them instead.

## 7. Where code and documentation part

Each of the first three is a run that TLC shows violated.

1. `looka_config_parser.cpp:226` reports a parent that cannot be found. The first section of a tag
   is stored by line 233, which does not look: its missing parent is accepted
   (`ConfigParserParents`).
2. `searchd/looka_searchd_main.cpp:90` says that an index without a source is skipped. If all are,
   line 109 reads `thread_num` through a null pointer (`StartupSkipped`).
3. `searchd/looka_searchd_main.cpp:108` announces a server in background threads. What `Start` returns
   in line 116 is not looked at: with the port taken, `main` pauses for ever without one
   (`StartupDeaf`).

Other observations, which are no runs:

* *Settings*. `max_matches` (`looka.conf:38`) is read and never used; the window alone limits an
  answer. Neither are `read_timeout` and `client_timeout`; the server's budgets are constants. The
  port is truncated to an `unsigned short`. A negative `thread_num` aborts after listening.
  An index without a name has the files of one named "looka".
* *A length below zero*. `atoi` of a Content-Length below zero goes into `substr` as a `size_t`, which
  throws (`http_frame/http_server.cpp:225`): one request ends searchd with all that are being served.
* *Results nobody looks at*. `AddEvent` returns 0 whatever `epoll_ctl` does, so that searchd may run
  with a listening socket that epoll never reports, or keep a client that it never serves. searchd
  logs "searchd init ok" after an `Init` that ignores what both readers return and, though declared
  `bool`, returns nothing. `AddHeader` (`http_reply.cpp:38`), declared `int`, returns nothing
  either. A torn index gives a beginning of it without a word. A searchd that was disturbed while it
  read may crash at a query.
* *Configuration text*. "searchd{" throws and "searchd  {" is refused. `Trim` keeps one blank of a
  text of blanks. `#` and `//` begin a comment inside quotes too. A child's last line and its parent's
  first one become one line when both braces stand on them.
* *Statements*. Lines are glued without a blank, two statements on a line are one, and what no `;` ends
  is dropped.
* *Requests*. The names of header lines are case-sensitive. `%26`, `%2B` and others, digits and
  letters among them, are never decoded in a URI; `%00` ends the parameters. What follows a NUL byte
  in a chunk is dropped though it counts as content.
* *Signs*. An attribute is an unsigned number in filters and in JSON, and a signed one in XML, the
  default format: a filter for the "-1" that an answer shows finds nothing.
* *Formats*. A `dataformat` that is neither XML nor JSON gets an empty answer.
* *Index*. Fields whose places are 256 apart share an id and are merged. The value of a multi
  attribute in a filter is always 0 ("todo: fix multi value"). Of two words of a row with the same
  hash only the first is searchable. No writer limits a token to the reader's `BUFF_SIZE`. A result
  that the connection cuts off is indexed as if it were complete.
* `Stop` is never reached in searchd: its signal handlers call `exit(0)`.

## 8. Not modelled

* The text of replies and answers (status lines, dates, JSON and XML markup) and of the log: wording
  without state. `atoi` and `toLower` are modelled where a property is about them, else not.
* A reader that meets another writer in the middle of one file. A torn file is one that ends anywhere
  (`IndexFormat`), or that any reader may find of any length (`IndexFiles`).
* The conversion between character sets, of which the programs only use the result.
* The segmenter and `MurmurHash64A`: external or pure; any hash is a constant of `Indexing`.
* `join` on threads that were not created, data races on `m_running` beyond a stale read.
* `filter_range`, which drops nothing (`DropByFilterRange` returns false).
* `reader_test` and jsoncpp.
