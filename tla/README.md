# A verification of midnighttpd

midnighttpd is a single-threaded HTTP/1.1 file server in C. One event loop
(`mig_core`) polls all sockets and calls a callback for each one that is ready;
the callbacks of the server (`midnighttpd_core`) accept connections, receive and
parse a request header, answer it, send files piece by piece and keep the
connection for the next request. This directory holds TLA+ models of its core,
the configurations that check them with TLC, and theorems proved with TLAPS.
All paths below are relative to the repository's `src/` directory.

## The system

| component | state | operations | what makes it correct |
|---|---|---|---|
| event loop (`mig_core.c/.h`) | `entfds`, `entarr`, `freestk`, `terminate`; in `mig_loop_exec`: `rfds`, `hfds`, `idx` | register, register_chain, unregister, enable, disable, the setters, exec, terminate, destroy | a slot has one holder; every reported event is delivered once, to the registration it was reported for; free callbacks run once; terminate stops the loop |
| connection (`midnighttpd_core.c`, `mhttp_req.c`, `mig_io.h`) | callback and condition in the loop's slot, `rxbuf`, `txbuf`, `eos`, `srcfd`, `srclen` | conn_init, req_recv_headers, req_read_headers, resp_send_file, conn_terminate, conn_free | requests answered in order, once, and only when complete; the body is what was promised; the file is closed; no connection outlives its client |
| header check (`mhttp_req.c`) | `rxbuf` | mhttp_req_check | the incremental search equals a search of everything |
| listener and server (`midnighttpd_core.c`, `midnighttpd.c`) | the loop, shared by listeners and connections; `ent_stack`, `default_addr` | listen_accept, main, SIGINT, shutdown | every descriptor has one owner and is closed once; waiting clients are served; the server is a proper client of the loop |
| request parsing (`mhttp_req.c`, `mhttp_util.c`) | the request's fields, `rxbuf` rewritten in place | parse, urldecode, scrubpath | a path never leads above the document root; decoding stays inside the buffer |
| byte ranges (`mhttp_range.c`, `midnighttpd_core.c:194`) | `range.low/high/spec` | parse_range, bounds of a 206 | low + length stays inside the file, in `size_t` arithmetic |
| number parsing (`mig_parse.h`) | - | mig_parse_* | a number or a size has the value it is written with, whatever is behind it |
| buffers (`mig_io.h`, `mig_io.c`) | `base`, `len`, `end`, `off` | read, write, memread, memwrite, shift, printf, loadfile | a queue of bytes; `off <= end <= len` |
| dynamic array (`mig_dynarray.c`) | `sp`, `dynarray_size` | push, pop, peek, index, grow, shrink | a stack; indices stay inside the block |
| radix tree (`mig_radix_tree.c`) | nodes | insert, lookup, lpm | a map; a longest prefix match returns a prefix's value, if any |
| configuration (`midnighttpd_config.c`) | `config`, the entries to listen on, the working directory | sockaddr_parse, cfg_bind, cfg_bindunix, configfile_read | addresses are taken apart as their grammar says; lines are read in their file's directory; descriptors are accounted for; listeners keep their names; includes end |
| command line (`mig_opt.c`, `midnighttpd.c`) | `argc`, `argv`, `argn` | setopt, getopt, main's switch | no argument is lost or used twice; reading ends |
| generated matchers (`tools/statmatch.py` and three headers) | - | mhttp_match_method, mhttp_req_match_header, midnighttpd_match_config_opt | the word a string begins with is found, and the position returned is in the string |

Components interact by calls: the server's callbacks run inside `mig_loop_exec`
and change the loop they are called from. Shared state is the slot of a
connection (its callback, condition and data pointer). The request parser
composes most of the rest: it calls the method matcher, cuts the path, decodes and
scrubs it, and calls the header matcher and the parsers of ranges and numbers. The
command line and the configuration files fill the MIME types' radix tree and push
sockets on a dynamic array, from which `main` registers them. Outside actors are the
kernel (`poll`, partial reads and writes), clients, other writers of the files
that are sent, and SIGINT. There are no threads and nothing is persisted.

The hard parts: callbacks change the arrays that the scan which called them is
walking; headers come in arbitrary pieces and requests back to back; sockets take
part of what is written; files change while they are sent; a signal comes at any
instruction. `PROJECT.json` lists each of these hazards at its line with the
properties that cover it.

## Modules

| module | what it is | map to the code |
|---|---|---|
| `EventDelivery` | abstract: what the loop promises its clients | - |
| `MigLoop` | the event loop | `mig_core.c`, `mig_core.h` |
| `MCMigLoop` | small instances of it | - |
| `MigLoopProofs` | the inductive invariant, the safety theorems, and that `MigLoop` implements `EventDelivery` | - |
| `HttpConn` | one connection and its client | `midnighttpd_core.c:42-381`, `mhttp_req.c`, `mig_io.h` |
| `MCHttpConn` | small sets of requests | - |
| `HttpConnProofs` | types, the body's account, the open file, the order of answers | - |
| `ReqCheck` | the search for a header's end, on bytes | `mhttp_req.c:67-101` and its callers |
| `MidnightServer` | `main` from `bind_init` on and all callbacks, with their descriptors; extends `MigLoop` | `midnighttpd.c:168-218`, `midnighttpd_core.c` |
| `MCMidnightServer` | a small instance of it | - |
| `MidnightServerProofs` | the server is a client of `MigLoop`; owners of descriptors | - |
| `ReqParse` | a request header, line by line, on tokens | `mhttp_req.c:103-198` |
| `UrlPath` | decoding and scrubbing a path in place | `mhttp_util.c` |
| `MhttpRange` | ranges over the requests of a connection | `mhttp_range.c`, `midnighttpd_core.c:194-270` |
| `RequestProofs` | the incremental search for a header's end is a full one; a header is understood; a part is in the file and as asked for | - |
| `UrlPathProofs` | decoding and scrubbing in place do what the path says, below the root | - |
| `Induction` | induction over natural numbers, for the above | - |
| `MCRequest` | small instances of `ReqCheck`, `ReqParse`, `UrlPath` and `MhttpRange` | - |
| `ParseNum` | numbers, sizes and switches | `mig_parse.h` |
| `StatMatch` | the three generated matchers | `tools/statmatch.py`, `mhttp_method.h`, `mhttp_req_header.h`, `midnighttpd_config_opt.h` |
| `SockAddr` | taking an address apart, on characters | `midnighttpd_config.c:44-88` |
| `Parsers` | the three above, and what is expected of all of them | - |
| `ByteQueue`, `MigBuf` | abstract: a queue of bytes; the buffers that implement it | `mig_io.h`, `mig_io.c` |
| `ItemStack`, `DynArray` | abstract: a stack; the dynamic array that implements it | `mig_dynarray.c` |
| `KeyMap`, `RadixTree` | abstract: a map; the radix tree that implements it | `mig_radix_tree.c` |
| `LibraryProofs` | `MigBuf` implements `ByteQueue`, `RadixTree` `KeyMap` and `DynArray` `ItemStack`; the parsers read what is written | - |
| `MCLibrary` | small instances of the six parts above | - |
| `ConfigFile` | configuration files, binds and unix sockets, up to the closing of the listeners | `midnighttpd_config.c:90-313`, `midnighttpd_core.c:428-442` |
| `GetOpt` | the option loop of `main` and `mig_getopt` | `mig_opt.c`, `midnighttpd.c:85-167` |
| `StartupProofs` | directories, descriptors and names while files are read; each argument is used once and for what it is there for | - |
| `MCStartup` | small instances of `ConfigFile` and `GetOpt` | - |

`MigLoop` writes every function of the API as an operator from the old
`struct mig_loop` to the new one; `mig_loop_exec` is a program counter (`top`,
`enter`, `poll`, `scan`, `call`) with one action per step. The test of
`terminate` and the call of `poll` are two steps, because SIGINT can come between
them. While `pc = "call"` a callback runs and may make any number of API calls on
any slot that is held: this stands for every possible program on the loop. The
one thing asked of it is that it unregisters only slots it holds; the code does
not survive the contrary (the "empty" entry's descriptor is 0, since the -1 in
the initializer of `MIG_ENT_EMPTY` falls on `calltype`, so a second unregister
pushes the slot twice). A descriptor of -1 may be registered, as `listen_accept`
does when `accept` fails. A chain is the number of functions left in it before its
sentinel (`left`), and clients may give any slot a chain of any length up to
`ChainLen`, the function of a chain that is running its own slot included. When that
function returns true, the code steps over the first function of the chain it finds
there, which is the sentinel if the chain holds nothing else: `left` is then -1, and
the next event for that slot calls what lies behind the chain (`ScanAstray`), from
where on the model says nothing.

`HttpConn` has one action for each outcome of a callback: `RecvError`, `RecvEnd`
and `RecvData` are `conn_init` and `req_recv_headers`; `ReadHeadersReply` and
`ReadHeadersFile` are `req_read_headers`; `SendFile` and `SendError` are
`resp_send_file`. `ReadError` is the way out of `resp_send_file` when an open file
cannot be read, at its start or in the middle. Each includes the call of `conn_terminate` it makes, down to
`mhttp_req_check` of what the shift left in `rxbuf`. The actions of the client
are external. A header is a number of units, the last of which completes it, so
that requests can be cut and glued together by reads; what the request asks for
is a kind. A range is a file with bytes left behind it (`MaxBehind`).

`ReqCheck` opens the unit abstraction up: bytes are line feeds or others, and
the question is whether a search of the new bytes and two more is enough.

`MidnightServer` is the composition of the server with the loop. It extends
`MigLoop`, adds what the server knows of each slot (the callback of its entry, the
file of its request) and the kernel's descriptors, and gives every call into the
loop a step of its own, so that a run can check that each step of the server is a
step of `MigLoop` (`UsesLoop`): the contract that `MigLoop` asks of its clients is
met, and what is proved about the loop for arbitrary clients holds under this one.
What a connection's bytes say is a choice, since `HttpConn` has them. `accept`
fails when descriptors run out or the client is gone; the result is registered
either way, as in the code.

The data structures are modules of operators on one state with the operations of
their API as actions, and each implements an abstract module through a refinement
mapping: `DynArray` maps the bytes of the block and the position to the items of
`ItemStack`, `RadixTree` maps nodes to what a lookup returns, `MigBuf` the bytes
between `off` and `end` to a queue. `size_t` and `int` have a small width
(`SizeMod`, `SizeLimit`, `IntMod`), so that every wrap happens within the bounds.

The parsers (`ReqParse`, `UrlPath`, `SockAddr`, `StatMatch`, `ParseNum`, `GetOpt`)
run over every input up to a length. Those that work in place have the array as a
variable and a step per iteration, and the reference they are checked against is
written on the input, in the properties' section.

`ConfigFile` reads configuration files as frames of a stack, as the recursion of
`midnighttpd_configfile_read` does, each with the directory it saved. Every listener
on a unix socket has a name and a path to unlink, and the module follows which
listener has which name: `held`, `taken` by a later line, `lost` to a line that
failed to bind, or unlinked by the close of another (`gone`, or `misled` for a
relative path). When `main` ends, `CloseListener` closes the listeners in the order
in which `mig_loop_destroy` comes to them: `main` pops them off a stack into the
slots, so what was bound last is closed first.

`MCRequest`, `MCLibrary` and `MCStartup` check several modules in one run. The
modules share no state there: a variable `part` says which one runs, it starts
with anything its module starts with (operators such as `NumStarts`), and the
others keep one fixed state. A property of such a run is that of the module, for
the behaviours of its part; the module's specification is what the part's actions
are taken from, and its refinement mapping is used as it stands.

Definitions marked `Seeded fault` are plausible bugs next to the definition they
distort. They are not part of any specification; each shows that some property
fails when the code has that bug.

## Runs

| run | question | instance |
|---|---|---|
| `loop_clients` | do slots, arrays, call chains and free callbacks survive callbacks that call anything? | 2 slots, one descriptor and -1, one condition, chains of one function and the sentinel, and of the sentinel alone |
| `loop_events` | is every event delivered once and to its registration (refinement of `EventDelivery`); do scans end, and does terminate outside of poll stop the loop? | 2 slots, conditions IN and OUT, chains that are a sentinel |
| `loop_sigint` | violated: does SIGINT always stop the loop? | 2 slots |
| `conn_pipelined` | are requests torn, repeated, reordered or answered early; is the body accounted for, the file closed? | buffers of 4 and 2, three requests of all kinds, pipelining, files that shrink or cannot be read |
| `conn_lockstep` | does a client that waits get its answers, and is the connection of a vanished client closed? | the same without pipelining and shrinking |
| `conn_queued` | violated: is a queued request that was found answered? | three requests that keep the connection |
| `conn_short_write` | violated: does the client get the promised length of an intact file? | one file, no pipelining |
| `conn_early_end` | violated: does the answer end when the file ends early? | one file that shrinks |
| `server` | has every descriptor one owner, and is it closed once; does the server use the loop as its interface asks (refinement of `MigLoop`); are waiting clients served; does start-up end? | 3 slots, with a listener on the default address and 3 descriptors, or with 4 configured sockets and 5 descriptors |
| `request` | is the header's end found with the read that brings it, is every header line looked at and the last one decisive, does a path mean what it says and stay below the root, are the bytes of a 206 those asked for? | `ReqCheck`: buffer of 7, 10 bytes, all streams and cuts; `ReqParse`: 8 first lines, up to 3 of 11 header lines, with and without bytes behind; `UrlPath`: paths of 5 of 7 characters and of 8 of 3; `MhttpRange`: a `size_t` of 3 bits, two headers in a request |
| `startup` | working directory, descriptors and names of sockets while configuration files are read and when listeners are closed; no argument of the command line lost or used twice; does it end? | 3 files that include one another and themselves; all lines of up to 5 of 7 arguments, an environment of 2 strings |
| `library` | are numbers, sizes, words and addresses read as written; are the array, the tree and the buffer a stack, a map and a queue? | `ParseNum`: strings of 4 of 12 characters, longer numbers in every base with every unit, words of 3 of 11 letters and the longer ones that begin with `tr` and `fa`, ints of 8 bits; `StatMatch`: every prefix of every word, in 3 cases, with 6 tails; `SockAddr`: addresses of 6 characters; `DynArray`: 5 items in 4 configurations; `RadixTree`: 6 keys, with and without failing allocations; `MigBuf`: a buffer of 4 and 7 bytes |

Why the bounds are enough. Two slots let a callback free and retake a slot ahead
of the scan, behind it, or its own, and let the budget of one reported event be
spent on the other slot; more slots are the theorems' business. A chain of one
function and one of none are what it takes to exchange chains under the function
that runs, and to pass a function or the sentinel over. A buffer of four
units holds one request of two units and the start or all of the next, and is
exceeded by the request of five (431). Files of 3 and 4 bytes through a `txbuf`
of 2 need more than one load, with and without a remainder; 0 is the empty file.
Three requests are the least at which a request can be skipped between two
others. A terminator is at most three bytes long, so that seven bytes hold two
with another byte between, and ten let a second request follow the first.

The server's three slots hold a listener and two connections, which is what it
takes for one connection to get a descriptor that another has closed; three
descriptors run out with these, or with one connection and its file. With four
sockets one finds the loop full at start-up, and every client is sent away, for
which there is a descriptor more. A `size_t` of three bits has every relation
between bounds, file size and the wrap. Five items pass a block of one chunk
twice; the four configurations of the array are one that `realloc` serves, one
that it does not, one of a fixed size, and one that starts with no room and whose
allocations fail. Six keys have every case of an insertion at the root and below
it; the empty key is one. Paths of eight characters hold two components and two
ascents. Five arguments hold an option with extensions between two others. A file
that includes itself twice makes a tree of inclusions that only the descriptors
bound, as in the program.

No run bounds the behaviour further: counters are bounded by the constants, and
deadlock is checked in all of them (ended programs and closed connections stutter
by an action of their own).

## Properties

Loop: `FreeStackExact` (no slot handed out twice or lost), `FreeSlotsInert`,
`PolledFdAgrees`, `FreedExactlyOnce`, `CallUnionIntact`, `ScanBudget` (what is
pending never exceeds the budget left), `NothingLeftBehind`, `Delivers`
(the refinement), `ScanCompletes`, `TerminateFromScan`; `TerminateStops` fails.
`CallUnionIntact` says that a callback is never advanced as a chain, and that a chain's
pointer passes its sentinel in one case only, which its history `switched` tells: the
function that ran gave its own slot another chain and returned true.

Connection: `BodyConserved`, `FileOpenWhileSent`, `AnsweredInOrder`,
`AnsweredWhole`, `HeaderAligned`, `NothingAfterClose`, `NoneSkipped`,
`WholeAnswered`, `HangupCloses`; `QueuedServed`, `SentAsPromised` and
`EarlyEndBails` fail.

Header check: `NoneUnseen`, `SplitAtFirstEnd`.

Most properties of the other parts are conjunctions; the formulas
named in brackets are their parts, each defined and explained in its module.

Server: `DescriptorsOwned` (`OpenIsOwned`: open descriptors are exactly those of
entries, files being sent and sockets not yet registered, and none has two owners;
`NeverClosedTwice`; `ClosedAtEnd`: what stays open after `mig_loop_destroy` is what
the code forgets, files being sent and the sockets that found the loop full),
`UsesLoop`, `BacklogServed` (a waiting client is served as long as there is a
descriptor left for it), `StartsOnPort80`.

Requests: `HeaderUnderstood` (`AllLinesSeen`, `LastConnectionDecides`,
`TargetIsPath`, `BadRangeRefused`); `DecodesInPlace` (`InPlace`, `DecodesMeaning`);
`StaysBelowRoot` (`ScrubFollows`, `NeverAscends`); `RangeServed` (the types of
`MhttpRange`, `PartInsideFile`, `PartAsAsked`, `WholeWithoutRange`).

Data structures: the refinements `IsStack` (with `ItemsFit`, `RefusedKeepsItems`
and the types of `DynArray`), `IsMap` (with `Compact`, `LpmOfPrefix` and the types
of `RadixTree`) and `IsQueue` (with `InOrder`).

Start-up: `ArgumentsUsedOnce` (`CountsAgree`, `UsedInOrder`, `NoneLost`,
`TypesOfExtensions`); `FilesReadInPlace` (`LinesInTheirDirectory`,
`DescriptorsAccounted`); `NamesOfSockets` (`ListenersHaveNames`,
`UnlinksWhatItBound`); `StartupReads` (the reading of configuration files and of
command lines ends); `ReadAsWritten` (numbers: `IntAsWritten`, `SizeAsWritten`,
`SizeByString`, `BoolAsDocumented`; words: `FindsThePrefix`, `StopsBehind`; addresses:
`GrammarParsed`, `UnmatchedRefused`).

Fairness. `MigLoop!FairSpec` has weak fairness of the loop's own steps and of the
return of callbacks, which are steps of one thread: it runs, and callbacks do not
block (all their sockets are non-blocking, except that `accept` of a listening
socket may); nothing is
assumed of `poll`, which sleeps as long as it likes, or of SIGINT.
`HttpConn!FairSpec` has weak fairness of the connection's callbacks: the loop
calls them when their condition holds (`NothingLeftBehind` of the loop), and the
client reads what it is sent. Clients need not send, close or reset, files need not
shrink, and no read of one need fail.
`MidnightServer!FairServerSpec` has weak fairness of start-up, of callbacks and of
the loop's steps, all of the one thread, and of `poll` when a client waits at a
listener that is registered: the kernel reports a socket that is ready.
`MCStartup!PartsSpec` has weak fairness of `main`, which does nothing else before
it serves.

## Findings

- `loop_sigint`: SIGINT between `while(!loop->terminate)` and `poll` is lost until
  the next event; the program prints that it terminates and sleeps on
  (`src/mig_core.c:114`, `src/midnighttpd.c:34`).
- `conn_queued`: `conn_terminate` looks for a complete queued request, finds it,
  and sets the callback that receives instead of the one that answers; the
  connection is closed on EAGAIN, or the request is dropped when a later
  terminator replaces the one found (`src/midnighttpd_core.c:369`).
- `conn_short_write`: what a short write leaves in `txbuf` after the last byte of
  the file was read is thrown away (`src/midnighttpd_core.c:339`).
- `conn_early_end`: a truncated file makes `resp_send_file` run for ever
  (`src/midnighttpd_core.c:330`).

These properties fail in the code as it is, so the passing runs do not claim
them: `conn_lockstep` has no pipelining and no shrinking files, and
`SplitAtFirstEnd` excepts a connection after it received behind a queued header.
`BodyConserved` is about the time while the file is sent and says nothing of what
is lost at its end.

Other deviations were met while modelling. No run is about them; the models have
them as the code does, and the properties of the passing runs except them by name:

- a chain that a chain's function gives its own slot loses its first function, and
  one of the sentinel alone its end, when that function returns true
  (`src/mig_core.c:145`): `CallUnionIntact` excepts the slots that are `switched`;
- a suffix range gets one byte too many (`src/midnighttpd_core.c:235`):
  `PartAsAsked` is about ranges with a lower bound; a bound of an earlier Range
  header decides over a later one (`:202`): it is about one header;
- an upper bound of `SIZE_MAX` wraps to 0 (`:210`): `PartInsideFile` excepts it;
- a refused push moves the array's position (`src/mig_dynarray.c:188`), shrinking
  an empty array fills it (`:94`) and the first push into an array made with no
  room asks for none (`:189`): `IsStack` and `ItemsFit` are about the
  configurations that are `Sound`, as those of the repository's clients are;
- an index whose offset wraps past `SIZE_MAX` is accepted
  (`src/mig_dynarray.c:300`), as is a chunk so large that the size after growing
  wraps (`:45`): `DynArray` has indices up to `MaxItems` and chunks that fit in memory;
- an insertion that has matched all of a key may end at an empty slot in a tree that
  has nodes, where a comment says it may not (`src/mig_radix_tree.c:170`): when the
  key is one byte longer than that of a node. The code does what is right there;
- the longest prefix match goes back by one node, which may be a branching without
  a value, and misses a prefix that has one (`src/mig_radix_tree.c:194`):
  `LpmOfPrefix` says whose value it returns when it returns one;
- `end` and `off` of a buffer are not "always less than" `len` and `end`
  (`src/mig_io.h:41`): a full buffer has `end = len`, an empty one `off = end`.
  `MigBuf` has `off <= end <= len`;
- words after `-m` that are the last of the command line are counted past the end
  of `argv`, through its null pointer (`src/mig_opt.c:77`), and an option that
  lacks its argument hands on a null pointer (`src/midnighttpd.c:125` and others):
  `GetOpt` ends there. When `-m` itself is the last, strings of the environment,
  which is behind `argv`, get a null type: `TypesOfExtensions` is about types that
  were given;
- a `-` alone has no letter, so that `mig_getopt` returns 0 as for a word, with no
  argument of its own (`src/mig_opt.c:70`); `main` takes the next one for the root,
  and that is read again: `UsedInOrder` allows it there;
- sizes wrap at the width of an `int` (`src/mig_parse.h:143`): the properties are
  about the integers of that width;
- a zero that is nothing but `0` has the value 0 and no end (`src/mig_parse.h:176`),
  as if it were no number: `IntAsWritten` says so (`ZeroAlone`). `0b`, `0o` and `0x`
  with no digit behind them are no numbers, and nothing is said of them;
- any character behind a number is stepped over as if it were a unit
  (`src/mig_parse.h:118`): `SizeAsWritten` says so;
- when the blank behind the path is the last character of a header, header lines
  are looked for behind it (`src/mhttp_req.c:144`): `AllLinesSeen` and the others
  are about well-formed request lines;
- an IPv6 address without brackets is cut at its last colon
  (`src/midnighttpd_config.c:60`), which the help text warns of and the grammar in
  the comment does not: `GrammarParsed` leaves it out;
- sockets beyond the loop's slots listen, and nothing accepts from them
  (`src/midnighttpd.c:180`): `deaf` in `MidnightServer`;
- a line for a unix socket takes the name of an earlier listener of the same
  process, whether it can be bound then or not (`src/midnighttpd_config.c:192`):
  `ListenersHaveNames` says which of them has it. Only the order in which they are
  closed keeps the one from unlinking the other's;
- a path relative to another directory (`relative`) is resolved from that directory
  again (`src/midnighttpd_config.c:207`), so that another file is unlinked in the
  end, maybe another listener's (`misled`): `UnlinksWhatItBound` excepts it.

## Proofs

Everything is proved for every value of the constants that meets the module's
assumption, the ASSUME at its head (`MigLoopAssumption`, `HttpConnAssumption`,
`ReqCheckAssumption`, `ReqParseAssumption`, `MidnightServerAssumption`, `ConfigFileAssumption`,
`MhttpRangeAssumption`, `UrlPathAssumption`, `MigBufAssumption`, `RadixTreeAssumption`,
`DynArrayAssumption`, `GetOptAssumption`, `ParseNumAssumption`, `StatMatchAssumption`,
`SockAddrAssumption`). They give the
constants their types, and say that special values are not ordinary ones: `-1` is
no descriptor of the kernel, the null pointer no argument and no value. That of `ReqParse` says
what `mhttp_req_check` lets through: lines have no line feed, only the last is
empty or a single character. That of `MhttpRange`
says in addition that a file's size is less than `SIZE_MAX`, that of `MigBuf` that
twice the buffer and what is put in is less than it. That of `DynArray` says that
`alignof(void *)` is a power of two up to 16, and that the block asked for at first, and
one grown by a chunk when `MaxItems` items are in it, are at most `PTRDIFF_MAX` bytes
(`FitsInMemory`), so that sizes and indices up to `MaxItems` do not wrap. Those of the
parsers say that strings are sequences of characters, of `ParseNum` that none of them is
the null byte and that two characters of memory follow them. That of `StatMatch` is about the words of the three generated matchers:
none goes on from another, and none has the character that ends a string. TLC evaluates it on
the words; the proofs use nothing else of them, so they hold of any matcher whose
words have that property.

`MigLoopProofs`: `TypeOK`, `FreeStackExact`, `FreeSlotsInert`, `PolledFdAgrees`,
`FreedExactlyOnce`, `CallUnionIntact`, `ScanBudget`, `NothingLeftBehind`,
`Delivers`. The invariants are not inductive alone. `IInv` adds that every held
entry's arrays agree and every free one is blank, ties the free flags of entries to
the free callbacks owed (`Coherent`), bounds the stack's length by the slots not
held, and says of a chain whose function is running that it is not at its sentinel
unless that function put another in its place, and that only such a one passes it.
`BudgetInv` is the count of pending slots; it needs `IInv` because an unregister
ahead of the scan makes it smaller only if the freed slot's `revents` are cleared,
and a registration leaves it alone only if the slot taken had none. Lemmas about
the stack (`StackPop`, `StackPush`) carry the rest. For the refinement each step of
the loop is a step of `EventDelivery` or a stutter, under the mapping that reads a
slot's registration from `live` and `entarr`, and the undelivered events from
`revents` and `idx`.

`HttpConnProofs`: `RxInv` (receive side) and `BodyInv` (no body is under way outside
of `resp_send_file`) give `TypeOK`, `BodyConserved` and `FileOpenWhileSent`. The
order of answers needs to know where the units in `rx` and `net` come from:
`OrderInv` places each of them in the stream the client sent, says that what
follows the last answer is a request not answered yet, at its start, as long as
the connection awaits one (`CallbackInv`), and that every request answered but the
last one keeps the connection (`AnswerInv`). `AnsweredInOrder`,
`AnsweredWhole`, `HeaderAligned` and `NothingAfterClose` follow. `LockstepInv` adds
that a client that waits for its answer has at most one request under way, hence
`NoneSkipped` without pipelining (with it the property is false: `conn_queued`).

`RequestProofs`, about `ReqCheck`: `TypeOK`, `NoneUnseen`, `SplitAtFirstEnd`. The lemma
`SearchIsFull` says that the search from two bytes before the new ones finds all
ends of a header if there was none before; `FirstIsTaken` that the first is taken.
The invariant adds where the bytes of `rxbuf` are in the stream.

`RequestProofs`, about `ReqParse`: `HeaderUnderstood`, for headers of any lines and
any number of them (`MaxLines`). `HeaderUpTo` puts the header together by a recursion
on its lines, and `HeaderGrows` shows by induction where each line is in it; from
there on the buffer is described line by line (`Laid`), and what `strchr` and the
skipping of blanks find in a line is a lemma each (`FoundAt`, `PastThem`, `ReadLine`).
The invariant is that of a loop: when the parser stands at the end of the k-th line,
`seen`, `eos` and what has passed as a range are those of the first k lines (`Read`).
`ReadLine` is where the code could go wrong: a name is skipped only if it is known,
and what is found behind the value is the end of the same line, because no token of
it is a line feed and blanks are passed over only up to that line feed.

`MidnightServerProofs`: `UsesLoop` and `DescriptorsOwned`. `SInv` gives each open
descriptor exactly one owner: a slot's entry, a file of a connection, the socket
being registered, or what the code forgets, and agrees with the loop's arrays on
which slots are held and by which role. With it every step of the server is shown
to be one of `MigLoop!Next` or a stutter; so the loop's own invariant holds under
the server (`ServerInvariance` proves both at once, since `SInv` needs the free
stack to be exact when a slot is taken), and the loop's theorems carry over
(`LoopInServer`).

`StartupProofs`, about `ConfigFile`: `FilesReadInPlace` and `NamesOfSockets`. The working directory
after a file is read is right only if each frame of the recursion can go back:
`WaysBack` says that each saved directory is that of the frame below, unless a
failed bind for that frame had left it elsewhere before. `InPlace` is
`LinesInTheirDirectory` for the time between two files, too. The names need the order of
the listeners (`NamesOK`): whoever has a name has no later listener of that name behind
him, so that closing the last one, or one that a later line robbed, unlinks nobody else's.

`RequestProofs`, about `MhttpRange`: `RangeServed`. `OfThisRequest` ties `low`, `high` and `spec` to
the headers of the request that is read, so that nothing is left of the request
before; `ClosedSendsNothing` covers the answers that end a connection. The
arithmetic of the wrap is a lemma for every `SizeMod`.

`UrlPathProofs`: `DecodesInPlace` and `StaysBelowRoot`, for paths of every length.
`Meaning` and `Where` are recursive functions of the whole path, and the code walks
it once; so the invariant `PathInv` relates what is written so far to what the
function gives for the rest (`Spelled`: the meaning of the path is what is written,
followed by the meaning from `src` on) or to the components passed so far
(`Written`: what is written is where they lead). That the functions satisfy their
equations is shown by induction: the library's theorem for it cannot be used, but
stated with a set of numbers instead of an operator it can be proved from the order
of the numbers (`Induction`). `Clean` says of the characters written that no `/..`
of theirs ends a component, which `NeverAscends` then says of the components; it
lasts when a component is taken back because what is before a component is clean by
itself.

`LibraryProofs`, about `MigBuf`: `IsQueue`, with `off <= end <= len` for every operation, the lengths
that the operations compute from differences of them, and sequence lemmas that say
what a shift, a read and a write do to the bytes between `off` and `end`.

`LibraryProofs`, about `RadixTree`: `IsMap`. A walk is a recursive function of the key;
that it satisfies its equation, and how it ends (`Ended`), is shown by induction on
what is left of the key (`Induction`), and gives what `mig_radix_node_find` returns
(`Found`): a slot on the way of the key, how much of the segment there the key has,
and the node before. The invariant is the shape of the tree, `Good`: every path but
the root's is the key of a node and one byte (`Hangs`), and where one path begins
another, the key of the first does too and leads there by one of its edges
(`Branches`). From it follow that two nodes never have one key (`KeysDiffer`) and that
the walk for a node's key ends at that node (`Reached`), so a lookup returns what the
node of that key has (`LookupIs`). A split and a new node keep the shape (`SplitGood`,
`WithNodeGood`), and for each case of an insertion there is a lemma on what the lookups
return behind it (`SplitAtEnd`, `Intersects`, `EmptySlot`, `Replaced`). `Valued` and
`Dense` are what the longest prefix match and `Compact` need.

`LibraryProofs`, about `DynArray`: `IsStack`, for every size, alignment, initial count,
chunk and number of items. The invariant says that position and size are multiples of
`padded_size` (`Placed`: item `k` is the top of a block of `s`), that the size stays one
that an allocation may have, and, when the array is `Sound`, that the block has exactly
`s` cells and `k < s`. With it the offsets of the code, which it adds, subtracts,
divides and compares modulo `SIZE_MAX + 1`, are those of whole items: `Grown` and
`Shrunk` show that the size after growing does not wrap and that one that wraps in
shrinking is refused, `IndexInRange` and `TruncatedTo` that the comparisons in `size_t`
are those of the items as long as the array is not empty. Then each operation is one
of `ItemStack` on the cells up to `k` (`UpTo`).

`LibraryProofs`, about the parsers: `ReadAsWritten`, from one theorem for each module.

- `MatcherFinds`, about `StatMatch`: the characters taken are those of the string so far
  and the start of a word (`MInv`). What is a leaf of the tree is the end of a word, because no
  word goes on from another; so a string leaves the tree where a word ends, or begins
  with none.
- `AddressesSplit`, about `SockAddr`: `Outcome` says for each form of a string what
  it is cut to (`Mangled`) and which places are returned. For each of the four forms of the
  grammar, a host or an address in brackets, with and without a port, a lemma finds the first and the
  last places of the colon and the brackets and reads the parts off the string that was
  cut (`HostParsed`, `BracketParsed`, `HostPortParsed`, `BracketPortParsed`).
- `NumbersRead`, about `ParseNum`: the code wraps after every digit, the property
  wraps the sum of digits and weights. `ToIntAbsorbs` says that a factor may be wrapped
  before it is multiplied, and `ValueIs` carries it through the digits, by `Induction`;
  `RunExists` shows that the recursive functions have their values. `LeadTaken` gives the
  sign and base of each beginning, `EndIs` where the digits end, and `IntByString` that the memory behind a string does not matter
  to a number, from which `SizeIsByString` follows although `mig_parse_size` reads there.
  A size is the wrapped number times the wrapped unit, wrapped, and so the unwrapped ones', wrapped once.

`StartupProofs`, about `GetOpt`: `ArgumentsUsedOnce`. The invariant says that everything before the
entry that is next is used or an option (`BehindUsed`) and nothing from there on is
used (`UsedBehind`), and what main's switch has at hand: a word, or an option with
the arguments the counting loop passed (`CountedStops`: it stops, and what it
passed are words).

What proving changed. `-1`, what a failed `accept` returns and the loop registers,
was missing from the loop's descriptors in `MidnightServer`, so that the server was
no client of the loop where TLC's instance happened to have it; the default address
was bound without a free descriptor; the invariant about unlinked names was false
for relative paths below the first level, which the instance of the run had not;
and the command lines of the run had no `-` alone and no environment. `mig_parse_bool`
ignored the case of the letters its instance had, and of no others; and the
width of an int was a number of bits, where nothing depends on its being a power
of two. The models and the instances have them now.

Only model-checked. Liveness (`ScanCompletes`, `TerminateFromScan`,
`WholeAnswered`, `HangupCloses`, `BacklogServed`, `StartsOnPort80`, `StartupReads`)
is out of the prover's reach.

## Plan

All of the server's own code is modelled except what the next section names, and
every safety property of the passing runs, refinements included, is proved. What is
left is what the prover does not reach, liveness, and the parts not modelled.

## Not modelled

The text of answers and log lines. The directory listing
(`resp_send_dirindex`, one write in the models): its arithmetic depends on names
that `readdir` returns. Short writes of an answer's header, taken not to happen.
Request bodies: `entlen` and `txenc` are parsed (`ReqParse`) and nothing reads
them, so a body is taken for the next request. `mig_buf_memwrite` and the printf
functions of `mig_io.h`, which nothing calls (the first moves `off` where it should
move `end`, the others move `end` when the text did not fit). The functions from
enumeration values to names in the generated headers, which are constants. Build
files, tests and example programs: the tests were read as clients of the loop and
of the array.
