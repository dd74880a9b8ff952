# Verification of sikradio, a TCP radio client

`sikradio` plays an internet radio stream: it parses its command line and a
URL, connects (TCP or TLS), sends a GET request, follows redirects, splits the
stream into audio for stdout and ICY metadata for stderr, reconnects after a
silence, and stops when the server closes or the user types `quit`. One thread
does everything. What makes it hard is not shared memory but what that one
thread waits for: a socket, OpenSSL's buffer, stdin, stdout and the clock, each
of which moves on its own, and a network that cuts every message anywhere.

This directory holds TLA+ models of that program, TLC configurations that check
them on small instances, and TLAPS proofs that hold for every instance. Line
numbers are those of the files in `src/`.

## 1. Inventory

| Component | State | Operations | Talks to |
|---|---|---|---|
| `main.c` | `config_t` | parse, run, free | config, client |
| `config.c` | `config_t` (with its copy of the URL), argument index, position in it | options, grouped flags, values attached or apart, bounds, free | main |
| `client.c` | request, response, current URL, cookie, connection, redirect count, restart flag | attempts, hops, redirects, restart after a timeout, clean-up | all below |
| `url.c` | `url_t` (owned strings) | parse, resolve a redirect, free | client |
| `net.c` | `conn_t` (socket, SSL, SSL_CTX) | open (address list, TLS), read, write all, close | client, http, stream |
| `http.c` | the header buffer, `http_response_t` | build a request, read a response, look up headers, cookie, free | client, net |
| `icy.c` | `icy_demuxer_t`: state, counters, metadata buffer | init, feed a chunk, free | stream, io |
| `stream.c` | time of the last data, stdin line buffer, `watch_stdin` | poll loop, quit command, timeout | net, icy, io |
| `io.c` | verbosity | write all, log | everyone |

Calls are synchronous; results come back as return codes, out-parameters and
the text in `errbuf` (by which `client.c:108` recognises a timeout). The
environment is the server, the network, OpenSSL, the user or pipe at stdin, the
reader of stdout, signals and the allocator.

What is hard, and what makes each part correct:

* **Receive loop.** The answer of `poll` is used after other work; decrypted
  bytes hide from `poll`; stdin must not starve under a busy server, nor the
  timeout under a busy stdin. *A read finds what poll promised it, stdin is
  heard, a timeout means silence, quit and silence end the loop.*
* **ICY.** A chunk can end anywhere, one buffer serves blocks of all sizes.
  *What is printed depends on the bytes and not on the chunks; the copy is in
  bounds; the loop advances.*
* **Quit command.** Lines arrive in pieces and can be too long. *Quit is
  recognised exactly for the line `quit`.*
* **Client.** One clean-up serves every exit of a loop in a loop. *Nothing is
  leaked or freed twice; a request matches the redirects of its attempt;
  redirects end; silence, and nothing else, starts over.*
* **HTTP response.** The blank line can be cut, audio can come with it, memory
  can run out. *No audio is lost, every verdict agrees with the limit, nothing leaks, the client
  gets out.*
* **Connection.** A name has several addresses, TLS needs several objects, and
  each step can fail. *Every path releases what it made, addresses are tried in
  order, conn_open returns.*
* **Output.** Writes are partial, interrupted, or have to be repeated as they
  were. *No byte is lost or doubled; a retry is the same write.*
* **URLs and requests.** A relative location is checked only for its new part;
  a URL is three strings that can each fail to be allocated; the request is
  counted in one place and written in another. *However long the chain, what is
  connected to and asked for is well-formed and what the written-out URL would
  give; strings are freed once; the request fits its buffer.*
* **Command line.** Options are grouped, repeated, contradicting; a value moves
  the index of the loop. *Every character is read once, the last option counts,
  one copy of the URL is held.*

`PROJECT.json` lists the hazards with their lines and the properties that
would catch each going wrong.

## 2. Modules

| Module | Models | Correspondence |
|---|---|---|
| `IcyBytes` | byte strings of the stream, trimming of a block (`icy.c:123-131`), and the audio and titles of a whole stream by its frames | shared by the next two |
| `IcyFraming` | what the demuxer promises: a stream is audio, a length, a block, audio, ... | a run of bytes is consumed at a time; knows no chunks, buffer or capacity |
| `IcyDemux` | `icy_init`, `icy_feed`, `icy_free` | one action per branch of the loop, the buffer with its stale bytes and its capacity; a failing write or `realloc` ends the call |
| `StreamReceive` | `stream_receive`, `stdin_read_ready`, `conn_read`, the socket, OpenSSL, stdin, the clock | `pc` is the place in the loop; `conn_ready`, `stdin_ready`, `watch_stdin` are the locals; `idle` is now minus `last_data_ms` |
| `StdinLine` | `stdin_consume_bytes` and the lifetime of its line buffer | one action per path through the loop body |
| `Session` | what `client_run` promises: connecting, playing, and what ended that (`cause`), which decides: silence starts over, a close or quit returns 0, a failure 1 | knows no pointers, connections, flags or requests |
| `ClientRun` | `client_run`, `http_is_redirect`, `http_extract_cookie` | pointers are "NULL", "freed" or what they point to; every free and use is recorded. `typed`, `read`, `line_start` count the pieces of one line `quit`; `stuck` is an SSL call whose server has stopped |
| `Texts` | the character searches and decimal numbers of `url.c`, `http.c`, `config.c` | shared by `Url`, `RedirectChain`, `Options` |
| `Url` | `url_parse`, `url_resolve_redirect` and their helpers, as operators: what is accepted, and the result | a text is its scheme prefix and characters, told apart as far as `url.c` does; the functions keep their names |
| `RedirectChain` | one attempt: `url_parse`, then `http_build_request`, `http_extract_cookie`, `url_resolve_redirect` hop after hop, with the strings of `url_t` | string `<<n, p>>` is part `p` of the n-th URL; `heap` is the strings that live and whether a `Malloc` or `Free` was ever wrong; each exit of a call is written with its own mallocs and frees in their order |
| `Options` | `config_parse` with its helpers, `config_free`, `main` | `index` and `pos` are those of the two loops, one action per kind of option; `seen` records what was read |
| `HttpResponse` | `http_read_response`, `find_header_end`, `http_response_free` | bytes CR, LF and other; offsets as in the code; strings are counted |
| `ConnOpen` | `conn_open`, `tls_connect_socket`, `conn_close` | one action per system or OpenSSL call and outcome; sockets are named by their address, objects are "list", "ctx", "ssl"; `Release` records closing what is not open |
| `WriteAll` | `write_all_fd` and `conn_write_all` | one action per outcome of `write` and `SSL_write`; `chunk` is recomputed on each pass as in the code |
| `OutputStream` | what those two promise a caller | knows no offsets, retries or chunks |
| `MC*` | bounds for TLC | |
| `*_proofs` | theorems; `StreamReceive_proofs` has those of `StdinLine` too, the other half of `stream.c` | |

The split follows the program: `StreamReceive` treats what a chunk of stdin
means and what bytes do to the demuxer as given, because `StdinLine` and
`IcyDemux` model those; `ClientRun` takes opening and writing as steps that
succeed or fail, because `ConnOpen` and `WriteAll` model what happens in them,
takes URLs and cookies as names, because `RedirectChain` models what they are,
and takes the results of `http_read_response` and `stream_receive` as any those
can return. One thing it keeps of `StreamReceive` and `StdinLine`: the line
`quit` is read in pieces, by a call that starts with an empty line
(`stream.c:194`) and reports a timeout only when stdin has nothing unread
(`stream.c:257`).

Two-step operations whose halves no one can observe are one action. The reading
of the server's bytes and their writing to stdout are two, because time passes
and the user types between them.

A few operators at the head of each module, under "Faulty variants", are not
part of the models: each is a plausible slip (a dropped reset, an off-by-one, an
order swapped) by which a definition can be replaced to see that a property
notices. `PROJECT.json` pairs them with the properties ("mutants").

## 3. Runs

Safety and liveness that hold:

| Run | Question | Bounds, and why they are enough |
|---|---|---|
| `IcyDemux` | Is the output a function of the bytes? Does the demuxer implement the framing? | interval 2, length unit 1 instead of 16, bytes 0 to 2, chunks to 3, streams to 9: blocks of 0, 1 and 2 bytes, growing and shrinking, three frames, each cut in every way. `Delivered` compares with a definition by whole frames in `IcyBytes` |
| `StreamReceive` | Does a read find what poll promised? How long is stdin overlooked? What does a timeout mean? Does quit end the loop, and a silent server? | timeout of 2 ticks, two segments (a fragment and what completes it) and two chunks under way, records worth up to two reads, one signal, every kind of stdin: poll, peek, read, write and stdin meet in every order |
| `MCStdinLine` | Is quit recognised exactly? | quit is the two-letter word `qt`, a line buffer of 3, inputs to 8 in reads to 2: a line can be short, exact, overlong, with CR, and cut by reads everywhere, and a second line and a reconnection follow |
| `ClientRun` | Ownership, redirects, restarts; does it implement `Session`? | limit 2, two cookies, two locations: chains to the limit and past it; restarts are not bounded. `quit` comes in two pieces, before, during and after each stream, so that a restart can cut it; any SSL call may wait for ever |
| `MCRedirectChain` | What do chains of redirects lead to? Who owns the strings? Does the request fit? | originals of up to three characters of every kind after `http://` (up to one after `https://` and without a scheme) and some with a port around the limit, then up to two redirects to relative locations of up to two characters, or absolute ones; missing, single and repeated headers; every allocation fails. Three characters let every delimiter meet every other, and the second redirect is resolved against what a first one left |
| `MCOptions` | What is read from a command line, and what is kept? | all lines of up to four of fifteen arguments: flags alone and grouped, each value attached and apart, out of range, signed, blank, missing; `-` alone and the empty argument |
| `MCHttpResponse` | Limit, body, ownership, end of the headers | 11 bytes of headers, 11 to 13 sent: one counted header and a failing next line fit; the reader cuts at every byte |
| `ConnOpen` | What is open after each exit? Which address is used? Does it return? | three addresses, TCP and TLS, opened again and again: a first, middle and last address fails in every way, and a second call follows every ending |
| `WriteAll` | Do the bytes go out once, in order and all of them? | buffers to 3 bytes, `INT_MAX` 2, two retries, calls until 4 bytes are out: a buffer needs one, two or three writes, a retry comes before, between and after them, and a second call follows |

Runs in which TLC refutes what a comment or the README of the program says
(section 6): `StreamFragment`, `ClientQuit`, `HttpOom`.

The properties in words:

* `Delivered`: audio and titles are those of the bytes received. `BlockFits`:
  the copy stays inside the buffer. `BlockWritten`: the received part of the
  buffer is byte for byte what came since the length byte of this block, never
  a stale byte of an earlier one. `FeedReturns`: the loop does not spin.
  `ImplementsFraming`: refinement of `IcyFraming`.
* `ReadsFindInput`: at the read that trusts an answer of `poll` the answer still
  holds: a read of stdin or of a plain socket returns at once. A TLS read may
  wait, but only inside a record of which a part has come (finding 1).
  `StdinHeard`: at most two reads of the server's bytes pass over
  input on stdin. `TimeoutJustified`: an action property of the step that
  reports a timeout. `QuitUnlessCut`, `SilenceEnds`: quit and
  silence end the loop, unless the server leaves `SSL_read` inside a record for
  ever, and for silence unless stdin is never idle.
* `LineTypeOK`: the line buffer does not outgrow its capacity. `QuitExact`: quit
  is reported iff a line of this session is `quit`.
* `NoMemoryFault`: no leak, double free or use after free. `RequestMatches`: a
  request has the URL and the cookie of its own attempt's redirects.
  `QuitWhileStreaming`: a line `quit`, in whatever pieces, ends a stream, and
  with it the program, though the server may fall silent, close or fail
  meanwhile. Two exceptions are in its formula: a line of which the stream before
  a restart had read a part, and an SSL call that never returns.
  `ImplementsSession`: refinement of `Session`, by which redirects are bounded, a
  silence and nothing else starts over, 0 is returned only after the server
  closed a stream that played or the user quit it, and any failure returns 1.
* `WellFormed`: an invariant of every chain of redirects. `ResolvesAsText`: a
  relative location gives what parsing the written-out URL gives. `HeldExactly`:
  the strings that live are those of the current URL, and none was freed
  twice, whichever exit (`url.c:352`, 499, 505, 550, 554) was taken. `RequestFits`: bytes
  copied are bytes counted.
* `NothingSkipped`: the options read, written one after the other, are the
  command line. `LastWins`: the rules of `config.c:193-198`, against the whole
  command line. `UrlHeld`: no copy of a URL is leaked or freed twice.
* `BodyKept`: what follows the first blank line is kept or still to be read.
  `LimitKept`: each verdict agrees with the first `MAX_HEADER_BYTES`: accepted only
  with the end of the headers in them, refused as too large, silent or closed
  only without.
  `Released`: every exit frees what it owns, except for one string (finding 3).
  `HeadersEnd`: over plain TCP the client gets out of the headers.
* `NothingHeld`: a failed `conn_open` holds nothing, an open connection exactly
  what `conn` names, and nothing is closed twice. `FirstInOrder`: the address
  used is the first that takes the connection. `OpenReturns`: `conn_open`
  returns unless a server is silent in the handshake.
* `RetryRepeats`: an `SSL_write` to be repeated gets the same bytes.
  `ImplementsStream`: refinement of `OutputStream`.

`CHECK_DEADLOCK FALSE` is set where the modelled function returns for good.

## 4. Fairness

The process is one thread that the kernel schedules: weak fairness of its own
steps (`FeedStep`, `LoopStep`, `ClientStep`, `ReaderStep`, `OpenStep`) says that
an enabled step is taken. For `StreamReceive` it includes that stdout is
drained. `Tick` is fair because time passes. Nothing is assumed of the server,
the user, signals or the allocator: no action of theirs is fair. `ReadRecord` is
disabled while no record is complete, so fairness does not hide a blocking
`SSL_read`. `ClientRun` takes each call as one step, and that step is fair
unless the call is stuck: over TLS `ServerStops` can make `SSL_connect` or
`SSL_read` wait for ever (finding 1), and `QuitWhileStreaming` exempts it by
name. That `stream_receive` otherwise reads what was typed rests on
`QuitUnlessCut` of the loop. `HeadersEnd` is about plain TCP. `OpenStep`
includes that `getaddrinfo` and `connect` return, because the resolver and the
kernel give up by themselves; `SSL_connect` is disabled while the server is
silent, as nothing ends that wait. Whether a full stdout pipe is ever drained is
up to its reader: `WriteAll` claims safety only.

## 5. Proofs

Checked by TLAPS for every value of the constants under the `ASSUME`s of the
modules (`MetaInt` positive, as `icy_init` demands; the sets and bounds have
their types):

* **`IcyDemux_proofs`**. `IInv` is the conjunction of `TypeOK`, `BlockFits`,
  `BlockWritten` and `LoopProgress` (each pass of the loop finds something to
  do): the state they speak of is the demuxer's
  whole state, and together they are inductive. `ReceivedBytes` says that
  the received part of the buffer, being a part of the stream, is initialised. The copy needs that
  `metadata_len + metadata_left` is at most the capacity, which `BlockStart`
  establishes and every partial copy keeps. From it: `TypeCorrect`,
  `CopyIsInBounds`, `OnlyReceivedBytesLogged`, `LoopAdvances`.
  `FramingImplemented` maps each action to a step of `IcyFraming` or a
  stutter; the mapping takes the block so far as the first `metadata_len` bytes
  of the buffer (`BlockWritten` is what makes that the bytes of the block).
  `ChunksDoNotMatter` is `Delivered`: the output is that of a definition which
  reads the whole stream frame by frame and never hears of chunks. Its invariant
  `Reassembled` says where in the bytes received the frame at hand began, that
  the frames before it are complete, and that their audio and titles, with the
  part of this one that was already read, are the output. `AudioEquation` and
  `TitlesEquation` unfold the recursive definitions by one frame, and the
  lemmas on growth say that more bytes leave the complete frames as they are.
* **`StreamReceive_proofs`**. `ReadsFindInput` alone is not inductive: that
  the answer of `poll` still holds at the read needs to know that nobody else
  reads (`ReadyInv`, `WokenInv`), that a timeout means silence needs the code's estimate
  never to exceed the real silence (`ClockInv`), and the bound 2 of `StdinHeard`
  needs the count at each place of the loop (`HeardInv`). From `IInv`:
  `TypeCorrect`, `ReadsFindTheirInput`, `StdinIsHeard`, and the action property
  `TimeoutsAreJustified`. The same module proves `StdinLine`:
  `LineTypeCorrect`, and `QuitIsExact` for every input, capacity and read size.
  Its invariant: the line buffer is what followed the last newline of the
  session, or, after an overflow, that is longer than the buffer, and no
  earlier line of the session was quit. A line that overflowed cannot be the
  command because the buffer is longer than the word (`LineAssumption`).
* **`ClientRun_proofs`**. `OwnerInv` says who owns what at each place,
  `CourseInv` ties the requests sent to the redirects followed. From them:
  `TypeCorrect`, `MemoryIsClean`, `RequestsMatch`, `RedirectsEnd` (at most
  `MAX_REDIRECTS + 1` requests in an attempt). `SessionImplemented` maps each
  step to a step of `Session` or a stutter; it needs `DecidedInv`: at the clean-up
  the restart flag is set exactly after silence, and the status is 0 exactly
  after a close or a quit, which no later step may forget.
* **`RedirectChain_proofs`**. Searches are counted with `Cardinality`, so the
  first lemmas say what `SpanLen`, `Before` and `From` return. `ParsedUrl` and
  `ResolvedUrl` say that each function returns a well-formed URL, the second
  only if its base is one: that is why `WellFormed` is an invariant of the chain
  and not a property of the function. With `PhaseInv` (there is a URL where the
  code uses one): `TypeCorrect`, `AlwaysWellFormed`. `AlwaysHeldExactly` goes
  exit by exit: `MallocThenFree` cancels a malloc against the free of the same
  string, `ParseFailsClean` and `ResolveFailsClean` follow the frees of each
  failing exit, `ResolvedClean` those of a success.
  `AlwaysResolvesAsText` needs `WellFormed` of the base and nothing else. `Cut`
  says that a search splits a joined text where it was joined; applied to the
  fragment, the target and the colon it gives the parts of the written-out URL
  (`AuthorityRead`, `ReadsAsResolved`). `KeptIs` says that the directory that
  `current_directory_length` counts is the longest allowed prefix. `SameSum`
  compares the two counts of a request for `RequestAlwaysFits`; the prover knows
  nothing of the lengths of string literals, so `LiteralAssumption` states them
  and TLC evaluates it.
* **`Options_proofs`**. `LastWins` is kept because a new option becomes the last
  of its kind and leaves the last of the others alone (`NewIsLast`,
  `OldStaysLast`); `SeenInv` ties the two `saw` flags to what was read. Theorems:
  `TypeCorrect`, `LastAlwaysWins`, `UrlAlwaysHeld`, for every command line.
  `NothingIsSkipped` adds that a group being read starts with a dash and that
  the two indices are in bounds (`TextInv`); each step then moves the same
  characters from the arguments to the options read (`GroupSplit`,
  `OptionText`), and `FlatGrows` and `SpelledGrows` say what one more argument
  or option adds.
* **`HttpResponse_proofs`**. `CollectInv`: what was sent is `raw` and what is
  still in the socket, and `header_end` is where `raw` has its first terminator;
  `OwnInv`: what is allocated at each place, and that each header took some of
  `raw`; `VerdictInv`: what `raw` and the socket hold when a verdict
  has been given. `SameEnd` says that more bytes do not move the first terminator,
  `LineEnds` that a line ends at `header_end` at the latest. Theorems:
  `TypeCorrect`, `BodyIsKept`, `LimitIsKept`, `AlwaysReleased`.
* **`ConnOpen_proofs`**. `OwnInv` says which sockets and objects are there at
  each place, `SearchInv` that the addresses before the one at hand are those
  refused. From them: `TypeCorrect`, `ConnectionsAreReleased`,
  `AddressesInOrder`, for any number of addresses.
* **`WriteAll_proofs`**. `RetryRepeats` holds in the loop because `written`
  does not move between a refused write and its retry (`WantInv`, which also
  says that only TLS leaves a write to be repeated). The refinement maps the
  bytes left to the rest of the buffer; two lemmas on `SubSeq` say that the
  first part of a rest is a part of the whole and that its remainder is one.
  Theorems: `TypeCorrect`, `RetriesRepeat`, `StreamImplemented`.

The library's induction theorems take an operator and cannot be used. Three
definitions over whole inputs are recursive functions nevertheless: the audio
and the titles of a stream, and `FlattenSeq` of the community modules, which
`NothingSkipped` is written with. What is proved of them is proved from a
smallest or largest counterexample (`Least`, `Largest`): first that a function
with the recursive equation exists (`WalkExists`, `ForwardRecursion`), then
that two of them agree where they see the same data (`SameWalk`, `SameWay`).

Every invariant of a passing run is proved, and so are the action property
`TimeoutJustified` and the three refinements. Only model-checked: the liveness
properties `FeedReturns`, `QuitUnlessCut`, `SilenceEnds`, `QuitWhileStreaming`,
`HeadersEnd` and `OpenReturns` (the prover does not handle fairness or ENABLED),
and the three findings. That a number parsed is the one its digits spell is not
proved either: `DecimalValue` is only said to be in range where the code checks
it. No module uses a RECURSIVE operator.

## 6. Findings

1. **A partial TLS record blocks everything** (`net.c:285`, run
   `StreamFragment`). The socket is readable, `SSL_read` waits for the rest.
2. **Quit is not read while headers are awaited** (`http.c:285`,
   `client.c:107-111`, run `ClientQuit`). A server that never answers keeps
   the client restarting.
3. **A copied header name or value leaks when the other copy fails**
   (`http.c:412-422`, run `HttpOom`).

Worth knowing, and visible in the models, but no run is about them:

* `SSL_connect` has no timeout (`net.c:140`): a server that accepts and is
  silent holds the client there and it never reconnects. `OpenReturns` exempts
  it by name.
* A reconnection empties the line buffer (`stream.c:194`): the rest of a line
  typed across it counts as a whole line, and a `quit` cut by it is not heard.
  `QuitExact` is about one session; `QuitWhileStreaming` exempts the cut line.
* Silence after exactly `MAX_HEADER_BYTES` bytes without a blank line is a
  timeout, and restarts, because `poll` precedes the check of the limit
  (`http.c:285`, `306`); `LimitKept` allows both.
* `poll` returns 0 only when stdin is idle too, so a stdin that is always
  readable (`yes | sikradio`) disables the timeout (`stream.c:263`).
  `SilenceEnds` exempts it by name.
* `-t " 5000"` and `-v +3` are accepted: `strtol` takes blanks and a sign
  (`config.c:136`), though the comment above speaks of a strict integer.
* A `Location` with another scheme or an authority alone (`ftp://x`,
  `//host/path`) is taken for a relative path of the current server
  (`url.c:421-441`). `ResolvesAsText` is about this reading.

## 7. Not modelled

The text of logs and messages, `localtime`, `vsnprintf`, how `getaddrinfo` finds
addresses, and what is logged after a failed write to stderr: nothing depends on
them. The verbosity only selects what is logged. The bytes of the request are
counted, not compared; the case of header names is not told apart. `icy-metaint`
(`client.c:157-168`) is any value: the stream runs with and without metadata,
and the demultiplexer is proved for every positive interval. The integers that
could overflow (`value` in `validate_port_part`, `strtol`) are checked by the
code before they can, and are unbounded in the models. `sikradio.h` and the
`Makefile` are declarations; their limits are constants of the modules.

Possible extensions: one module that composes `ClientRun`, `HttpResponse`,
`StreamReceive` and `StdinLine` and refines `Session` (each is large enough that
TLC would need much smaller bounds than now); for each liveness property, the
measure that its steps decrease, as a theorem.
