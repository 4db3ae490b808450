# A TLA+ verification of larking

larking (`src/`) is a Go library that serves gRPC services over HTTP: it
transcodes HTTP/JSON requests by `google.api.http` rules, serves gRPC, gRPC-Web
and websockets on the same port, and proxies other gRPC servers whose services it
learns by server reflection. This directory models its core in TLA+, checks the
models with TLC on small instances, and proves the main safety results about the
registry, the service configuration, the streams, the proxy, the HTTP answers and their
negotiation, gRPC-Web and the pools with TLAPS for every value of the constants.

## 1. The system

| part | source | state | operations |
|---|---|---|---|
| Mux registry | `larking/mux.go`, `handler.go` | `Mux.mu`, the published `*state` (`path`, `conns`, `handlers`) | `RegisterService`, `RegisterConn`, `DropConn`; `loadState`, `clone`, `storeState`, `appendHandler`, `removeHandler`, `addConnHandler`, `pickMethodHandler` |
| HTTP rule tree | `larking/rules.go` | the `path` tree inside a `state`: segments, variables, `methods`, `methodAll` | `addRule`, `delRule`, `alive`, `search`, `match` |
| gRPC request | `larking/grpc.go` | `streamGRPC`: `wg`, `ctx`, `sentHeader`, headers and trailers | `serveGRPC`, `SetHeader`, `SendHeader`, `SetTrailer`, `SendMsg`, `RecvMsg` |
| Proxy handler | `larking/mux.go` (`createConnHandler`) | locals of two goroutines: `args`, `reply`, `inErr`, `outErr`, `wg` | one call of a proxied method |
| HTTP request stream | `larking/http.go`, `codec.go` | `streamHTTP`: `rbuf`, `rEOF`, `recvCount`, `sendCount`, `wHeader` | `serveHTTP`, `RecvMsg`, `SendMsg`, `readMsg`, `writeMsg`; `ReadNext`, `WriteNext` of the stream codecs |
| Websocket stream | `larking/websocket.go`, `http.go` | `streamWS`: `conn`, `sentHeader`, `recvN`, `sendN` | `RecvMsg`, `SendMsg`, header methods; the upgrade and the close frame of `serveHTTP` |
| gRPC-Web adapter | `larking/web.go` | `webWriter`: `wroteHeader`, `seenHeaders`, base64 writer | `serveGRPCWeb`, `Write`, `WriteHeader`, `flushWithTrailer` around `serveGRPC` |
| Metadata headers | `larking/grpc.go` | none | `newIncomingContext`, `setOutgoingHeader`, `encodeGrpcMessage`, `decodeTimeout` |
| Lexer, parameters | `larking/lexer.go`, `rules.go` | the tokens so far | `lexTemplate`, `lexPath`; `parseParam`, `params.set`, `parseQueryParams` |
| Service configuration | `larking/mux.go` (`ruleSelector`) | a tree of rules by name | `setRules`, `getRules` |
| Negotiation | `larking/negotiate.go`, `NewMux` | the offers | `parseAccept`, `negotiateContentType`, `negotiateContentEncoding` |
| Compression | `larking/compress.go`, `grpc.go` | pools of gzip readers, gzip writers and buffers | `Compress`, `Decompress`, their `Read` and `Close` |
| Status codes | `larking/code.go` | two tables | `HTTPStatusCode`, `WSStatusCode` |
| Server, helpers | `larking/server.go`, `stats.go`, `log.go`, `proxy.go`, `health/` | wiring | |

**How they meet.** A request goroutine of net/http calls `Mux.ServeHTTP`, loads the
published `state` pointer once, without a lock, matches a route (HTTP) or takes the
URL as the method (gRPC), picks one of the method's handlers at random, and runs it
on a stream object (`streamHTTP`, `streamGRPC` or `streamWS`). A handler is either a method of a
service of the program or the closure of `createConnHandler`, which opens a stream to
a backend. Registrations run on any goroutine, serialised by `Mux.mu`; each clones
the state, edits the clone and publishes it.

**What is hard.** Several writers and lock-free readers over a copy-on-write table; a
backend that fails, stalls or changes its listing while the mutex is held; a rule tree
that is edited incrementally, with a removal that is not the inverse of the insertion;
goroutines of a handler that outlive it while net/http takes back the
ResponseWriter; two goroutines and two peers around one proxied call; framing of a
body that arrives in pieces of any length; an answer whose status, type and encoding
are fixed by its first byte, while the handler may still fail; headers and trailers that
share one map; overlapping rules; pooled objects that are put back by their readers. The file `PROJECT.json` lists each of these
hazards at its line, with the properties aimed at it.

**What makes each part correct.**

- Registry: no acknowledged registration is lost; the two tables of a published state
  agree; a failed registration changes nothing a request can see; a request works on
  one state; requests never wait for registrations; every error path unlocks.
- Rule tree: routing is a function; a method stays reachable as long as it is served.
- gRPC request: nothing touches the request after `serveGRPC` has returned; headers once,
  before the status; a status unless the context is done; it returns.
- Proxy: both directions in order; a nil result means a complete call; a call ends when
  the backend fails or the client's context ends; no goroutine is left behind.
- HTTP stream: messages whole, in order, none lost, none refused without a reason; URL
  parameters on the first message only; the answer is what its header says it is; an
  error looks like one as long as the answer has not begun; every request is answered.
- Routing: the lexer accepts its grammar; a request is served by a rule that matches it,
  literals before variables; fields hold what path and query say.
- gRPC-Web and metadata: messages, status and metadata reach the client, each in its place.
- Websocket: messages in order, one close frame with a true code, the call ends.
- Pools: an object has one user, and nobody sees the data of another.

## 2. Modules

| module | models | state and actions |
|---|---|---|
| `RuleTree` | `rules.go` | operators only. A tree is the set of its entries `[node, verb, method]`; the verb `All` is `methodAll`. `AddRuleOutcome` is `addRule` (errors of the template before the lookup, of the body after it, the nil dereference of `y.desc`), `DelRule` is the depth-first removal of one entry with the pruning of nodes that are not `alive()`, `Search` the search order |
| `Mux` | `mux.go`, `handler.go`, the load-match-pick part of `http.go` and `grpc.go` | `mu`, `state`, and per goroutine its locals: `wr[w]` a registration, `rd[r]` a request. One action per call and per step between which another goroutine or a backend can act: lock and clone, fetch, one removed handler, one file, one rule, one appended handler, store, unlock |
| `Registry` | the promise of the registry | `serving`, the methods each owner answers; one action, replacing one owner's set by a complete one |
| `MuxProofs` | | theorems about `Mux` (types, routing and requests, the tables, the refinement) and about `Selector` |
| `StreamGRPCProofs`, `ProxyStreamProofs`, `StreamWSProofs`, `HTTPReplyProofs`, `WebGRPCProofs`, `PoolsProofs` | | theorems about the module of that name; `HTTPReplyProofs` holds those about `StreamHTTP` and `Negotiate` too |
| `Inductions` | | lemmas: induction over an interval of numbers, recursive functions as loops, `FlattenSeq` |
| `StreamGRPC` | `grpc.go` | `mpc` is the place in `serveGRPC`, `call[g]` the place of goroutine `g` inside a stream method, `wg`, `ctx`, `sentHeader` the fields of the stream. The client and the clock are actions |
| `ProxyStream` | `createConnHandler` in `mux.go` | the client, the handler's goroutine (`main`), the inbound goroutine (`inb`) and the backend, each with its own actions. `desc` says which sides stream and whether the stream is a websocket, whose connection is hijacked so that a client that leaves does not end the context. grpc-go's client stream is external and modelled from its use: SendMsg on an ended stream answers io.EOF or swallows the message, RecvMsg of a method without server streaming returns at the end of the call |
| `StreamHTTP` | receiving half of `http.go`, `readAll` of `mux.go`, `ReadNext` in `codec.go` | `rbuf`, `rEOF`, `recvCount` are the fields; `buf` and `total` the locals of a read. A body is a sequence of units that know their message; a read takes any number of them. A request may have no codec, messages that do not unmarshal (`bad`) and parameters that cannot be set (`paramsOK`) |
| `HTTPReply` | the sending half of `http.go`, `encError`, `AsHTTPBodyReader`, `AsHTTPBodyWriter`, `code.go` | extends `StreamHTTP`, whose `RecvMsg` is one of its handler's steps: a handler receives, sets metadata, sends, takes the raw reader or writer and returns, in any order. `wire` is what net/http has sent: status, header as of the first write, parts of the body with the type and encoding they really have. The `Flush` that `SendMsg` defers is part of each of its failures (`Flushed`), the `Close` of a compressor part of each return (`WriterClosed`) |
| `Negotiate` | `negotiate.go`, the offers of `NewMux` | operators only. An Accept header is a sequence of lines of items `[main, sub, param, q, comma]`; the two nested loops are the recursive functions `BestPair` and `BestSpec`; weights are the digits of the text, of which there are up to `MaxDecimals` behind the point |
| `Metadata` | the helpers of `grpc.go` | operators only. A key is a name and whether it ends in `-bin`; a value its data and the form it is written in |
| `Lexer` | `lexer.go` | operators only, one per function; a lexer is a record of input, place, tokens and error |
| `Params` | the parameters in `rules.go` | operators only: `parseParam` by kind of field, `SetParams`, `parseQueryParams` under a given order of keys. Texts are sequences of runes because the parser looks at them; integers have a width of `Bits` |
| `Selector` | `ruleSelector` | `config`, the selectors in use, and `selected`, the last call with its result; `ServiceConfig` is `setRules`, `Select` is `getRules`. A node of the tree is the way down to it. What the comment of the type says, and what the code does beyond it, is at the end |
| `Router` | `addRule`, `search`, `match`, `variable.index` over tokens; the start of `serveHTTP` | `tree`, `bound`, and the last call with its result, beside the state of `Selector`. `AddRule` compiles a template into keys and fields and uses `RuleTree` for the duplicate check; `Request` is a request up to the fields of its message |
| `Routing` | the reference for `Router` | grammar, matching and meaning of fields without tokens, and the properties |
| `WebGRPC` | `web.go` around `serveGRPC` | `hdr` is the map shared by headers and trailers, `seen` the keys of `seenHeaders`, `out` the parts written, `wire` the header sent; at the end of the module, what a client decodes |
| `StreamWS` | `websocket.go`, the websocket part of `http.go` | the client runs a script of frames, the handler any sequence of calls, also after one that failed; `results` is what each `RecvMsg` returned, `over` that the connection told it to stop |
| `Pools` | `compress.go` and its users in `grpc.go` and `http.go` | `pool` counts how often an object is in its pool, `z` and `b` are the objects a user holds, `src`, `dst`, `bytes` what they are connected to and contain. A writer that cannot be made, for a bad level, ends a `SendMsg` early (`CompressFails`) |
| `MC...` | | constants for TLC |

`Mux` uses `RuleTree` and instantiates `Registry` for the refinement; `Router` instantiates
`RuleTree` too, so the tree that is proved about and the tree that is walked token by token
share their duplicate check. `HTTPReply` composes `StreamHTTP`, `Negotiate` and `Metadata`;
`WebGRPC` and `StreamWS` use `Metadata`. The stream modules are
independent of `Mux`: a stream only ever uses the one handler it was given.
Operators introduced by "Mutant:" stand before the definition they vary. No
specification uses them; each shows that a plausible mistake in that code would be
caught by a property, and `PROJECT.json` pairs them.

Some choices that the code does not show at once:

- A panic in a registration unwinds through the deferred Unlock. Whoever
  called may recover, so the model goes on; `RegisterService` ends the process
  (`log.Fatalf`) for an error, and for a value that does not implement the service
  (`RegisterServiceFatal`).
- `acked` is what callers were told: a registration that returned without an error sets
  it, a `DropConn` that returned true clears it, at the `Unlock` of each.
- `clone` copies maps, slices and tree nodes, and no later step of a writer touches what
  the published state shares, so a clone is a copy. The `*method` values are shared
  and never written.
- Handlers are compared by pointer in the code and by value (method, owner, list of
  files) here. For services a second registration of the same service panics or fails
  in `addRule` before it appends, so two equal handlers never exist at once.
- The hash of the file descriptors is the list of files. An ErrorResponse of the
  reflection service is read as an empty list, since the code only looks at the field
  it expects.
- What a search does with a captured value that does not parse depends on the value (in
  `Router` it is computed): in `Mux`, `Match` leaves out any set of capturing entries, and may also answer InvalidArgument.
- net/http fixes status and header at the first write; what is set later is lost unless it
  has the trailer prefix. `HTTPReply` and `WebGRPC` keep the header being built and the one
  sent apart.
- The base64 encoder of `grpc-web-text` writes three bytes at a time and is never closed:
  `Encoded` is what of the bytes written has reached the client.
- The keys of `url.Values` come in a random order: `Request` takes any.
- A code that the tables of `code.go` do not hold panics if it is the first one after them
  and is an internal error beyond.

## 3. Runs

Every passing run also has one mutant per property that TLC must reject. A property with others in
parentheses is their conjunction. The comment of a property names its exceptions; each is
a disagreement of section 5.

| run | checks | shows |
|---|---|---|
| `registry` | `TypeOK`, `ConnTablesAgree`, `NoLostUpdate`, `CloneIsCurrent`, `RulesUnambiguous`, `OneStatePerRequest`, `RefinesRegistry`, `RequestsFinish`, `RegistrationsFinish` | two writers, a request, two backends and three services: tables agree, nothing acknowledged is lost until it is dropped, two rules never hold the same node and verb, a request never mixes two states, the whole implements `Registry`; requests are answered even if the writer that holds the mutex is stalled for ever; if backends answer, every registration returns |
| `registry_drop` | `DroppedConnIsGone` (violated) | `DropConn` returns true and publishes nothing |
| `grpc_stream` | `RequestInv` (`TypeOK`, `WaitGroupCounts`), `NoUseAfterReturn`, `HeadersOnce`, `StatusUnlessCancelled`, `ReturnsAfterHandler` | with a receiving and a sending goroutine that outlive the handler; only a first message sent while the handler returns spoils headers and status |
| `proxy` | `CallInv` (`TypeOK`, `MessagesInOrder`), `OkMeansComplete`, `CallEnds`, `NoGoroutineLeak` | all four kinds of methods, on requests of net/http and on websockets |
| `proxy_half_close` | `HalfCloseIsAnswered` (violated) | a client-streaming call to a backend that waits for the end of its requests never ends |
| `http_two_messages` | `StreamOfMessages` (violated) | the README's own example ends with an error instead of io.EOF |
| `http_file` | `ChunksAreTheFile` (violated) | an upload longer than one chunk loses what a read took beyond the limit and is in `rbuf` at the end of the body |
| `http_stream` | of receiving: `MessagesInOrder` (`FramesInOrder`, `NothingLost`, `ParamsOnFirst`), `RefusedForAReason`, `BodyInOrder` (`ChunksInOrder`, `BodyReachesHandler`); of answering: `AnswerIsAsNegotiated` (`AcceptIsBest`, `BodyEncodedAsSaid`), `ErrorSeenUnlessBegun`, `AnswerIsAsSaid` (`ContentTypeIsTrue`, `MetadataSent`), `RequestAnswered` (with `ReplyPanicsExplained`); `ReplyTypeOK` | JSON, protobuf and HttpBody bodies, whole, cut and faulty, in pieces of any length, and every answer a handler can make of them, its failed `SendMsg` included |
| `routing` | `LexerFollowsGrammar` (of templates and paths), `RulesAsGiven` (`TypeOK`, `RulesRefusedForAReason`), `RequestsServed` (`ServedByAMatch`, `LiteralsFirst`, `PanicsExplained`), `FieldsAsWritten`, `AnswerIsDetermined`, `SelectorsResolved` (`InvalidPanics`, `RulesSelected`) | sets of overlapping rules in every order, with requests to them; all short texts for the lexer; configurations of one and two selectors |
| `web` | `AnswerArrives` (`MessagesArrive`, `StatusArrives`, `MessageIsPrefix`), `MetadataInPlace` (`HeadersArrive`, `TrailersArrive`, `MetadataArrives`), `AnswerIsWeb` (`TypeOK`, `BodyIsWeb`) | calls in both formats, to the client that decodes the answer |
| `websocket` | `ReceivedInOrder` (`TypeOK`, `MessagesInOrder`, `ParamsOnFirst`), `ClosedTruly` (`ClosedOnce`, `CloseCodeTrue`), `CallEnds` | clients that send, ping, send garbage, close or vanish, and handlers that go on after an error |
| `pools` | `ObjectsExclusive` (`TypeOK`, `ReadersExclusive`, `BuffersExclusive`), `OwnData` | exclusive use and own data as long as nobody reads after io.EOF; a user that does gets its reader into the pool twice |

**Bounds.** `MaxCalls = 3` registrations by two writers let one connection be
registered, change its listing and be registered again while another writer works, or
let a registration, a drop and a second registration overlap; the files of `MCMux` hold a method with an
additional binding and a repeated rule, a rule that clashes with a service's, and a rule that is refused after
others were added. Of its services one is sound, one has no descriptor for its method and one does not
implement it, so that both paths that end the process are taken. `MaxMessages = 2`: one message read,
one waiting when the handler returns. Three requests and two replies: one by the handler,
two by the inbound goroutine; each method on a hijacked connection and on another. `Limit = 3` with messages of 1 to 5 units has messages
below, at and above the limit and reads that end inside, at and beyond a message; a
request without a codec, with a first or second message that does not unmarshal and with
parameters that cannot be set is among them.
The answers of `MCHTTPReply` have Accept headers with weights that are equal, zero and of
three digits, both wildcards and malformed items, codes in, just behind and beyond the
table, and messages at and above `SendLimit`. `MCRouting` takes up to `MaxRules = 3` of 18
rules that overlap in every way the tree tells apart, all paths of three segments over
three texts, queries of every kind of field with values at and beyond its width (5 and 7
bits stand for 32 and 64; trees of up to two rules), and every text of four runes (with what is put around it) for
the grammar; 12 tokens stand for the 64 of the lexer. Messages and trailer frames of
`MCWebGRPC` have lengths of every remainder by three, which is what base64 tells apart
(the length of a frame is not computed from its keys: any of `FrameSizes` stands for it); its metadata give
one key two values, as header and trailer, and use the key of the status details. Scripts of `MCStreamWS` end in a close frame or a
lost connection after up to two messages, with a ping or a text that is not JSON before or between them. `MCPools` has two users of every pool and as many
objects; every reader is used for two rounds.
Deadlock is not checked: all systems end (the calls are used up, the request is
answered).

**Fairness.** `Mux`: goroutines run (weak fairness of a writer's own steps and of a
request's); Go's mutex has no starvation, and a free mutex is a step of the writer that waits. The backend
is fair only as the premise of `RegistrationsFinish`. `StreamGRPC`: goroutines run, and a client
whose deadline has passed gives up the stream (it set the timeout). Two goroutines of a
handler that keep calling stream methods in turn may keep the wait group above zero for
ever, so `ReturnsAfterHandler` has the premise that such calls end. `ProxyStream`: both goroutines run and the backend serves what
it has; nothing is asked of the client. `HTTPReply`: the client sends its body
and reads the answer, and the handler ends; its loops are bounded by the body and by what
it sends. `StreamWS`: the client plays its script, which ends the connection, and the
request's goroutine runs.

## 4. Proofs

Eight modules hold theorems and lemmas. All but `Inductions` work alike: each takes a specification, states an inductive invariant,
and proves it by one lemma per action (or per group of actions that disturb the same
parts), then the theorems from it. Every result is for any value of the constants that satisfies the
named assumptions of the module it is about; TLC evaluates those in every run.

**Registry.** `MuxProofs` proves `TypeCorrect`, `Spec => []TypeOK`. `TypeOK` alone is not
inductive: that a writer in a critical step works for an
owner of the kind its operation needs is added in `TypeInv`.
It also proves, for any sets of writers, readers, connections, services, methods,
files and rules, and any bound on the calls:

- `RegistrationsAreKept`: `NoLostUpdate`;
- `PublishedTablesAgree`: `ConnTablesAgree`;
- `ClonesAreCurrent`: `CloneIsCurrent`;
- `MuxImplementsRegistry`: every behaviour of `Mux` is one of `Registry`;
- `RoutingIsAFunction`: `RulesUnambiguous`;
- `RequestsUseOneState`: `OneStatePerRequest`.

The first four follow from `RegistryInv`. The mutex part says that exactly its holder is
between lock and unlock. `WriterInv` follows a clone through a registration: other owners are in
it as published (`Frame`); during the removal exactly the handlers still to drop are its
owner's (`Removing`); during the construction the target set of methods is what was
added and what is pending (`Building`); at the store the clone holds exactly the
target and its connection entry agrees with it (`Storing`). So a store changes one owner, to a
complete set, which is a step of `Registry`; every other step leaves `state`, and
therefore `Serving`, alone. A refusal or a failure goes to "return" with nothing
stored. `RoutingIsAFunction` needs the same of every clone (`PathsOK`): removal only shrinks a
tree, and `addRule` adds to a node and verb only when it holds neither.
`RequestsUseOneState` needs that `seen` is what the loaded state serves.
The assumptions are `ConstantTypes`, `ConstantsDistinct` and `NoConnIsNoList`:
types of the constants, and that the values standing for "none" are none of the others.

**Service configuration.** `MuxProofs`, for any configurations and names (`SelectorTypes`):

- `SelectorsFound`: `SelectorsResolved`, both its parts: which configurations panic
  (`InvalidPanics`), and which rules a method gets, each once and the less specific first
  (`RulesSelected`). These are all that the comment of the type gives it, and those of
  every selector that names something around it (section 5).

The state only remembers a call and what it returned (`Asked`), so the work is about
`setRules` and `getRules`. `Collected` is the invariant of the loop of `setRules` for one
node: the rules so far that end there, in the order of the configuration. `Gathered` is
that of the descent of `getRules`: the rules of the nodes so far, each once, a higher node
before a lower one. A well-formed selector ends at the element it names, without its
`*`, so that to be on the way to a name is to be a prefix of it.

**gRPC request.** `StreamGRPCProofs`, for any finite sets of goroutines of the handler
(`FinitelyMany`, `Distinct`) and any number of messages:

- `RequestCounted`: `RequestInv`, the wait group counts the goroutines in a stream method,
  and those in a nested `SendHeader` twice;
- `NothingUsedAfterReturn`: `NoUseAfterReturn`;
- `HeadersSetOnce`: `HeadersOnce`; `StatusWritten`: `StatusUnlessCancelled`, both with their
  exception, a goroutine that sends its first message as the handler returns;
- `NothingChangedAfterReturn`, an action property: once `serveGRPC` has returned, no step
  changes the response or takes from the body.

The count alone does not give the second: `Wait` returns at zero, and a goroutine that calls a method afterwards
must find the context done. `TurnedAway` says so: the context is no longer active from the wait
on, and after the return every call is still before its `isDone`. `OneSends` is grpc-go's rule, which the
handler keeps, that one goroutine sends at a time; with it, `HeaderInv` ties `sentHeader` to
the number of header writes at every place of `SendHeader`. `StatusInv` carries the reason
for a missing status from the failed `SendHeader` to the return.

**Proxied call.** `ProxyStreamProofs`, for all four kinds of methods and any number of requests and
replies (`BoundsAreNat`, `DescsAreDescs`):

- `ForwardedInOrder`: `CallInv`, what the backend got and what the client got are the
  messages in order;
- `OkIsComplete`: `OkMeansComplete`, a nil result means that every reply was forwarded.

`QueuesOrdered` says that each queue holds the numbers that come next. What a goroutine
holds in a local between two queues is in `RequestsFlow` and `RepliesFlow`: one request is
held, by the handler before the inbound goroutine runs and by that goroutine later, and it
is the next to forward (one that `RecvMsg` read and refused is forwarded by nobody, and ends the
call or the goroutine); while the handler waits for that goroutine, no reply is left.

**Websocket.** `StreamWSProofs`, for any scripts of clients, codes and numbers of calls
(`ScriptTypes`):

- `MessagesReceivedInOrder`: `ReceivedInOrder`;
- `CloseFrameIsTrue`: `ClosedTruly`.

`MessagesInOrder` is stated with the number of texts before a place in the script, so
the proof is a count over a finite set, extended by one frame at a time. `Counted` relates
`recvN` to what was returned, errors included, which decides who gets the parameters; `Ends` says that only
the end of the call closes, and that no close frame was written before.

**HTTP request.** `HTTPReplyProofs`, for any framed body, any limit, any readers, and any
metadata, codes and handlers (`RequestTypes`, `ReplyTypes`; that bodies are `Framed`, units
of a message in sequence and only the last message cut, is what a client of these formats
sends):

- `HTTPMessagesInOrder`: `MessagesInOrder`, messages arrive whole, in order, with the
  parameters on the first, and none is missing when `RecvMsg` says io.EOF;
- `HTTPRefusals`: `RefusedForAReason`, an error of `RecvMsg` has a cause in the request, or
  is the one JSON gives at the end of the body (`EndOfJSON`);
- `ErrorsAreSeen`: `ErrorSeenUnlessBegun`, an error that meets an answer not yet begun is seen;
- `AnswersAreAsSaid`: `AnswerIsAsSaid`, the Content-Type sent is that of the first part
  and the metadata sent are those the handler set in time, unless a `SendMsg` failed;
- `HTTPBodyInOrder`: `BodyInOrder`, an HttpBody upload reaches its handler in order and without
  a gap, whole if one chunk can hold it or the handler took the reader, and otherwise but for what `rbuf` holds;
- `AnswersAsNegotiated`: `AnswerIsAsNegotiated`, the type of the answer is the best the client
  accepts, and its parts have the encoding its header says;
- `FindsBest`: `negotiateContentType` returns the offer that its comment describes (`BestOf`), for
  any Accept lines (`AcceptItem`), offers and default;
- `NeverCompressed`: with the offers of `NewMux`, `negotiateContentEncoding` returns no compressor;
- `ReplyTyped`: `ReplyTypeOK`.

`SInv` is the receiving half. Its heart is `Framing`: between two messages, what the codec holds followed
by what the reader has left is the body from the end of the last message on. A read
moves units from the one to the other; a `ReadNext` that finds a message moves
the boundary by exactly that message, because units of one message are in sequence. `Complete`
keeps this for the time after `rEOF` is set; `Unary` is the simpler fact about `readAll`. `RInv` adds the
answer: `Sending` says that, while the handler runs and no `SendMsg` has failed, nothing is on the
wire until a message is, and that the header it took with it has the type and the metadata. So an error of
a handler meets either an empty wire, and its status is sent, or an answer that has begun: a
message is out, or the `Flush` of a failed `SendMsg` sent the header. Both are exceptions
the property names.

`Chunks` is for HttpBody what `Framing` is for messages: the concatenation of what was received, what is in
hand and what the reader has left is the body, and a chunk that `RecvMsg` returns moves from
the second to the first (`FlattenAppend`). `OneChunk` says that `rbuf` stays empty for a body within the
limit: a read takes more than a chunk only if the body has more. A handler that took the reader has read what is no
longer left. `Found` is the invariant of the loops of `negotiateContentType` after spec `j` of offer `i`: nothing
tried so far covers its offer, or the best so far is one of those tried, no other beats it, and it
beats those of earlier offers. `Negotiated` adds to `RInv` that no part is compressed. So
`BodyEncodedAsSaid` holds because of the wrong offers of `mux.go:344`; with offers of
compressors its proof would need the branch of `serveHTTP` that compresses (`http.go:446`).

Two of these attempts failed first, and the properties now say what they mean: a body that the client
sends to a rule without `body` is not read, so `BodyReachesHandler` does not ask for it; a
handler may set a Content-Encoding of its own, which `BodyEncodedAsSaid` leaves to it.

**gRPC-Web.** `WebGRPCProofs`, for any requests, metadata, statuses, lengths and number of
messages (`WebTypes`):

- `AnswersArrive`: `AnswerArrives`;
- `MetadataArePlaced`: `MetadataInPlace`, header and trailer metadata reach the client and the
  client's reach the handler, with their values, but for those that its three parts name;
- `AnswersAreWeb`: `AnswerIsWeb`.

Until the handler returns, `Handling` keeps the keys of the status out of the shared header, has the
handler's metadata in it (`HeaderIn`) once they were sent, and makes
the keys that were seen those of the header sent; so the frame at the end has the status, and what it has
is disjoint from the header. `Finished` is this fact about header and trailers as sent: with a body the header
keeps its values, and only trailers with one of its keys are missing (`HeaderInBut`); without one the trailers
are all there, and may have taken the place of a header. What the client
decodes is either that or nothing: `Parts` says that every part is at least five bytes, the encoder keeps at most two,
so that only the last part, the trailer frame, can be cut. That the decoded message is a
prefix needs the greatest of the escaped places to exist, which is the well-foundedness of
the naturals (`MaxIn`, from `NatMin` of `Inductions`).

**Pools.** `PoolsProofs`, for any streams, bodies, objects, rounds and chunks
(`UsersAreDistinct`, `NoObjectIsNone`, `BoundsAreNat`):

- `PooledObjectsExclusive`: `ObjectsExclusive`; `MessagesAreOwn`: `OwnData`.

`One` is the statement for one pool: an object is in it once, or has one user, or is lost. For buffers and writers
it always holds; for readers as long as nobody has read after io.EOF (`~again`), which puts a
reader back twice. `Data` follows the chunks of a user through its reader or writer and buffer;
a compression that fails has no writer and gives only its buffer back (`BufferBackInv`).
It needs `One` for all three pools, since a step of one user must not reach the objects of another.

**Only model-checked**, and why:

- liveness (`RequestsFinish`, `RegistrationsFinish`, `ReturnsAfterHandler`, the two `CallEnds`,
  `NoGoroutineLeak`, `RequestAnswered`): fairness is outside the prover's reach;
- `LexerFollowsGrammar`, `RulesAsGiven`, `RequestsServed`, `FieldsAsWritten`, `AnswerIsDetermined`:
  `Lexer`, `Router` and `Routing` are recursive over texts, tokens and trees with operators
  declared RECURSIVE, of which the prover knows nothing.

What a loop computes is proved where it is a recursive function over numbers. The
library's induction theorems take a predicate as a parameter, which the provers cannot
instantiate; `Inductions` has the set of the numbers for which the claim is true instead, and
shows with the least counterexample that it is the whole interval (`Induction`). A recursive
function is a choice among the functions that satisfy its equation; `LoopExists` shows that
there is one.

## 5. Disagreements found

Four runs are expected to find a violation; each states what a comment or the README
says, and `PROJECT.json` quotes the line under `findings`: `DropConn` forgets `storeState`; the
proxy never calls `CloseSend`; `readMsg` turns io.EOF into an empty message; the end of a
chunked upload stays in `rbuf`.

Others are part of the models. A property that meets one names it as an exception, in a
definition or disjunct of its own, so that everything else it says still holds:

- Registry and tree. `addRule` dereferences nil where only `methodAll` is set
  (`rules.go:355`), as when a connection is registered again; `alive` ignores `methodAll`, so
  that pruning can remove the implicit rule of another method (`rules.go:167`);
  `response_body` is looked up under the name of the body (`rules.go:383`); a variable inside
  a variable passes the lexer and panics in `addRule`; `variable.index` starts its searches at
  the first token, so an inner `**` with an action behind it is confused or panics; a query
  key through a list or map panics (`rules.go:611`).
- Selectors (`RulesSelected`, `InvalidPanics`). The comment (`mux.go:77-84`) makes a selector
  without `*` the name of one element; the code gives its rules to everything below it, and
  those of `a.*` to `a` as well. The comment calls `foo.b*` invalid; the code takes `b*` for a name.
  Lists separated by commas are not split.
- Lexer (`HasOddLiteral`). The grammar of the comment (`lexer.go:16-36`) has one LITERAL; the code
  refuses a segment that is a literal of one rune, like `/a`, or begins with no letter
  (`lexer.go:247`), while an action may be either.
- Parameters. Text `null` is the zero value of any scalar; of two keys for one field, or a
  message and a field in it, the random order decides.
- gRPC. `serveGRPC` takes "already sent headers" for a cancelled context and then writes no
  status and does not close the body (`grpc.go:567`); `encodeGrpcMessage` drops what follows the
  last escaped byte; a padded `-bin` value arrives empty, although the comment above the code says
  that padded input is decoded (`grpc.go:62`; `NotDecoded`); a negative timeout is accepted;
  `SendMsg` compares the size with the limit for receiving (`grpc.go:304`).
- gRPC-Web. Over HTTP/2 every call is refused with 415, because `ServeHTTP` takes HTTP/2 with
  such a type for gRPC (`mux.go:801-806`); the README claims support (`README.md:20`).
  `grpc-web-text` loses up to two bytes at the end (`CutOff`). A trailer with the key of a header is
  dropped (`web.go:107-109`; `TrailersArrive`). An answer without a body has one map for all: a trailer or the details of the
  status take the place of a header with that key (`HeadersArrive`), and its Content-Type is
  `application/grpc`, not a gRPC-Web one.
- Proxy. A websocket client that leaves does not end the context of its call, as the connection is hijacked
  (`http.go:381`): while the backend is silent, the handler stays in `RecvMsg` (`mux.go:678`; `CallEnds`).
- HTTP, receiving. Besides the last message of the README's example, a whole JSON message that the
  reader hands out together with io.EOF is refused (`codec.go:213`), which net/http does for bodies of known
  length, and so is an empty body (`EndOfJSON`).
- HTTP, answering. A `SendMsg` that fails before it wrote, for want of a codec or because a unary
  message is too large, still runs its deferred `Flush` (`http.go:109-111`): status 200 and the header of
  that moment are sent, and the error of `encError` follows below them, under a Content-Type that is not its own
  and, without a codec, without the metadata (`SendFailed`).
  `encodingTypeOffers` is filled from the codecs (`mux.go:344`), so answers are never compressed;
  a Content-Type with parameters has no codec and is answered with an internal error, as
  is `application/proto`, which the README lists for Twirp (`README.md:269`); asking for
  `google.api.HttpBody` makes the answer panic; the code after the last one of a table panics
  (`code.go:35`, `:63`).
- Websocket. Metadata are never sent; without a body `RecvMsg` never says io.EOF; after the
  echo of the client's close frame a second close frame follows; a handler that goes on after a first message that
  failed never gets the parameters (`websocket.go:102`; `ParamsOnFirst`).
- Pools. A gzip stream that fails in the middle loses its reader for the pool; harmless. A read after io.EOF puts a reader back twice, and two users may then share it (`again`).

## 6. Not modelled

- Statistics handlers, logging, interceptors, TLS and the wiring of `server.go`: no behaviour
  of their own, or none that requests depend on. `SetTrailer` of the HTTP stream feeds
  statistics only: `serveHTTP` writes the trailers when a stats handler is installed (`http.go:477-492`),
  and the model has none.
- The resolver of `RegisterConn` (`mux.go:387-454`): it loads files recursively from the backend or
  the registry of the process; `NewFileFails` is any failure of it. What it returns only decides which
  methods a file has, which is a constant.
- The pool of byte slices (`codec.go:20`): each user takes one and gives it back in the same
  function, after it has copied out what it keeps.
- The code of an error in a query: `parseQueryParams` fails for an unknown key and for a value that
  does not parse, and `serveHTTP` answers both as it got them; `Params` has one error for the two, and no
  property tells them apart.
- A close message that is longer than a websocket frame for it may be (`http.go:397`), and
  the error that `encError` writes to a hijacked writer, which reaches nobody.
- Concurrent use of a websocket by two goroutines of a handler: frames may mix on the
  connection (`websocket.go:72`), which needs a model of their bytes.
- The misuse panic of `sync.WaitGroup` (Add concurrent with Wait at zero), which the late
  calls of a handler's goroutine could meet, and the width of the varint size (`codec.go:128`).
- gzip, base64, JSON, protobuf and HTTP themselves are external, modelled from their use.
- The reflection server of `proxy.go` answers every request with an empty response.
  Generated code, benchmarks and examples.

## 7. Plan

Done, in this order: `RuleTree`, `Mux`, `Registry` and their proofs; `StreamGRPC`,
`ProxyStream`, `StreamHTTP`; `HTTPReply` with `Negotiate` and `Metadata`; `Lexer`, `Params`,
`Selector`, `Router` against `Routing`; `WebGRPC`; `StreamWS`; `Pools`.

Their proofs, in the order of section 4.

Left: the lexer and the search of the tree as recursive functions over the number of
runes and tokens, after which `LexerFollowsGrammar` and `RequestsServed` are within reach of the
induction of `Inductions`; a websocket used by two goroutines at once.
