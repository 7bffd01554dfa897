# io-pim-discovery in TLA+

Models, checks and proofs about io-pim-discovery, the Rust library and command
line that find out, from an email address, which servers hold its mail, its
calendars and its contacts, and how to log in to them.

## The system

A *mechanism* looks in one place for configurations (a service, an endpoint, a
login, authentication methods, and the mechanism as their source).  Each is a
*coroutine* without I/O: `resume` takes the bytes read last (none of them means
end of file) and yields a wish to read or to write a URL, or completes.  A
*driver* owns the sockets: the std client of one mechanism, or the compose,
which runs the mechanisms in parallel and reduces what they found to one list.

| component | state | operations | interacts with |
|---|---|---|---|
| configuration collector, `compose/collect.rs` | the requested services, the list so far | `new`, `wants`, `collect`, `is_empty`, `finish` | fed by the compose, or by a consumer of the crate |
| configuration values, `compose/config.rs` | none, pure | `equivalent`, `subdomain_of`, `probe_urls`, `refine_auth`, conversions from the mechanisms' documents | collector, probe pass |
| parallel compose, `compose/client.rs` | the calling thread, mechanism threads, probe threads, issuer threads; a stream pool per exchange | `compose_all`, `compose_first`, `compose_raw` and one entry point per mechanism | every mechanism, the collector |
| fixed providers, `compose/providers.rs` | none, pure | `from_domain`, `from_mx`, `configs` | compose |
| DNS exchange, `shared/dns.rs` | the query to write, or the bytes of the answer so far, or an HTTP send | `resume` | a resolver over TCP or HTTPS |
| document fetch, `shared/http.rs` | the send | `resume` | an HTTP server |
| authentication probe, `rfc9110.rs` | the target, the redirect hops | `resume` | an HTTP server |
| stream pool, `shared/pool.rs` | a map from scheme, host and port to an open stream | `get`, `insert` | drivers |
| mail SRV, `rfc6186/` | the lookup in progress, the report | `resume`, `discover` | DNS exchange |
| DAV, `rfc6764/` | SRV, then TXT, then well-known step | `resume` | DNS and HTTP exchange |
| JMAP, `rfc8620/` | SRV step, well-known walk | `resume` | DNS and HTTP exchange |
| PACC, `pacc/` | the document, the digest lookup | `resume` | HTTP and DNS exchange |
| autoconfig, `autoconfig/` | one document fetch, or a TXT or MX lookup before it | `resume` | HTTP and DNS exchange |
| OAuth metadata, `rfc8414.rs`, `rfc9728.rs` | one document fetch | `resume` | HTTP exchange |
| command line, `cli/` | none across calls | one command per mechanism, chains of mechanisms (`first`), `all`, `auth` | the compose client |

What is hard about it: the threads of a compose end in any order, some after a
failure or a panic, and what they return must not show it; the collector's merge
depends on the order of what it is fed and rewrites the endpoints it compares
with; answers are paired with configurations by index; the coroutines see their
input in arbitrary chunks and keep no timeouts, so that only their own bounds end
an exchange with a peer that keeps talking; a pooled stream outlives the exchange
it was opened for.  `PROJECT.json` lists these as hazards, each at its line.

What makes each part correct:

- collector: nothing wanted is lost, priority decides spelling and source, the
  list has no duplicate it could have avoided, methods keep their order;
- compose: the result is one that running the mechanisms one after the other
  could return; every call returns; a pass refines the entry it looked at;
- DNS exchange: the body returned is the body sent, however it is cut, and every
  exchange ends when the stream does;
- std clients: an answer is the answer to the query asked;
- DAV and JMAP: failing SRV lookups end in a probe of the domain, a result is of one
  service and of one chain of answers; a redirect walk is bounded;
- PACC: no document is returned that no digest vouches for, and one that is vouched
  for is found, whatever else is published and whatever was called before;
- autoconfig: a location that fails costs its own document only, and a document comes
  whole;
- command line: the first mechanism that leaves anything asked for is the answer.

## Modules

| module | what it is |
|---|---|
| `Lists` | the filters of the code, in closed form: the items at the places kept |
| `ServiceConfig` | configurations, endpoints and the pure operators on them; the constants and their assumptions |
| `Collector` | `DiscoveryConfigCollector`; one step per iteration of the two loops of `collect` |
| `CollectorProofs` | six theorems about `Collector` |
| `Mechanisms` | priority and relevance of the mechanisms, what they may contribute, the pure parts of the probe and issuer passes |
| `SequentialCompose` | the abstract compose: mechanisms one after the other, no threads, one step per pass |
| `Compose` | `DiscoveryComposeClientStd`: the threads, the reduction, the two passes |
| `ComposeProofs` | ten theorems: the refinement, the collector's guarantees inside a compose, and every invariant of `Compose` |
| `DnsExchange` | `DiscoveryDnsExchange` under its two kinds of driver, byte by byte |
| `DnsExchangeProofs` | five theorems about it |
| `SrvClient` | `DiscoverySrvClientStd`: calls, lookups, pool and resolver |
| `SrvClientProofs` | five theorems about it |
| `DavResolve` | `DiscoveryDavResolve` under the std client and under the compose, with the pool |
| `DavResolveProofs` | five theorems about it |
| `RedirectWalk` | the redirect walks of `DiscoveryJmapResolve` and `DiscoveryProbeAuth` |
| `RedirectWalkProofs` | three theorems about it |
| `Pacc` | `DiscoveryPacc` under its std client and under the compose: document, digest, pool |
| `PaccProofs` | three theorems about it |
| `Conversions` | the documents of the mechanisms and how each becomes configurations; the provider rules; pure |
| `FirstHit` | the abstract command: mechanisms in order, the first that leaves anything |
| `DiscoverCommand` | the commands of `cli/` and the methods of the compose they call, exchange by exchange |
| `DiscoverCommandProofs` | three theorems about it, the refinement of `FirstHit` among them |
| `MCCollector`, `MCCompose`, `MCDnsExchange`, `MCSrvClient`, `MCDavResolve`, `MCRedirectWalk`, `MCPacc`, `MCDiscoverCommand` | the small instances TLC checks |

### Collector

`services` and `configs` are the fields of the struct.  `batch` is what is left
of the argument of the running `collect`, `merge` the inner loop over the methods
of a configuration that merges, `taken` a history of the wanted configurations.
`Collect` starts a call; `Skip`, `Push` and `Match` are the three ways an
iteration may go, `MergeMethod` is an iteration of the inner loop.  `FirstMatch`
is the `find`, `Rehost` the endpoint a parent host takes over, `PushMethod` the
test and the push.  An endpoint is an opaque value with the form `equivalent`
compares it in (`Normal`) and the labels of its host, root first (`Host`), in
which `subdomain_of` is a strict prefix.

### Lists

The code filters lists with `retain`, `filter` and `filter_map`. `KeepAt(list, kept)` is the
list of the items at the places `kept`, in order, and `Rank` says which of them a place is.
It is not recursive, as `SelectSeq` is, so that what a filter leaves can be proved.

### Compose

`Spawn` is `parallel_outputs` up to the threads: the domain rule outputs at once,
one thread starts per relevant mechanism.  `EndThread(m)` is a whole mechanism:
it contributes one of the non-empty lists it may find (the constant `Finds`), or
nothing, which stands for a failure, a panic (`join().unwrap_or_default()`) and an
empty find alike.  The threads share no state, so the steps inside one commute
with everything.  `Join` waits for all; `CollectNext` and the loop of the collector
reduce the outputs in the order of `Priority`; `FlattenNext` is `compose_raw`.  A
mechanism that was not started has an empty output in the model and none in the
code; collecting an empty list does nothing, in either mode.  `ProbeUrl(i)` tries
one URL in probe thread `i`, `Refine` pairs the answers with the configurations,
`FetchOauth(i)` and `FetchOpenid(i)` try the two metadata locations of issuer `i`,
`Replace` rewrites the methods.

`SequentialCompose` knows mechanisms only as turns with possible outcomes, takes
the pure passes as constant operators, and has each mechanism run at the moment
it is collected.  `Compose` implements it under the mapping that shows the join
and the reduction as one phase.

### DnsExchange

The coroutine and its driver take turns: `want` is the yield the driver has not
served, `arg` the argument of the next `resume` (none, or some bytes, none of them
at the end).  `state` and `response` are the coroutine's; an action `Resume...` or
`Http...` is one arm of `resume`, `Panic` the arm of `Done`.  `Write`, `Read`,
`ReadEnd` and `Fail` are the driver's: `run` of the compose turns a failure into an
empty read, a std client returns it.  The resolver is the bytes it will send and
whether it then closes or stays silent.  The HTTP send is external (io-http): it
writes, reads, and ends well or not whenever it likes.  `Framed` is the prefix that
`new` adds, `HasFrame` and `Body` the test and the cut of `TcpRead`.

### SrvClient

Built on what `DnsExchange` shows, this module has messages where that one has
bytes: a read brings one whole answer or several, the exchange keeps the first and
drops the rest.  `lookup` and `reading` are the state of `DiscoverySrv` and of the
exchange in it, `stream` the pool's only entry, `asked` and `wire` the two
directions of the connection, holding queries, and answers as the queries they
answer.  `Discover` starts a call, `RejectQuery` is a name that does not parse,
`OpenFails`, `Ask` and `WriteFails` the write, `ReadAnswer`, `ReadGarbage`,
`ReadEnd` and `ReadFails` the read; `Reply` and `Close` are the resolver.  A failing
read takes no part of an answer with it, and a failing write leaves no part of a
query behind on a stream that goes on; either would only make the answers after it
less trustworthy, and no property claims anything of them.

### DavResolve

A step is one exchange, from the first write to the last read, which is what
`DnsExchange` shows it to be.  `state` and `origin` are the coroutine's, `lookup` and
`report` those of `DiscoveryWebdavSrv` in it; the end of a call leaves `origin` and
`report` as they were, which nothing reads then.  `pool` has a status for the
resolver and for each origin, and `pending` the questions each of them was asked and
whose answers nobody has read.  An exchange appends its own (`Queue`) and takes the
first, with the others the same read brought (`Taken`), or reads the stream to its end
(`Drained`).  An I/O error sends nothing (`Unsent`), loses the stream (`Lost`), or leaves
the answer on it (`NotRead`); a query half sent on a stream that survives is left out.
`Answered` is an exchange that gets an answer, `Unanswered` one whose failure the
coroutine hears of (a query that cannot be built, an answer that cannot be read, a
stream that ends), `IoFails` an I/O error, which the std client returns with its pool as
the error left it and the compose reports as the end of the stream.  The history `late`
says that the call used a stream that owed an earlier answer.  `SrvAnswer`,
`LastSrvAnswer`, `SrvFails`, `TxtAnswer`, `TxtFails`, `ProbeAnswer` and `ProbeFails` are
the arms of `resume`, the next state it falls into included (`Proceed`).  What a zone
and its web servers answer is one of the constant `Worlds`; a host name that makes
no URL is in `Unparsable`; a TXT value is unusable, a path, a whole URL, or nothing a
URL can be joined with.  The resolver is one over TCP; one over HTTPS has a key of
its own too, unless it is the very server that is probed.

### RedirectWalk

`target` and `hops` are the fields of both coroutines, `state` says whether
`DiscoveryJmapResolve` is still at its SRV lookup (`DiscoveryProbeAuth` has none),
`start`, `noSrv` and `path` are histories.  `Redirected`, `GivenUp`, `Ended` and `Fails`
are what an exchange may end with, `Close` a server that closes a stream.  A status 3xx
without a location io-http takes for a terminal answer, and so does the model.
Every use of the two coroutines has a pool of its own (`run_jmap`, `probe`), and all
I/O errors reach them as the end of the stream.  The resolver's stream serves one
lookup and is left out; the domain itself is taken to make a URL.

### Pacc

`state` and `body` are the coroutine's state and `raw_body`, `reading` says that the
request of the running exchange is written, `pool` and `pending` have one entry for the
resolver and one for the web host of each domain.  As in `SrvClient` a read brings one
whole answer or several.  `Discover` starts a call: the std client goes on with its pool,
the compose takes a new one.  `RejectUrl` and `RejectQuery` are the two names that cannot
be used, `OpenFails`, `Ask` and `WriteFails` the write, `ReadDocument`, `ReadRecords`,
`ReadGarbage`, `ReadEnd` and `ReadFails` the read of either exchange.  `Site` and `Zone`
say what may be answered about a domain, differently each time.  A TXT record is the
list of its tags; a body and its digest are one value, so that two bodies never share a
digest, and base64 is one more way for a digest not to be a body's.  `late` and `trouble`
are histories of the pool.

### Conversions and DiscoverCommand

`Conversions` has the fields of the documents that the `from_...` functions read, and the
functions: `FromAutoconfig` with `Substitute`, `DefaultPort` and `ServerMethods` (whose
`NewTypes` are the places at which the loop over the authentication types pushes a method),
`FromPacc`, `FromSrv`, `FromDav`, `FromJmap`, the provider rules and their tables.  The
domains and host suffixes of the rules are sets given by constants; the placeholders are
replaced when they are the whole text.

In `DiscoverCommand`, `request` is the command line and what is published, `turn` the
mechanism of the command's chain, `step` the exchange of that mechanism, `found` the
`configs` it fills, `answer` what `only` left of the last one.  `MatchDomain` and
`LookupMx` are `detect_provider`, `FetchIsp` each of the three ISP locations,
`LookupMailconf` and `FetchMailconf` the redirect and the document behind it; the other
mechanisms are one lookup.  Every exchange may fail and then brings nothing.
`EndMechanism` is the return to `cli/domain.rs`, with `only` and the test of
`is_empty`; `Output` prints.  `auth server` is a chain too, of the two metadata
locations.  `FirstHit` knows nothing of exchanges: a mechanism `Yields` one of the lists
it may have.  `all` calls `compose_raw`, which `Compose` models.

All features of the crate are taken as compiled in, which is its default.

## What TLC checks

| run | shows | bounds |
|---|---|---|
| `collector` | type, nothing lost, parents first, first reporter wins, methods distinct, entries stable | four configurations, from two services, eight endpoints (two spellings, three shards, one of them a shard of a shard), two logins, three requests |
| `collector_dedup` | the counterexample to "one deduplicated list" | three configurations |
| `compose` | type, the six properties of a compose | five mechanisms that may find something, one provider, one issuer, three answers to a probe, five requests, three entry points |
| `compose_irrelevant` | the counterexample to "irrelevant mechanisms are never started" | a JMAP request |
| `dns_exchange` | the five properties of an exchange | bytes of two values, all 127 streams of up to six of them, queries of up to three bytes (all that two such bytes can tell), reads of one to three bytes |
| `srv_client` | the six properties of the client | three domains, answers with a root target, a tie and none; three calls |
| `srv_client_late` | the counterexample to "runs the lookups on `domain`" | two calls |
| `dav_resolve` | the five properties of a resolve | five worlds: both records, none, one that makes no URL, TXT values of every kind behind both records and behind the plain ones; two calls |
| `dav_unreachable` | the counterexample to "must not kill the resolve" | one call |
| `redirect_walk` | the four properties of a walk | `MAX_HOPS` as it is, seven URLs on three origins, seven worlds: a chain of five redirects, one of six, a loop, a walk from the record's origin, a refusal, a record that makes no URL, a 2xx that advertises schemes |
| `pacc` | the three properties of a client | four domains: one that vouches for two documents among records that do not count, one that vouches for another's document or for what does not parse, one without a URL, one whose TXT name is refused; three calls, under both drivers |
| `discover_command` | the four properties of a command | all twenty commands, three inputs (an address of a domain of its own, one at a provider, a bare domain), six worlds |

Four configurations are enough for a shard, its sibling, their parent and a second
spelling of the parent, in every order, which is every way the three tests of the
merge can meet; only the collector's bound on what is fed (`MaxTaken`) cuts its
behaviour.  A compose needs no bound: each call ends.  The instance of
`MCCompose` gives every gate a mechanism that can pass it (autoconfig for mail,
CalDAV, JMAP), one find that the request filters out in part (the provider's mail
beside its calendars), one entry that several mechanisms merge into, a rehost
(PACC reports a shard of what CalDAV reports), TCP, HTTP and DAV endpoints (none,
one and two URLs to probe), and an answer with an unknown scheme.  The other
mechanisms end with nothing; they differ from those only by their place.

Properties of a compose:

- `ImplementsSequential`: the refinement above; of `compose_first` it says that exactly
  the wanted findings of the highest-priority mechanism that has any are reduced, whoever
  ended first;
- `EveryFindingReported`: every wanted finding is in the result, covered by its
  entry's endpoint and with its methods, save the ones the endpoint's own
  advertisement replaced and an issuer that became its grants;
- `ProbesRefineOwnConfig`: a configuration has the password and bearer methods its
  own endpoint advertises, or else the ones collected;
- `IssuersSettled`: a bare issuer is in the result only if its resolution failed;
- `SkippedAreIrrelevant`: a mechanism that is not started could not have found
  anything wanted;
- `Termination`: every call returns.

Properties of an exchange:

- `AnswerIsFirstMessage`: the body is the message the resolver framed first, stated
  from the sender's side;
- `NeverWaitsInVain`: no read is asked for once a whole message was read;
- `EofIsDeserved`: the end-of-stream error means that no message came whole, or
  that a read or a write failed;
- `ExchangeTypeOK`: the types, and that no coroutine is resumed after it completed;
- `Termination` when the stream ends or the answer is there.

With bytes of two values a prefix tells zero to three bytes: streams of six hold an
empty message, the longest one and more behind it, a message cut at every place,
and the start of a second one.

Properties of the SRV client:

- `OnTimeAnswersAreOwn`, `InStep`: while no read failed, reports and the stream
  belong to the running call;
- `SlotsAreBest`: the record reported for a service is the best usable one;
- `ClosedForGood`: a client whose resolver closed the connection never reports
  again once the stream is drained;
- `Termination`.

Three calls allow for a failing call, one that takes over what it left, and one
after it.

Properties of a DAV resolve:

- `RootIsPublished`: whatever failed, a result is what the records, the TXT path and
  the redirect of the service itself give, of the whole report or of none of it. It is
  claimed of calls that used no stream on which an earlier failed read had left an
  answer; of the others it is false (see "What the modelling found besides");
- `AsksWhatItNeeds`, of the same calls and of the TXT and `.well-known` exchanges only
  (the four SRV lookups are always made): no TXT query for a name without records, no
  probe after a path was found, and each of the name or the origin that was chosen;
- `FailedSrvIsSurvived`: after failed lookups the call ends no earlier than at the
  probe of the domain;
- `StaleMeansDomain`: the price of that note and of a pool that never opens a stream
  anew. Once the resolver of a std client closed the stream and what it answered is read,
  a call that returns a root returns the domain's own, whatever is published.

The second call is the one that can begin with a stream already closed; a third finds
nothing that the second could not.

Properties of a walk:

- `FollowsRedirects`: each URL asked is where the one before it redirects to, the
  first is the one of the record or of the domain, and there are at most
  `MAX_HOPS` + 1;
- `OutcomeIsTerminal`: a session has the URL of the last answer, and that was a 2xx or
  a 401; the schemes are those of a 401, and of a 2xx its own or none, since docs and code
  differ; no session is reported only for another status or a chain
  that is too long, never for a hop that failed;
- `Termination`.

Properties of PACC:

- `VouchedFor`: a document returned is one that the host of the call's own domain
  serves, and that parses; and one that domain vouches for, while no read from the
  resolver failed on the streams in use. After such a read the late answer of an earlier
  call may vouch for the document of another domain, as it may be taken for a report in
  `srv_client_late`: the pairing is lost there, and the property says so;
- `PublishedIsFound`: a domain whose host serves nothing but documents vouched for in
  every answer of its zone is found by each call that meets no trouble, whatever the
  records before the right one and whatever calls came before;
- `PaccTypeOK`, with the body that a digest is looked up for.

Three calls: one that leaves something behind, one that takes it over, one after it.

Properties of a command:

- `ImplementsFirstHit`: the refinement of `FirstHit`, for the chains (`first`, `auth
  server`) and the single mechanisms alike: what was found and filtered out does not
  stop a chain, nothing of a mechanism that was passed over is left, nothing runs past
  the first hit, and a failing exchange takes nothing from another. Both sides share
  `Chain` and the conversions, `MailconfUrl` and `ProviderFromMx` among them: what those
  compute is for the next two properties;
- `WholeDocuments`: what an answer has of an autoconfig location is every named server
  of one document published there, in order, with the methods its types stand for,
  none twice, and nothing of other documents; the locations keep their order, and the
  mailconf document is the one behind the first usable record. It is stated from the
  documents and the records, not with the conversions;
- `ProviderOfBestMx`: the provider an email command answers by MX is that of the record
  that is best by preference and then by name, stated without the sort;
- `CommandTypeOK`, with the exchanges each mechanism has.

The worlds are all published, all but a provider, a document at the second mailconf URL
and a nameless server alone at the ISP, a PACC document for calendars alone, two providers
by MX, and nothing:
each mechanism is passed over, stopped at and filtered out in some command. A command
ends, so `discover_command` does not ask for a next step.

`path` of `RedirectWalk` is kept up to one URL more than the walk may ask for, so that a walk too long
would show.

In a compose, fairness is weak fairness of the whole next-state relation: some thread that can
go on does.  Every step makes progress, so no fairness between threads is needed.
It assumes that each mechanism, probe and fetch thread ends, that is, that every
peer answers, closes or fails: the code has no timeouts, and a peer that keeps a
connection open and silent blocks the call.  In an exchange it is weak fairness of
the resumes, the writes and the reads that have something to return, never of a
failure; in the client, of the driver's loop and of the resolver's answers; in a walk,
of its steps: an exchange ends with an answer or a failure, as `dns_exchange` shows of
DNS and the HTTP client is taken to do. `pacc` and `discover_command` assume no fairness and
claim no liveness: their exchanges end by the same argument, and a command has no loop.

## What is proved

TLAPS checks these for every value of the constants, under the assumptions the modules
name; TLC evaluates each of them in the runs. They say what the code guarantees of the
data:

- `EndpointAssumption`: equal normal forms have equal hosts; `AuthAssumption`: the password
  and the bearer method are no issuers; `BatchAssumption`: mechanisms report lists of
  configurations;
- `MechanismAssumption`, and `OfferedAssumption`: a mechanism finds the services the
  conversion at its end can name (`Offered`, read off `from_autoconfig`, `from_srv`,
  `from_dav`, `from_jmap`; the others may find any);
- `MethodsAssumption`: an answer advertises a list of schemes, and an issuer resolves to
  grants, never to an issuer again (`resolve_issuer` builds the two OAuth grants only);
- `RecordAssumption`: priority and weight of an SRV record are 16-bit numbers;
- `WorldAssumption`: what may be published is a document of its type. Its optional parts
  are sets of at most one value, and an OAuth2 block is not the password method.

`CollectorProofs`:

- `TypeCorrect`, by itself inductive;
- `NothingLost`: `Represented` is about the states between two iterations; the
  inductive invariant `Owed` says of every state that what is not yet among the
  entry's methods is among those the inner loop still has.  It rests on `Covers`
  being transitive, so that an entry that is rehosted covers all it covered;
- `ParentsComeFirst`: a pushed configuration merges with no entry; a rehosted entry
  is the first that merges, and what precedes it neither covers the new endpoint
  nor is covered;
- `PriorityRespected`: an entry that takes over a parent's endpoint takes it from
  the first configuration that reported it: an earlier report would have an entry
  already, on which the `find` would have stopped;
- `MethodsStayDistinct` and `EntriesAreStable`, step by step.

`ComposeProofs`: `ThreadsCorrect` is the control invariant.  `ComposeCollects`
shows that the steps of a compose are steps of its collector, so that
`ComposeLosesNothing` and `ComposeRespectsPriority` are the collector's theorems
carried over.  `ComposeIsSequential` is the refinement: its invariant adds to
`ThreadsOK` that the output of a mechanism is always one it may have
(`OutputsPossible`), which is what the abstract `RunNext` needs at the moment the
concrete one collects.

The other theorems of `ComposeProofs` are about the report, end to end:

- `Staged` says what the report is in each phase: while issuers are resolved it is, entry by
  entry, the list collected refined by the answer of the probe of the same place. From it
  follow `ComposeTypeCorrect` and `ProbesAreOwn`;
- `IssuersAreSettled`: the fetches are exactly the issuers of the report, an issuer that
  resolved is replaced wherever it is listed, and no grant is an issuer;
- `SkippedCouldNotHelp`: the threads started are those of the relevant mechanisms
  (`StartedRelevant`), and each gate lets pass every service its mechanism offers;
- `FindingsAreReported` composes them all. `Gathered` says that what was found up to the
  current turn is represented in the collector, or listed in a raw report; `Reported` carries
  it through the passes, in which a probe may cost an entry password and bearer only and
  an issuer goes for its grants only.

They rest on what the two passes do to the methods of an entry (`RefineAuthRange`,
`ReplaceIssuersRange`), those on what a filter leaves (`Ranks`, `KeptItems`: the places kept
are numbered one to one from 1 on, in their order, by a bijection of finite sets of one
size) and what a flattened list holds (`FlattenRange`). `FlattenSeq` is a recursive function
of the community modules; that it is defined, and what it is, goes by `Induction`, an
induction over a set of numbers that the least element of its complement refutes.

`DnsExchangeProofs`: the inductive invariant says that what state `TcpRead` holds
and what it is about to get are together the bytes read so far, that what it holds
contains no whole message, and that an empty read comes at the end of the stream or
from a failure.  It rests on arithmetic about the two length bytes (`Digits`,
`LengthBytesBound`) and on lemmas that relate the receiver's test with the sender's
framing (`FrameStarts`, `StartsHasFrame`, `FramedWhole`), for bytes of any number of
values.  `QueryIsWhole` uses `QueryAssumption`: no query is longer than two bytes can
tell, which the 4 KiB query buffer guarantees.

`SrvClientProofs`: `InStep`, with the slots of the lookups done, is inductive.  The
bound on the calls is no assumption: the theorems hold for every `MaxCalls`.
`ReportedRecordsAreBest` adds that `Best` is the record a stable sort puts first: the set of
usable places has a least priority, among those a greatest weight, among those a first place
(`FirstExists`, three times the least element of a set of numbers). `SrvTypeCorrect` needs
the invariant, not the types alone: what a read takes from the stream is an answer to some
query that was asked for a domain.

`DavResolveProofs`: the inductive invariant `DavInv` says what the coroutine has learnt
in each state, unless the call is `late`: in `Srv`, that the report agrees with the zone on
the lookups done; later, that the origin is the one the whole report gives, or the domain's
if the lookups failed, and in `Txt` that the chosen name has a record. `AnswerTaken` says
that an exchange on a stream that owed nothing takes the answer to its own question. The
compose starts with a new pool, and an exchange of its that leaves an answer behind ends
the call or moves it to another stream (`Fresh`): its calls are never late. A stream closed
at the start of a call stays closed, so that the first lookup fails.
It rests on `WorldsAssumption` (a zone has at most one best record per name, whose
choice is in `SrvClient`) and on `UrlsAssumption` (443 and "/" are a port and a path).
The first usable TXT value exists by `LeastNumber`, a lemma on well-founded `<`.
`NeedlessIsNotAsked` is about the history of a call. `Journey` says of a running call which
exchanges may lie behind it: no probe, before state `WellKnown` no TXT query, and in that
state one of the chosen name at most, and only if it gave no path.

`RedirectWalkProofs`: `WalkInv` adds to the properties that between two exchanges as
many URLs were asked as redirects followed (`Progress`), from which the bound on the
walk follows. `Exchange` is what any exchange adds to the path; the steps of the walk
are read off it. No bound on the redirect graph is assumed, and `MAX_HOPS` is any
natural number.

`DnsExchangeProofs` also has `QueryIsWhole`, about `QueryArrivesWhole`: what is written is
the query, framed once. No run checks it; `LengthBytes` is read from the code and the rest
is arithmetic, of which the two-valued bytes of the run show only a corner.

`PaccProofs`: the inductive invariant `PaccInv` adds to the properties that a web host is
only asked for its own document (`OwnHost`), that the resolver owes at most the answer the
running call waits for while no read failed (`ResolverInStep`), that the body to verify was
served by the host of the call (`Served`), and that without trouble no stream is closed
(`Untroubled`), so that a call cannot fail on one. `Failed` is one lemma for all the calls
that end without a document. The bound on the calls, the sites and the zones are arbitrary.

`DiscoverCommandProofs`: `CommandInv` says of each exchange what has been found up to it: a
concatenation of one possible list per location passed. For `CommandIsFirstHit` each
conversion stays an opaque list of lists. `StepsKeepPromise` maps `EndMechanism` to the
abstract step, `Output` to the return, all else to a stutter.

`DocumentsStayWhole` looks into the lists. `AnswerInv` says that an answer is what a mechanism
yields, reduced to what is asked for; the rest is about such a list, whatever it is:

- `MethodsOfServer`: the places `NewTypes` keeps bring every method a type of the server stands
  for (the first place that stands for it is kept), and none twice;
- `FlattenedDocument`: `FromAutoconfig` matches the document, server by server: the rank of a
  named server among the named ones is its place in the list;
- `FirstRecord`: the mailconf record followed is the first that has a URL;
- `FourParts`: of the lists of four locations put one after the other, the filter by source
  finds each whole (`Block`), and `only` leaves all of them, for each is mail;
- `ForeignYields`: nothing another mechanism yields has an autoconfig location as its source.

Only model-checked: `Termination` of `compose`, `dns_exchange`, `srv_client` and
`redirect_walk`, since liveness under fairness is out of the prover's reach;
`ProviderOfBestMx`, which rests on what sorting returns (`SortSeq` picks a permutation, and
that a sorted one exists goes by an induction over the list); and the four runs whose
property the code violates. Every other safety property of a passing run is a theorem.

## What the runs found

- `collect.rs:15` promises one deduplicated list.  Two sibling shards collected
  before their parent stay two entries: the parent takes over the first, and the
  second is one the collector would have merged with it (`collector_dedup`).
- `client.rs:13` says that mechanisms irrelevant to the request are never started.
  The MX lookup is, for JMAP, WebDAV and ManageSieve requests
  (`compose_irrelevant`).
- `rfc6186/client.rs:79` says that `discover` runs the lookups on `domain`.  After a
  read that failed, the next call on the same client reports what the resolver
  answered to the earlier call (`srv_client_late`).  The compose has a pool per
  mechanism and is not concerned.
- `rfc6764/resolve.rs:151` says that an unreachable resolver must not kill the
  resolve. The std client returns the I/O error before the coroutine hears of it
  (`dav_unreachable`); the compose, and so the command line, keeps the promise.

What the modelling found besides, and no run checks:

- `rfc6764/client.rs:141` says of a DAV `resolve` too that it resolves `domain`. Its client
  keeps the pool in the same way: after a failed read (`client.rs:193`) the next resolve
  reads every answer one query behind, and may return a root that is not the one published.
  `RootIsOfItsService` says what is lost; TLC finds it violated for the std client.
- `rfc8620/well_known.rs:45` and `:52` say that a session found behind a 2xx has no
  authentication schemes. The code gives it those the 2xx advertises (lines 117-126).
- `rfc8620/well_known.rs:3` says that a walk follows any redirect chain. One that comes to
  an origin whose server closed its stream after an earlier answer ends with an error, for
  the pool opens no second one (`pool.rs:163`).

## Plan

Done, the most important behaviour first:

1. `ServiceConfig`, `Collector`, their proofs.
2. `Mechanisms`, `SequentialCompose`, `Compose`, `ComposeProofs`: the refinement.
3. `DnsExchange` and its proofs.
4. `SrvClient` and its proofs.
5. `DavResolve` and its proofs: SRV, TXT and well-known steps with each one failing.
6. `RedirectWalk` and its proofs: the JMAP resolve and the authentication probe.
7. `Pacc`, with the document fetch, and its proofs.
8. `Conversions`, `FirstHit`, `DiscoverCommand` and its proofs: the entry points of the
   compose for one mechanism, autoconfig, the commands.
9. Every safety property of the runs as a theorem, `ProviderOfBestMx` aside.

Left, in this order:

10. More of the composition: that the bytes `DnsExchange` returns are the answers `SrvClient`
   and `Pacc` read, and that the lists of `DiscoverCommand` are the `Finds` of `Compose`.
11. Deeper facts about what is there: what `OneDeduplicatedList` would need, and that a
    collected list does not depend on how the outputs are grouped into batches.
12. The std client of autoconfig (`autoconfig/client.rs`), with its pool.

## Not modelled

- Parsing and printing: XML and JSON documents with their aliases and defaults
  (`autoconfig/config.rs`, `pacc/config.rs`, the metadata structs), DNS messages, URLs, the
  tables of the command line (`AllOutput` groups a list it is given) and its arguments. A
  resolver URL that does not parse ends a command before it starts.
- `autoconfig/client.rs`: five methods that each run one coroutine of the model on a pool
  that is kept, as `SrvClient` and `Pacc` do; `all_urls` and `mx_parent_domain`, which
  nothing in the crate calls.
- `dns.rs`, `system_resolver`: reads a file, or asks the system.
- The factories of the pool and `insert`: opening a stream succeeds or fails; TLS.
- The parts of the DAV std client that run one coroutine of `resolve` alone.
- `challenge_resource_metadata`, a parser of one header that nothing in the crate calls.
