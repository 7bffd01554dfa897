----------------------------- MODULE DavResolve -----------------------------
(***************************************************************************)
(* DiscoveryDavResolve (rfc6764/resolve.rs): four SRV lookups, one TXT     *)
(* lookup, one .well-known probe, each on the stream its driver has pooled *)
(* for the resolver or for the origin.  A std client (rfc6764/client.rs)   *)
(* keeps one pool over its calls and returns an I/O error; the compose     *)
(* (compose/client.rs) takes a new pool for each call and reports an I/O   *)
(* error to the coroutine as the end of the stream.  A step here is one    *)
(* exchange, from its first write to its last read (DnsExchange).  A read  *)
(* that fails leaves its answer on the stream, and the next exchange takes *)
(* the first answer it reads: no query is told from another (rfc6186       *)
(* srv.rs:127) and no answer is compared with its query.                   *)
(***************************************************************************)
EXTENDS Integers, Sequences

CONSTANTS
  Drivers,     \* subset of {"compose", "std"}
  Domain,      \* the domain to resolve
  Hosts,       \* the targets of SRV records
  Unparsable,  \* the hosts that make no URL
  Ports,       \* the ports of SRV records, and 443
  Paths,       \* the paths of TXT records and of redirects, and "/"
  Worlds,      \* a sequence of what the zone and the web servers may answer
  MaxCalls     \* bound: calls of resolve on one client

(* The services of discover.rs in the order they are looked up.            *)
Lookups == <<"caldav", "caldavs", "carddav", "carddavs">>
Names == {"caldav", "caldavs", "carddav", "carddavs"}
Services == {"Caldav", "Carddav"}

Option(S) == {<<>>} \cup {<<s>> : s \in S}

Srv == [host : Hosts, port : Ports]
Origins == [scheme : {"https", "http"}, host : Hosts \cup {Domain}, port : Ports]
Roots == [origin : Origins, path : Paths]

(* The keys of the pool.                                                   *)
Resolver == [scheme |-> "tcp", host |-> "resolver", port |-> 53]
Endpoints == {Resolver} \cup Origins

(* A TXT value: without a usable "path=", or with a path, with a whole     *)
(* URL, or with what no URL can be joined with.                            *)
Txt == [kind : {"none", "path", "url", "bad"}, root : Roots]

World == [srv : [Names -> Option(Srv)],
          txt : [Names -> Seq(Txt)],
          redirect : [Services -> [Origins -> Option(Roots)]]]

ASSUME DriversAssumption == Drivers \subseteq {"compose", "std"}
ASSUME UrlsAssumption == 443 \in Ports /\ "/" \in Paths
ASSUME WorldsAssumption == Worlds \in Seq(World)
ASSUME DavCallsAssumption == MaxCalls \in Nat

VARIABLES
  world,    \* which of the worlds; it does not change
  driver,
  service,  \* the argument of the running call, "none" between calls
  state,    \* the state of the coroutine
  lookup,   \* in state Srv: which lookup
  report,   \* the SRV report being assembled
  origin,   \* in the later states: their origin
  pool,     \* the streams
  pending,  \* what each stream's peer was asked and was not read of yet
  outcome,  \* what the last call returned
  noSrv,    \* history: the SRV lookups of the last call failed
  stale,    \* history: the last call began with a closed resolver stream
  late,     \* history: the last call used a stream that owed an answer
  trips,    \* history: what the exchanges of the last call asked
  calls     \* history: the calls so far

inputs == <<world, driver>>
coroutine == <<state, lookup, report, origin>>
streams == <<pool, pending>>
history == <<noSrv, stale, late, calls>>
vars == <<inputs, service, coroutine, streams, outcome, trips, history>>

Site == Worlds[world]

-----------------------------------------------------------------------------
EmptyReport == [n \in Names |-> <<>>]
NoPool == [e \in Endpoints |-> "absent"]
NothingPending == [e \in Endpoints |-> <<>>]

(* What the peer of a stream may be asked.                                 *)
Questions(e) ==
  IF e = Resolver THEN [step : {"Srv", "Txt"}, name : Names, at : {e}]
  ELSE [step : {"WellKnown"}, name : Services, at : {e}]

(* srv_qname.                                                              *)
Secure(s) == IF s = "Caldav" THEN "caldavs" ELSE "carddavs"
Plain(s) == IF s = "Caldav" THEN "caldav" ELSE "carddav"

DomainOrigin == [scheme |-> "https", host |-> Domain, port |-> 443]

At(scheme, srv) == [scheme |-> scheme, host |-> srv.host, port |-> srv.port]

(* DiscoveryDavResolve::origin.                                            *)
Origin(secure, plain) ==
  IF secure # <<>> THEN At("https", secure[1])
  ELSE IF plain # <<>> THEN At("http", plain[1])
  ELSE DomainOrigin

(* Mutant: the secure name whatever was published.                         *)
AlwaysSecure(s, found) == <<Secure(s)>>

(* txt_qname: the name the chosen record was published at.                 *)
TxtName(s, found) ==
  IF found[Secure(s)] # <<>> THEN <<Secure(s)>>
  ELSE IF found[Plain(s)] # <<>> THEN <<Plain(s)>>
  ELSE <<>>

(* DiscoveryWebdavTxt: the first value that holds a path.                  *)
FirstPath(values) ==
  LET held == {i \in DOMAIN values : values[i].kind # "none"}
      first == CHOOSE i \in held : \A j \in held : i <= j
  IN  IF held = {} THEN <<>> ELSE <<values[first]>>

(* Url::join, on an origin whose path is "/".                              *)
Join(o, value) == IF value.kind = "url" THEN value.root ELSE [origin |-> o, path |-> value.root.path]

Outcome(kind, s, at, root) == [kind |-> kind, service |-> s, at |-> at, root |-> root]

NoOutcome == Outcome("none", "none", Resolver, <<>>)

(* The types of the variables.                                             *)
DavTypeOK ==
  /\ world \in DOMAIN Worlds /\ driver \in Drivers
  /\ service \in Services \cup {"none"}
  /\ state \in {"Srv", "Txt", "WellKnown", "Done"}
  /\ lookup \in 1 .. 4
  /\ report \in [Names -> Option(Srv)]
  /\ origin \in Origins
  /\ pool \in [Endpoints -> {"absent", "open", "closed"}]
  /\ outcome \in [kind : {"none", "ok", "url", "txt", "http", "io"},
                  service : Services \cup {"none"}, at : Endpoints, root : Option(Roots)]
  /\ DOMAIN pending = Endpoints /\ \A e \in Endpoints : pending[e] \in Seq(Questions(e))
  /\ noSrv \in BOOLEAN /\ stale \in BOOLEAN /\ late \in BOOLEAN /\ calls \in 0 .. MaxCalls
  /\ \A t \in trips : t.at \in Endpoints /\ t \in Questions(t.at)

Init ==
  /\ world \in DOMAIN Worlds /\ driver \in Drivers
  /\ service = "none" /\ state = "Done" /\ lookup = 1
  /\ report = EmptyReport /\ origin = DomainOrigin
  /\ pool = NoPool /\ pending = NothingPending /\ outcome = NoOutcome /\ trips = {}
  /\ noSrv = FALSE /\ stale = FALSE /\ late = FALSE /\ calls = 0

-----------------------------------------------------------------------------
Idle == service = "none"

(* Mutant: one pool for all calls, whoever drives.                         *)
KeptPool == pool

(* compose/client.rs:717 takes a new pool, a std client its own.           *)
PoolOfCall == IF driver = "compose" THEN NoPool ELSE pool

Resolve(s) ==
  /\ Idle /\ calls < MaxCalls
  /\ service' = s /\ state' = "Srv" /\ lookup' = 1 /\ report' = EmptyReport
  /\ pool' = PoolOfCall
  /\ pending' = IF driver = "compose" THEN NothingPending ELSE pending
  /\ outcome' = NoOutcome
  /\ noSrv' = FALSE /\ late' = FALSE /\ stale' = (PoolOfCall[Resolver] = "closed")
  /\ trips' = {} /\ calls' = calls + 1
  /\ UNCHANGED <<inputs, origin>>

(* The stream the coroutine's yields name.                                 *)
Endpoint == IF state = "WellKnown" THEN origin ELSE Resolver

End(kind, root) ==
  /\ outcome' = Outcome(kind, service, Endpoint, root)
  /\ service' = "none" /\ state' = "Done" /\ UNCHANGED origin

(* The query or the request that the coroutine's state sends.              *)
Asked ==
  [step |-> state, at |-> Endpoint,
   name |-> CASE state = "Srv" -> Lookups[lookup]
              [] state = "Txt" -> TxtName(service, report)[1]
              [] OTHER -> service]

Trip ==
  /\ trips' = trips \cup {Asked} /\ late' = (late \/ pending[Endpoint] # <<>>)
  /\ UNCHANGED <<inputs, stale, calls>>

(* pool.get: a stream is opened once, and never replaced.                  *)
Pooled == [pool EXCEPT ![Endpoint] = IF @ = "absent" THEN "open" ELSE @]

(* The answers to come once the query is written: one that has closed its  *)
(* stream answers no more, but what it answered before can still be read.  *)
Queue ==
  IF pool[Endpoint] = "closed" THEN pending[Endpoint] ELSE Append(pending[Endpoint], Asked)

(* The exchange is over with the first answer; others that the same read   *)
(* returned are dropped with the coroutine's buffer (shared/dns.rs:177).   *)
Taken ==
  \E n \in 1 .. Len(Queue) :
    /\ pool' = Pooled
    /\ pending' = [pending EXCEPT ![Endpoint] = SubSeq(Queue, n + 1, Len(Queue))]

(* The stream is read to its end, without an answer.                       *)
Drained ==
  /\ pool' = [pool EXCEPT ![Endpoint] = "closed"]
  /\ pending' = [pending EXCEPT ![Endpoint] = <<>>]

(* What an I/O error leaves: nothing was sent, on a stream that cannot be  *)
(* opened or written; the stream is lost, with or without the answers that *)
(* had arrived; or the query was sent and its answer not read.  (A query   *)
(* half sent on a stream that survives is left out.)                       *)
Unsent == pool' \in {pool, Pooled} /\ UNCHANGED pending

Lost == Drained \/ (pool' = [pool EXCEPT ![Endpoint] = "closed"] /\ UNCHANGED pending)

NotRead == pool' = Pooled /\ pending' = [pending EXCEPT ![Endpoint] = Queue]

Answered == ~Idle /\ Taken /\ Trip

(* An exchange that fails in the coroutine: the query cannot be built, the *)
(* first answer cannot be parsed, or the stream ends, which the compose's  *)
(* driver also says of every I/O error.                                    *)
Unanswered ==
  /\ ~Idle
  /\ UNCHANGED streams \/ Taken \/ Drained \/ (driver = "compose" /\ (Unsent \/ Lost \/ NotRead))
  /\ Trip

(* What the first answer holds for the coroutine that reads it: records of *)
(* the type it wants, whatever name they are of.                           *)
SrvOf(question) == IF question.step = "Srv" THEN Site.srv[question.name] ELSE <<>>
TxtOf(question) == IF question.step = "Txt" THEN Site.txt[question.name] ELSE <<>>
RedirectOf(question) == Site.redirect[question.name][question.at]

-----------------------------------------------------------------------------
(* The next state of the coroutine, once the origin is known.              *)
Proceed(o, txt) ==
  \/ /\ o.host \in Unparsable
     /\ End("url", <<>>)
  \/ /\ o.host \notin Unparsable
     /\ origin' = o
     /\ state' = IF txt = <<>> THEN "WellKnown" ELSE "Txt"
     /\ UNCHANGED <<service, outcome>>

(* Mutant: a state that is passed over.                                    *)
NextButOne(l) == l + 2
NextLookup(l) == l + 1

Found == [report EXCEPT ![Lookups[lookup]] = SrvOf(Head(Queue))]

SrvAnswer ==
  /\ state = "Srv" /\ lookup < 4 /\ Answered
  /\ report' = Found /\ lookup' = NextLookup(lookup)
  /\ UNCHANGED <<service, state, origin, outcome, noSrv>>

LastSrvAnswer ==
  /\ state = "Srv" /\ lookup = 4 /\ Answered
  /\ report' = Found
  /\ Proceed(Origin(Found[Secure(service)], Found[Plain(service)]), TxtName(service, Found))
  /\ UNCHANGED <<lookup, noSrv>>

(* Mutants: the error is returned, as that of the TXT lookup is, and the   *)
(* records found before the error are used.                                *)
ReturnError == End("txt", <<>>)
UseFound == Proceed(Origin(report[Secure(service)], report[Plain(service)]), <<>>)

(* As if no record was published.                                          *)
SkipError == Proceed(DomainOrigin, <<>>)

SrvFails ==
  /\ state = "Srv" /\ Unanswered
  /\ SkipError
  /\ noSrv' = TRUE
  /\ UNCHANGED <<report, lookup>>

TxtAnswer ==
  /\ state = "Txt" /\ Answered
  /\ LET path == FirstPath(TxtOf(Head(Queue)))
     IN  \/ path = <<>> /\ Proceed(origin, <<>>)
         \/ /\ path # <<>>
            /\ IF path[1].kind = "bad" THEN End("url", <<>>) ELSE End("ok", <<Join(origin, path[1])>>)
  /\ UNCHANGED <<lookup, report, noSrv>>

TxtFails ==
  /\ state = "Txt" /\ Unanswered
  /\ End("txt", <<>>)
  /\ UNCHANGED <<lookup, report, noSrv>>

(* url.unwrap_or(origin).                                                  *)
RedirectOrOrigin(redirect) ==
  IF redirect # <<>> THEN redirect ELSE <<[origin |-> origin, path |-> "/"]>>

ProbeAnswer ==
  /\ state = "WellKnown" /\ Answered
  /\ End("ok", RedirectOrOrigin(RedirectOf(Head(Queue))))
  /\ UNCHANGED <<lookup, report, noSrv>>

ProbeFails ==
  /\ state = "WellKnown" /\ Unanswered
  /\ End("http", <<>>)
  /\ UNCHANGED <<lookup, report, noSrv>>

(* A std client returns the error and keeps its pool as the error left it. *)
IoFails ==
  /\ ~Idle /\ driver = "std"
  /\ Unsent \/ Lost \/ NotRead
  /\ Trip
  /\ End("io", <<>>)
  /\ UNCHANGED <<lookup, report, noSrv>>

(* The resolver and the web servers close when they like, and what they    *)
(* answered may be lost with the stream.                                   *)
Close(e) ==
  /\ pool[e] = "open"
  /\ pool' = [pool EXCEPT ![e] = "closed"]
  /\ pending' \in {pending, [pending EXCEPT ![e] = <<>>]}
  /\ UNCHANGED <<inputs, service, coroutine, outcome, trips, history>>

Step ==
  \/ SrvAnswer \/ LastSrvAnswer \/ SrvFails
  \/ TxtAnswer \/ TxtFails
  \/ ProbeAnswer \/ ProbeFails
  \/ IoFails

NoMoreCalls == Idle /\ calls = MaxCalls /\ UNCHANGED vars

Next ==
  \/ \E s \in Services : Resolve(s)
  \/ Step
  \/ \E e \in Endpoints : Close(e)
  \/ NoMoreCalls

Spec == Init /\ [][Next]_vars
-----------------------------------------------------------------------------
(* What the lookups told the call that returned.                           *)
Told == IF noSrv THEN EmptyReport ELSE Site.srv

(* The origin the published records give a service: the secure one's over  *)
(* https, else the plain one's over http, else the domain's.               *)
IsOriginOf(o, s, found) ==
  /\ \A r \in Srv :
       /\ found[Secure(s)] = <<r>> => o = At("https", r)
       /\ found[Secure(s)] = <<>> /\ found[Plain(s)] = <<r>> => o = At("http", r)
  /\ found[Secure(s)] = <<>> /\ found[Plain(s)] = <<>> => o = DomainOrigin

(* The first of the values that holds a path.                              *)
IsPathOf(value, values) ==
  \E i \in DOMAIN values :
    /\ value = values[i] /\ value.kind # "none"
    /\ \A j \in 1 .. i - 1 : values[j].kind = "none"

PathAt(name, root, o) ==
  \E i \in DOMAIN Site.txt[name] :
    /\ IsPathOf(Site.txt[name][i], Site.txt[name])
    /\ root = IF Site.txt[name][i].kind = "url" THEN Site.txt[name][i].root
              ELSE [origin |-> o, path |-> Site.txt[name][i].root.path]

HasNoPath(name) == \A i \in DOMAIN Site.txt[name] : Site.txt[name][i].kind = "none"

(* The name whose records gave the origin.                                 *)
NameOf(s, found) == IF found[Secure(s)] # <<>> THEN Secure(s) ELSE Plain(s)

IsRootOf(root, s, found) ==
  \E o \in Origins :
    /\ IsOriginOf(o, s, found)
    /\ LET name == NameOf(s, found)
           published == found[name] # <<>>
       IN  \/ published /\ PathAt(name, root, o)
           \/ /\ published => HasNoPath(name)
              /\ \/ Site.redirect[s][o] = <<root>>
                 \/ Site.redirect[s][o] = <<>> /\ root = [origin |-> o, path |-> "/"]

(* What a resolve returned is what the records, the TXT path and the       *)
(* redirect of its service give, of all four lookups or of none.           *)
RootIsOfItsService ==
  outcome.kind = "ok" => outcome.root # <<>> /\ IsRootOf(outcome.root[1], outcome.service, Told)

(* The module doc (resolve.rs:3), of a call that used no stream on which   *)
(* an earlier call left an answer: whatever fails on the way, a resolve    *)
(* that succeeds returns what is published for its service.                *)
RootIsPublished == ~late => RootIsOfItsService

(* "skipping the .well-known round-trip" (resolve.rs:11): such a call asks *)
(* for a path only of the name whose records gave the origin (RFC 6764     *)
(* section 6), never of one without records, and probes only that origin,  *)
(* and only when no path was published.                                    *)
Steps(step) == {t \in trips : t.step = step}

AsksWhatItNeeds ==
  (outcome.kind = "ok" /\ ~late) =>
    /\ \A t \in Steps("Txt") :
         /\ t.name = NameOf(outcome.service, Told) /\ Told[t.name] # <<>>
         /\ Steps("WellKnown") # {} => HasNoPath(t.name)
    /\ \A t \in Steps("WellKnown") : IsOriginOf(t.at, outcome.service, Told)

(* The note at resolve.rs:151: lookups that fail do not end the call, the  *)
(* domain itself is probed.                                                *)
FailedSrvIsSurvived ==
  (noSrv /\ Idle) =>
    \/ \E t \in Steps("WellKnown") : t.at = DomainOrigin
    \/ Domain \in Unparsable

(* The note, of every failure of the resolver's stream.                    *)
ResolverFailureIsNotFatal == outcome.kind = "io" => outcome.at # Resolver

(* The pool never opens a stream anew (pool.rs:163): once the resolver has *)
(* closed it and what it answered is read, a later call of a std client    *)
(* that returns a root returns the domain's own, whatever is published;    *)
(* the compose's calls meet neither closed streams at their start nor      *)
(* answers to earlier queries.                                             *)
StaleMeansDomain ==
  /\ driver = "compose" => ~stale /\ ~late
  /\ (stale /\ ~late /\ outcome.kind = "ok") =>
       IsRootOf(outcome.root[1], outcome.service, EmptyReport)
=============================================================================
