---------------------------- MODULE RedirectWalk ----------------------------
(***************************************************************************)
(* The two coroutines that walk a chain of HTTP redirects on one pool:     *)
(* DiscoveryJmapWellKnown (rfc8620/well_known.rs), started by              *)
(* DiscoveryJmapResolve (rfc8620/resolve.rs) after its SRV lookup, and     *)
(* DiscoveryProbeAuth (rfc9110.rs).  Both are driven by `run` of           *)
(* compose/client.rs with a new pool, so that each I/O error reaches them  *)
(* as the end of the stream.  A step is one exchange.                      *)
(***************************************************************************)
EXTENDS Integers, Sequences

CONSTANTS
  MaxHops,     \* MAX_HOPS
  Url,         \* the URLs of the servers
  Origin,      \* the schemes, hosts and ports of the URLs
  OriginOf,    \* [Url -> Origin]
  WellKnown,   \* [Origin -> Url], where /.well-known/jmap is
  Unparsable,  \* the origins of SRV records that make no URL
  Domain,      \* the origin https://<domain>:443/
  Schemes,     \* what a WWW-Authenticate may advertise, "none" included
  Worlds       \* a sequence of what the zone and the servers may answer

(* An answer redirects, or is terminal, a 3xx without a location included. *)
Response == [next : Url \cup {"none"}, status : {"3xx", "2xx", "401", "other"}, schemes : Schemes]

World == [srv : Origin \cup {"none"}, answer : [Url -> Response]]

ASSUME HopsAssumption == MaxHops \in Nat
ASSUME UrlAssumption ==
  /\ "none" \notin Url /\ "none" \notin Origin /\ "none" \in Schemes
  /\ OriginOf \in [Url -> Origin]
  /\ WellKnown \in [Origin -> Url]
  /\ Domain \in Origin \ Unparsable
ASSUME WorldsAssumption == Worlds \in Seq(World)

VARIABLES
  world,    \* which of the worlds; it does not change
  coroutine,\* "jmap" or "auth"; it does not change
  state,    \* "Srv", "Walk" or "Done"
  target,   \* the URL to get
  hops,     \* the redirects followed
  pool,     \* the streams of the origins
  outcome,  \* what the coroutine returns
  start,    \* history: the first target
  noSrv,    \* history: the SRV lookup failed
  path      \* history: the URLs asked for, in order

inputs == <<world, coroutine>>
vars == <<inputs, state, target, hops, pool, outcome, start, noSrv, path>>

Site == Worlds[world]

Outcome(kind, url, schemes) == [kind |-> kind, url |-> url, schemes |-> schemes]

(* The types of the variables.                                             *)
WalkTypeOK ==
  /\ world \in DOMAIN Worlds /\ coroutine \in {"jmap", "auth"}
  /\ state \in {"Srv", "Walk", "Done"}
  /\ target \in Url /\ start \in Url
  /\ hops \in 0 .. MaxHops
  /\ pool \in [Origin -> {"absent", "open", "closed"}]
  /\ outcome \in [kind : {"none", "session", "schemes", "notFound", "url", "http"},
                  url : Url \cup {"none"}, schemes : Schemes]
  /\ noSrv \in BOOLEAN
  /\ path \in Seq(Url)

(* ProbeAuth starts on any URL; the start of the other is not known yet.   *)
Init ==
  /\ world \in DOMAIN Worlds /\ coroutine \in {"jmap", "auth"}
  /\ state = IF coroutine = "jmap" THEN "Srv" ELSE "Walk"
  /\ target \in IF coroutine = "jmap" THEN {WellKnown[Domain]} ELSE Url
  /\ start = target
  /\ hops = 0 /\ path = <<>> /\ noSrv = FALSE
  /\ pool = [o \in Origin |-> "absent"]
  /\ outcome = Outcome("none", "none", "none")

-----------------------------------------------------------------------------
End(result) == outcome' = result /\ state' = "Done"

(* probe(srv): the walk starts on the record's origin or the domain's.     *)
Probe(o) ==
  \/ /\ o \in Unparsable
     /\ End(Outcome("url", "none", "none"))
     /\ UNCHANGED <<target, start>>
  \/ /\ o \notin Unparsable
     /\ state' = "Walk" /\ target' = WellKnown[o] /\ start' = target'
     /\ UNCHANGED outcome

RecordOrDomain(srv) == IF srv = "none" THEN Domain ELSE srv

SrvAnswer ==
  /\ state = "Srv"
  /\ Probe(RecordOrDomain(Site.srv))
  /\ UNCHANGED <<inputs, hops, pool, noSrv, path>>

SrvFails ==
  /\ state = "Srv"
  /\ Probe(RecordOrDomain("none"))
  /\ noSrv' = TRUE
  /\ UNCHANGED <<inputs, hops, pool, path>>

-----------------------------------------------------------------------------
Key == OriginOf[target]

(* Bound: one URL more than the walk may ask for.                          *)
Asked == IF Len(path) <= MaxHops + 1 THEN Append(path, target) ELSE path

(* pool.get: a stream is never replaced.                                   *)
Usable(status) == status # "closed"

(* The get of the target is answered, on a stream that is open by then.    *)
Answered ==
  /\ state = "Walk" /\ Usable(pool[Key])
  /\ pool' = [pool EXCEPT ![Key] = "open"]
  /\ path' = Asked
  /\ UNCHANGED <<inputs, start, noSrv>>

Answer == Site.answer[target]

(* Mutants: one hop too many, hops not counted, and the start's location   *)
(* for every answer's.                                                     *)
MayFollowOneMore(n) == n <= MaxHops
MayFollow(n) == n < MaxHops

SameHop(n) == n
NextHop(n) == n + 1

FromStart(answer) == Site.answer[start].next
Location(answer) == answer.next

Redirected ==
  /\ Answered /\ Answer.next # "none" /\ MayFollow(hops)
  /\ target' = Location(Answer) /\ hops' = NextHop(hops)
  /\ UNCHANGED <<state, outcome>>

NothingFound ==
  IF coroutine = "jmap" THEN Outcome("notFound", "none", "none") ELSE Outcome("schemes", "none", "none")

GivenUp ==
  /\ Answered /\ Answer.next # "none" /\ ~MayFollow(hops)
  /\ End(NothingFound)
  /\ UNCHANGED <<target, hops>>

AtTarget == Outcome("session", target, Answer.schemes)

(* Mutant: a 401 is no session.                                            *)
Only2xx(answer) == answer.status = "2xx"
IsSession(answer) == answer.status \in {"2xx", "401"}

Ended ==
  /\ Answered /\ Answer.next = "none"
  /\ \/ coroutine = "jmap" /\ IsSession(Answer) /\ End(AtTarget)
     \/ coroutine = "jmap" /\ ~IsSession(Answer) /\ End(NothingFound)
     \/ coroutine = "auth" /\ End(Outcome("schemes", "none", Answer.schemes))
  /\ UNCHANGED <<target, hops>>

(* No answer, or one that cannot be parsed, or no stream: the send fails.  *)
Fails ==
  /\ state = "Walk"
  /\ \E status \in {pool[Key], "open", "closed"} :
       /\ pool[Key] = "closed" => status = "closed"
       /\ pool' = [pool EXCEPT ![Key] = status]
  /\ path' = Asked
  /\ End(Outcome("http", "none", "none"))
  /\ UNCHANGED <<inputs, target, hops, start, noSrv>>

(* A server closes when it likes, after an answer for instance.            *)
Close(o) ==
  /\ pool[o] = "open"
  /\ pool' = [pool EXCEPT ![o] = "closed"]
  /\ UNCHANGED <<inputs, state, target, hops, outcome, start, noSrv, path>>

Step == SrvAnswer \/ SrvFails \/ Redirected \/ GivenUp \/ Ended \/ Fails

Returned == state = "Done" /\ UNCHANGED vars

Next == Step \/ (\E o \in Origin : Close(o)) \/ Returned

Spec == Init /\ [][Next]_vars

(* An exchange ends, with an answer or with a failure (DnsExchange).       *)
FairSpec == Spec /\ WF_vars(Step)
-----------------------------------------------------------------------------
NextOf(url) == Site.answer[url].next

(* The origin of the record, or of the domain when there is none or the    *)
(* lookup failed.                                                          *)
Due == IF noSrv \/ Site.srv = "none" THEN Domain ELSE Site.srv

(* "following any redirect chain" (well_known.rs:3), from the right origin *)
(* (the note at rfc8620/resolve.rs:127): each URL asked for is where the   *)
(* one before it redirects to, the next is asked on the way, and a server  *)
(* that redirects forever is asked MAX_HOPS + 1 times.                     *)
FollowsRedirects ==
  /\ path # <<>> => path[1] = start /\ (coroutine = "jmap" => start = WellKnown[Due])
  /\ \A i \in 1 .. Len(path) - 1 : path[i + 1] = NextOf(path[i])
  /\ (state = "Walk" /\ path # <<>>) => target = NextOf(path[Len(path)])
  /\ Len(path) <= MaxHops + 1

Last == path[Len(path)]

Ends == NextOf(Last) = "none"
TooLong == NextOf(Last) # "none" /\ Len(path) = MaxHops + 1

(* "reports the JMAP Session resource from the terminal response"          *)
(* (well_known.rs:6): url and schemes are of one answer, the last one.     *)
(* The schemes are those of a 401; of a 2xx they are its own, as the code  *)
(* has it, or none, as the docs say (well_known.rs:45, well_known.rs:52).  *)
(* There is no JMAP only if the chain ends on another status or is too     *)
(* long: a hop that failed is told apart.  ProbeAuth returns the schemes   *)
(* of the terminal response, whatever its status (rfc9110.rs:41).          *)
OutcomeIsTerminal ==
  /\ outcome.kind \in {"session", "notFound", "schemes"} => path # <<>>
  /\ outcome.kind = "session" =>
       /\ Ends /\ Site.answer[Last].status \in {"2xx", "401"}
       /\ outcome.url = Last /\ outcome.schemes \in {"none", Site.answer[Last].schemes}
       /\ Site.answer[Last].status = "401" => outcome.schemes = Site.answer[Last].schemes
  /\ outcome.kind = "notFound" =>
       TooLong \/ (Ends /\ Site.answer[Last].status \notin {"2xx", "401"})
  /\ outcome.kind = "schemes" =>
       \/ Ends /\ outcome.schemes = Site.answer[Last].schemes
       \/ TooLong /\ outcome.schemes = "none"

(* The coroutine returns, on a loop of redirects too.                      *)
Termination == <>(state = "Done")
=============================================================================
