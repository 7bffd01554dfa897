------------------------------ MODULE Compose ------------------------------
(***************************************************************************)
(* DiscoveryComposeClientStd (src/compose/client.rs): one OS thread per    *)
(* mechanism, their outputs joined in priority order and fed to the        *)
(* collector, one probe thread per collected configuration, one thread per *)
(* distinct OAuth issuer.  The threads share nothing: each has a stream    *)
(* pool of its own and hands over its result when it is joined.            *)
(***************************************************************************)
EXTENDS Collector, Mechanisms

VARIABLES
  email,      \* the argument: "address", or "malformed" (no @)
  mode,       \* the entry point: compose_all, compose_first, compose_raw
  provider,   \* the provider the domain rule matches
  phase,      \* where the calling thread is
  started,    \* history: the mechanisms a thread was started for
  running,    \* the mechanism threads that have not ended
  output,     \* [Mechanism -> Batch]: what each contributes, <<>> at first
  turn,       \* how many mechanisms of Priority are done with
  report,     \* the configurations to return
  probes,     \* probe threads by index in report: URLs left, schemes learned
  fetches     \* issuer threads by issuer: metadata URL next, grants

ownVars == <<email, mode, provider, phase, started, running, output, turn,
             report, probes, fetches>>
vars == <<collectorVars, ownVars>>

Phase == {"start", "join", "collect", "probe", "issuers", "done", "failed"}

Probes == [left : 0 .. 2, schemes : SchemeLists \cup {<<>>}]

GrantsOf(i) == GrantLists \cup {<<i>>}

Fetches(i) == [next : {"oauth", "openid", "none"}, grants : GrantsOf(i)]

(* The control state: what the calling thread and the others rely on.      *)
ThreadsOK ==
  /\ email \in {"address", "malformed"}
  /\ mode \in {"all", "first", "raw"}
  /\ provider \in Provider \cup {NoProvider}
  /\ phase \in Phase
  /\ running \subseteq started /\ started \subseteq Mechanism
  /\ output \in [Mechanism -> Batch]
  /\ turn \in 0 .. Len(Priority)
  /\ phase # "join" => running = {}
  /\ phase = "probe" =>
       DOMAIN probes = DOMAIN report /\ \A i \in DOMAIN probes : probes[i] \in Probes
  /\ phase = "issuers" =>
       /\ DOMAIN fetches = IssuersOf(report)
       /\ \A i \in DOMAIN fetches : fetches[i] \in Fetches(i)

(* The types of the variables, and when the per-phase ones are meaningful. *)
TypeOK == CollectorTypeOK /\ ThreadsOK /\ report \in Seq(Config)

Init ==
  /\ CollectorInit
  /\ email \in {"address", "malformed"}
  /\ mode \in {"all", "first", "raw"}
  /\ provider = NoProvider
  /\ phase = "start"
  /\ started = {} /\ running = {}
  /\ output = [m \in Mechanism |-> <<>>]
  /\ turn = 0
  /\ report = <<>>
  /\ probes = <<>>
  /\ fetches = <<>>

-----------------------------------------------------------------------------
(* parallel_outputs                                                        *)
Reject ==
  /\ phase = "start" /\ email = "malformed"
  /\ phase' = "failed"
  /\ UNCHANGED <<collectorVars, email, mode, provider, started, running, output,
                 turn, report, probes, fetches>>

(* The domain rule is pure and outputs first, then the threads start.      *)
Spawn ==
  /\ phase = "start" /\ email = "address"
  /\ provider' \in Provider \cup {NoProvider}
  /\ output' = [output EXCEPT !["provider"] =
                  IF provider' = NoProvider THEN <<>> ELSE ProviderConfigs[provider']]
  /\ started' = {m \in Mechanism \ {"provider"} : Relevant(m, services, provider')}
  /\ running' = started'
  /\ phase' = "join"
  /\ UNCHANGED <<collectorVars, email, mode, turn, report, probes, fetches>>

(* A mechanism thread ends: it found something, or it failed or panicked.  *)
EndThread(m) ==
  /\ m \in running
  /\ running' = running \ {m}
  /\ \E found \in Finds[m] \cup {<<>>} : output' = [output EXCEPT ![m] = found]
  /\ UNCHANGED <<collectorVars, email, mode, provider, phase, started, turn, report,
                 probes, fetches>>

AllEnded == running = {}

(* The scope ends when every thread has been joined.                       *)
Join ==
  /\ phase = "join" /\ AllEnded
  /\ phase' = "collect"
  /\ UNCHANGED <<collectorVars, email, mode, provider, started, running, output,
                 turn, report, probes, fetches>>

-----------------------------------------------------------------------------
(* compose: the outputs in priority order, up to the first that yields     *)
(* something in compose_first.  A mechanism that was not started has no    *)
(* output in the code and an empty one here: collecting it changes nothing.*)
(* Mutant: the first output ends compose_first, even when it is empty.     *)
StoppedByEmpty == turn = Len(Priority) \/ (mode = "first" /\ turn > 0)

Stopped == turn = Len(Priority) \/ (mode = "first" /\ configs # <<>>)

CollectNext ==
  /\ phase = "collect" /\ mode # "raw" /\ Idle /\ ~Stopped
  /\ Collect(output[Priority[turn + 1]])
  /\ turn' = turn + 1
  /\ UNCHANGED <<email, mode, provider, phase, started, running, output, report,
                 probes, fetches>>

Absorb == phase = "collect" /\ Loop /\ UNCHANGED ownVars

FinishCollect ==
  /\ phase = "collect" /\ mode # "raw" /\ Idle /\ Stopped
  /\ report' = configs
  /\ probes' = [i \in DOMAIN configs |-> [left |-> ProbeUrls(configs[i]), schemes |-> <<>>]]
  /\ phase' = "probe"
  /\ UNCHANGED <<collectorVars, email, mode, provider, started, running, output,
                 turn, fetches>>

-----------------------------------------------------------------------------
(* compose_raw: every output, filtered and not reduced.                    *)
FlattenNext ==
  /\ phase = "collect" /\ mode = "raw" /\ turn < Len(Priority)
  /\ report' = report \o OnlyAsked(output[Priority[turn + 1]], services)
  /\ turn' = turn + 1
  /\ UNCHANGED <<collectorVars, email, mode, provider, phase, started, running,
                 output, probes, fetches>>

(* One thread per distinct issuer, which tries two metadata URLs.          *)
StartFetches(list) ==
  fetches' = [i \in IssuersOf(list) |-> [next |-> "oauth", grants |-> <<i>>]]

FinishRaw ==
  /\ phase = "collect" /\ mode = "raw" /\ turn = Len(Priority)
  /\ StartFetches(report)
  /\ phase' = "issuers"
  /\ UNCHANGED <<collectorVars, email, mode, provider, started, running, output,
                 turn, report, probes>>

-----------------------------------------------------------------------------
(* Mutants: a step past the last URL, and the first URL after the last.    *)
HasUrlOrNone(p) == p.left >= 0
NextUrlCyclic(p) == [p EXCEPT !.left = IF @ = 1 THEN 2 ELSE @ - 1]

HasUrl(p) == p.left > 0
NextUrl(p) == [p EXCEPT !.left = @ - 1]

(* probe: thread i tries the URLs of configuration i until one advertises  *)
(* schemes; a failure or an empty answer passes to the next, a panic ends  *)
(* the thread with nothing.                                                *)
ProbeUrl(i) ==
  /\ phase = "probe" /\ HasUrl(probes[i])
  /\ \/ probes' = [probes EXCEPT ![i] = NextUrl(@)]
     \/ \E schemes \in SchemeLists \cup {<<>>} :
          probes' = [probes EXCEPT ![i] = [left |-> 0, schemes |-> schemes]]
  /\ UNCHANGED <<collectorVars, email, mode, provider, phase, started, running,
                 output, turn, report, fetches>>

(* Mutant: the learned schemes packed, so that a configuration that learned*)
(* nothing takes those of the next.                                        *)
RefinedPacked ==
  LET learned == SelectSeq([i \in DOMAIN report |-> probes[i].schemes],
                           LAMBDA s : s # <<>>)
  IN  [i \in DOMAIN report |->
         IF i \in DOMAIN learned THEN RefineAuth(report[i], learned[i]) ELSE report[i]]

Refined == [i \in DOMAIN report |-> RefineAuth(report[i], probes[i].schemes)]

Refine ==
  /\ phase = "probe" /\ ~\E i \in DOMAIN probes : HasUrl(probes[i])
  /\ report' = Refined
  /\ StartFetches(Refined)
  /\ phase' = "issuers"
  /\ UNCHANGED <<collectorVars, email, mode, provider, started, running, output,
                 turn, probes>>

-----------------------------------------------------------------------------
(* resolve_issuers: the OAuth metadata URL, then the OpenID one.  Metadata *)
(* without usable endpoints, like a panic, leaves the bare issuer.         *)
FetchOauth(i) ==
  /\ phase = "issuers" /\ fetches[i].next = "oauth"
  /\ \/ fetches' = [fetches EXCEPT ![i].next = "openid"]
     \/ \E g \in GrantsOf(i) : fetches' = [fetches EXCEPT ![i] = [next |-> "none", grants |-> g]]
  /\ UNCHANGED <<collectorVars, email, mode, provider, phase, started, running,
                 output, turn, report, probes>>

FetchOpenid(i) ==
  /\ phase = "issuers" /\ fetches[i].next = "openid"
  /\ \E g \in GrantsOf(i) : fetches' = [fetches EXCEPT ![i] = [next |-> "none", grants |-> g]]
  /\ UNCHANGED <<collectorVars, email, mode, provider, phase, started, running,
                 output, turn, report, probes>>

Replace ==
  /\ phase = "issuers" /\ \A i \in DOMAIN fetches : fetches[i].next = "none"
  /\ report' = Resolved(report, [i \in DOMAIN fetches |-> fetches[i].grants])
  /\ phase' = "done"
  /\ UNCHANGED <<collectorVars, email, mode, provider, started, running, output,
                 turn, probes, fetches>>

-----------------------------------------------------------------------------
(* The call has returned.                                                  *)
Returned == phase \in {"done", "failed"} /\ UNCHANGED vars

Next ==
  \/ Reject \/ Spawn
  \/ \E m \in Mechanism : EndThread(m)
  \/ Join
  \/ CollectNext \/ Absorb \/ FinishCollect
  \/ FlattenNext \/ FinishRaw
  \/ \E i \in DOMAIN probes : ProbeUrl(i)
  \/ Refine
  \/ \E i \in DOMAIN fetches : FetchOauth(i) \/ FetchOpenid(i)
  \/ Replace
  \/ Returned

Spec == Init /\ [][Next]_vars

(* The calling thread and every started thread run until they end: this    *)
(* assumes that each stream read by a mechanism eventually answers, ends   *)
(* or fails, since the code itself has no timeout.                         *)
Fairness == WF_vars(Next)
-----------------------------------------------------------------------------
(* The concurrent compose does what the sequential one does: the order in  *)
(* which the threads end, and the panics, show in nothing it returns.  The *)
(* threads all run before the first output is collected; seen from the     *)
(* promise, each mechanism runs when its output is collected.              *)
Sequential ==
  INSTANCE SequentialCompose WITH
    Turns <- Len(Priority),
    phase <- IF phase \in {"join", "collect"} THEN "run" ELSE phase

ImplementsSequential == Sequential!Spec

Wanted(m) == {c \in Range(output[m]) : Asked(services, c.service)}

(* compose_all and compose_raw: every wanted finding of every mechanism    *)
(* survives the reduction and the two passes that rewrite methods.  Only a *)
(* password or bearer method may be gone, by the endpoint's own word, and  *)
(* a bare issuer, for the grants it resolved to.                           *)
KeptIn(method, c) ==
  \/ method \in Range(c.auth)
  \/ IsProbed(method) /\ mode # "raw"
  \/ method \in Issuer /\ Range(fetches[method].grants) \subseteq Range(c.auth)

EveryFindingReported ==
  (mode # "first" /\ phase = "done") =>
    \A m \in Mechanism : \A c \in Wanted(m) :
      \E i \in DOMAIN report :
        /\ SameLogin(report[i], c)
        /\ Covers(report[i].endpoint, c.endpoint)
        /\ \A method \in Range(c.auth) : KeptIn(method, report[i])

(* A probe refines the configuration it was started for, and no other: the *)
(* password and bearer methods of an entry are those its own endpoint      *)
(* advertises, and those collected when it advertises no known scheme.     *)
ProbesRefineOwnConfig ==
  (phase = "issuers" /\ mode # "raw") =>
    /\ Len(report) = Len(configs)
    /\ \A i \in DOMAIN report :
         LET advertised == Range(AdvertisedMethods(probes[i].schemes))
             probed(c) == {m \in Range(c.auth) : IsProbed(m)}
         IN  probed(report[i]) =
               IF advertised = {} THEN probed(configs[i]) ELSE advertised

(* A bare issuer is returned only when its own resolution failed: one that *)
(* resolved is left in no entry, wherever the entry lists it.              *)
IssuersSettled ==
  phase = "done" =>
    \A i \in DOMAIN report : \A issuer \in Range(report[i].auth) \cap Issuer :
      issuer \in DOMAIN fetches /\ fetches[issuer].grants = <<issuer>>

(* A mechanism that is not started could not have found anything wanted,   *)
(* the MX detection aside, which a provider found by domain replaces.      *)
SkippedAreIrrelevant ==
  phase \notin {"start", "failed"} =>
    \A m \in Mechanism \ (started \cup {"provider"}) :
      \/ m = "mx" /\ provider # NoProvider
      \/ \A found \in Finds[m] : \A c \in Range(found) : ~Asked(services, c.service)

(* Every call returns: the threads end, every probe runs out of URLs and   *)
(* every issuer settles.                                                   *)
Termination == <>(phase \in {"done", "failed"})

(* What the doc of the module says (client.rs:13): a mechanism that cannot *)
(* find anything wanted is never started.                                  *)
IrrelevantNeverStarted ==
  \A m \in started :
    \E found \in Finds[m] : \E c \in Range(found) : Asked(services, c.service)
=============================================================================
