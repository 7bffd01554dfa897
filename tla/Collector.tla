----------------------------- MODULE Collector -----------------------------
(***************************************************************************)
(* DiscoveryConfigCollector (src/compose/collect.rs): the pure accumulator *)
(* that a compose feeds, in mechanism-priority order, with what each       *)
(* mechanism found.                                                        *)
(*                                                                         *)
(* A call of collect is two nested loops, over the configurations of the   *)
(* call and over the methods of one that merges; each iteration is one     *)
(* step here, and no other call starts until both loops are over.          *)
(***************************************************************************)
EXTENDS ServiceConfig

VARIABLES
  services,   \* requested services, {} for all of them; fixed by new
  configs,    \* the accumulated list
  batch,      \* configurations of the running call not looked at yet
  merge,      \* the running inner loop: [at |-> entry, auth |-> methods left]
  taken       \* history: the wanted configurations, in the order taken

collectorVars == <<services, configs, batch, merge, taken>>

NoMerge == [at |-> 0, auth |-> <<>>]

CollectorTypeOK ==
  /\ services \subseteq Service
  /\ configs \in Seq(Config)
  /\ batch \in Seq(Config)
  /\ merge \in [at : Nat, auth : Seq(AuthMethod)]
  /\ merge = NoMerge \/ (merge.at \in DOMAIN configs /\ merge.auth # <<>>)
  /\ taken \in Seq(Config)

CollectorInit ==
  /\ services \in SUBSET Service
  /\ configs = <<>>
  /\ batch = <<>>
  /\ merge = NoMerge
  /\ taken = <<>>

-----------------------------------------------------------------------------
Wants(s) == services = {} \/ s \in services

Idle == batch = <<>> /\ merge = NoMerge

(* Mutant: shards of a collected host are looked for, its parents are not. *)
MatchesParentOnly(i, c) ==
  /\ i \in DOMAIN configs
  /\ SameLogin(configs[i], c) /\ Covers(configs[i].endpoint, c.endpoint)
  /\ \A j \in 1 .. i - 1 :
       ~(SameLogin(configs[j], c) /\ Covers(configs[j].endpoint, c.endpoint))

(* Entry i is the one `find` returns for c.                                *)
FirstMatch(i, c) ==
  /\ i \in DOMAIN configs
  /\ Mergeable(configs[i], c)
  /\ \A j \in 1 .. i - 1 : ~Mergeable(configs[j], c)

(* Mutant: the endpoint of the later mechanism always wins.                *)
AlwaysRehost(e, c) == [e EXCEPT !.endpoint = c.endpoint, !.source = c.source]

(* Mutant: the endpoint moves to the parent, the source stays behind.      *)
RehostEndpointOnly(e, c) ==
  IF SubdomainOf(e.endpoint, c.endpoint)
    THEN [e EXCEPT !.endpoint = c.endpoint]
    ELSE e

(* The parent host takes over the endpoint, with the mechanism naming it.  *)
Rehost(e, c) ==
  IF SubdomainOf(e.endpoint, c.endpoint)
    THEN [e EXCEPT !.endpoint = c.endpoint, !.source = c.source]
    ELSE e

(* Mutants: no `contains` test, and methods put before those there are.    *)
PushAlways(auth, m) == Append(auth, m)
PushFront(auth, m) == IF m \in Range(auth) THEN auth ELSE <<m>> \o auth

PushMethod(auth, m) == IF m \in Range(auth) THEN auth ELSE Append(auth, m)

(* Mutant: the loop is entered, or goes on, with no method left.           *)
MergeLoopAlways(i, methods) == [at |-> i, auth |-> methods]

(* The inner loop over methods, not entered when there are none.           *)
MergeLoop(i, methods) ==
  IF methods = <<>> THEN NoMerge ELSE [at |-> i, auth |-> methods]

-----------------------------------------------------------------------------
Collect(b) ==
  /\ Idle
  /\ batch' = b
  /\ UNCHANGED <<services, configs, merge, taken>>

(* A configuration of a service nobody asked for.                          *)
Skip ==
  /\ batch # <<>> /\ merge = NoMerge
  /\ ~Wants(Head(batch).service)
  /\ batch' = Tail(batch)
  /\ UNCHANGED <<services, configs, merge, taken>>

Push ==
  /\ batch # <<>> /\ merge = NoMerge
  /\ Wants(Head(batch).service)
  /\ ~\E i \in DOMAIN configs : FirstMatch(i, Head(batch))
  /\ configs' = Append(configs, Head(batch))
  /\ batch' = Tail(batch)
  /\ taken' = Append(taken, Head(batch))
  /\ UNCHANGED <<services, merge>>

Match ==
  /\ batch # <<>> /\ merge = NoMerge
  /\ Wants(Head(batch).service)
  /\ \E i \in DOMAIN configs :
       /\ FirstMatch(i, Head(batch))
       /\ configs' = [configs EXCEPT ![i] = Rehost(@, Head(batch))]
       /\ merge' = MergeLoop(i, Head(batch).auth)
  /\ batch' = Tail(batch)
  /\ taken' = Append(taken, Head(batch))
  /\ UNCHANGED services

MergeMethod ==
  /\ merge # NoMerge
  /\ configs' = [configs EXCEPT ![merge.at].auth = PushMethod(@, Head(merge.auth))]
  /\ merge' = MergeLoop(merge.at, Tail(merge.auth))
  /\ UNCHANGED <<services, batch, taken>>

Loop == Skip \/ Push \/ Match \/ MergeMethod

CollectorNext == Loop \/ \E b \in Batch : Collect(b)

CollectorSpec == CollectorInit /\ [][CollectorNext]_collectorVars

-----------------------------------------------------------------------------
(* Nothing found is lost: between two iterations, every wanted             *)
(* configuration taken so far has an entry of its service and login whose  *)
(* endpoint is its own or a parent host's, and whose methods include all   *)
(* of its methods (the merge promised by the doc of collect).              *)
Represents(e, c, pending) ==
  /\ SameLogin(e, c)
  /\ Covers(e.endpoint, c.endpoint)
  /\ Range(c.auth) \subseteq Range(e.auth) \cup pending

Represented ==
  merge = NoMerge =>
    \A k \in DOMAIN taken :
      \E i \in DOMAIN configs : Represents(configs[i], taken[k], {})

(* The list never repeats an endpoint of a service and login, and never    *)
(* has a parent host after one of its shards: what deduplication leaves is *)
(* at most a shard listed after its parent.                                *)
NoLaterAncestor ==
  \A i, j \in DOMAIN configs :
    (i < j /\ SameLogin(configs[i], configs[j])) =>
      ~Covers(configs[j].endpoint, configs[i].endpoint)

(* Priority: an entry has the endpoint, as spelled, and the source of the  *)
(* first configuration taken that reports this endpoint for this login,    *)
(* however many entries were rehosted meanwhile.                           *)
ReportsFirst(k, e) ==
  /\ SameLogin(taken[k], e)
  /\ taken[k].endpoint = e.endpoint
  /\ taken[k].source = e.source
  /\ \A j \in 1 .. k - 1 :
       ~(SameLogin(taken[j], e) /\ Equivalent(taken[j].endpoint, e.endpoint))

FirstReporterWins ==
  \A i \in DOMAIN configs : \E k \in DOMAIN taken : ReportsFirst(k, configs[i])

(* No method is listed twice in an entry unless a mechanism reported it    *)
(* twice.                                                                  *)
AuthDistinct ==
  (\A k \in DOMAIN taken : IsInjective(taken[k].auth)) =>
    \A i \in DOMAIN configs : IsInjective(configs[i].auth)

(* An entry once listed keeps its place, its service, its login and the    *)
(* order of preference of the methods it has; its endpoint and source stay *)
(* or move together to a parent host.                                      *)
StableEntry(i) ==
  /\ i \in DOMAIN configs'
  /\ SameLogin(configs[i], configs'[i])
  /\ IsPrefix(configs[i].auth, configs'[i].auth)
  /\ \/ /\ configs'[i].endpoint = configs[i].endpoint
        /\ configs'[i].source = configs[i].source
     \/ SubdomainOf(configs[i].endpoint, configs'[i].endpoint)

EntriesStable == [][\A i \in DOMAIN configs : StableEntry(i)]_collectorVars

(* What the doc of the type says (collect.rs:15): the list is              *)
(* deduplicated, no two entries are ones the collector would merge.        *)
OneDeduplicatedList ==
  merge = NoMerge =>
    \A i, j \in DOMAIN configs : i # j => ~Mergeable(configs[i], configs[j])
=============================================================================
