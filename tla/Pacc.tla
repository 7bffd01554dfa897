-------------------------------- MODULE Pacc --------------------------------
(***************************************************************************)
(* DiscoveryPacc (pacc/discover.rs): the configuration document of a       *)
(* domain is fetched over HTTPS (shared/http.rs), then accepted only if a  *)
(* TXT record of the domain (shared/dns.rs) publishes its digest.  Two     *)
(* drivers: a DiscoveryPaccClientStd (pacc/client.rs) called again and     *)
(* again, whose pool keeps the streams to the resolver and to every web    *)
(* host, and run_pacc of the compose, with a pool of its own per call.     *)
(*                                                                         *)
(* An exchange is one write and the read of a whole answer (DnsExchange    *)
(* has the bytes).  What a server answers is drawn when the answer is      *)
(* read, from all it may publish for the domain it was asked about.  The   *)
(* digest of a body stands for the body itself.                            *)
(***************************************************************************)
EXTENDS Integers, Sequences

CONSTANTS
  Domain,      \* what discover may be called with
  NoDomain,
  Resolver,    \* the pool key of the resolver
  BadUrl,      \* domains that make no URL
  BadName,     \* domains that make a URL, and a TXT query that is refused
  Body,        \* response bodies
  NoBody,
  Json,        \* the bodies that parse as a PACC document
  Value,       \* values of the tags of a TXT record, every body among them
  Site,        \* [Domain -> SUBSET Response]: what the web host may answer
  Zone,        \* [Domain -> SUBSET Seq(Record)]: what the resolver may answer
  MaxCalls

Response == [kind : {"success", "status", "redirect", "malformed"}, body : Body]

(* The tags of a TXT record, name and value, trimmed and in lower case.  A *)
(* record that is not UTF-8 is skipped like one without a tag.             *)
Tag == {"v", "a", "d"} \X Value
Record == Seq(Tag)

ASSUME DomainAssumption ==
  /\ NoDomain \notin Domain /\ Resolver \notin Domain
  /\ BadUrl \subseteq Domain /\ BadName \subseteq Domain \ BadUrl
ASSUME BodyAssumption ==
  /\ NoBody \notin Body /\ Json \subseteq Body
  /\ Body \cup {"UAAC1", "sha256"} \subseteq Value
ASSUME ServerAssumption ==
  /\ Site \in [Domain -> SUBSET Response]
  /\ Zone \in [Domain -> SUBSET Seq(Record)]
ASSUME CallsAssumption == MaxCalls \in Nat

(* One web host per domain, ua-auto-config.<domain>, and the resolver.     *)
Key == Domain \cup {Resolver}

VARIABLES
  driver,   \* "std" or "compose"
  domain,   \* the domain of the call; NoDomain between calls
  state,    \* of the coroutine: "Get" or "Verify"
  reading,  \* the request of this exchange is written
  body,     \* raw_body
  pool,     \* [Key -> "absent", "open" or "closed"]
  pending,  \* [Key -> the domains asked about, and not read yet]
  outcome,  \* what the last call returned
  late,     \* history: a read from the resolver failed, on this pool
  trouble,  \* history: something failed or was closed, on this pool
  calls

netVars == <<pool, pending>>
histVars == <<late, trouble>>
vars == <<driver, domain, state, reading, body, netVars, outcome, histVars, calls>>

Kind == {"none", "ok", "url", "http", "dns", "no_record", "json", "io"}

Outcome == [kind : Kind, domain : Domain \cup {NoDomain}, document : Body \cup {NoBody}]

(* The types; a digest is looked up only for a body that was fetched.      *)
PaccTypeOK ==
  /\ driver \in {"std", "compose"}
  /\ domain \in Domain \cup {NoDomain}
  /\ state \in {"Get", "Verify"} /\ reading \in BOOLEAN
  /\ body \in Body \cup {NoBody}
  /\ pool \in [Key -> {"absent", "open", "closed"}]
  /\ pending \in [Key -> Seq(Domain)]
  /\ outcome \in Outcome
  /\ late \in BOOLEAN /\ trouble \in BOOLEAN
  /\ calls \in 0 .. MaxCalls
  /\ domain # NoDomain /\ state = "Verify" => body \in Body

-----------------------------------------------------------------------------
NoOutcome == [kind |-> "none", domain |-> NoDomain, document |-> NoBody]

EmptyPool == [k \in Key |-> "absent"]
NothingPending == [k \in Key |-> <<>>]

Init ==
  /\ driver \in {"std", "compose"}
  /\ domain = NoDomain /\ state = "Get" /\ reading = FALSE /\ body = NoBody
  /\ pool = EmptyPool /\ pending = NothingPending
  /\ outcome = NoOutcome
  /\ late = FALSE /\ trouble = FALSE /\ calls = 0

Idle == domain = NoDomain

(* discover and run_pacc: a new coroutine; the compose takes a new pool.   *)
Discover(d) ==
  /\ Idle /\ calls < MaxCalls
  /\ domain' = d /\ state' = "Get" /\ reading' = FALSE /\ body' = NoBody
  /\ outcome' = NoOutcome /\ calls' = calls + 1
  /\ IF driver = "compose"
     THEN pool' = EmptyPool /\ pending' = NothingPending /\ late' = FALSE /\ trouble' = FALSE
     ELSE UNCHANGED <<netVars, histVars>>
  /\ UNCHANGED driver

(* The call returns, the coroutine is dropped.                             *)
Return(kind, document) ==
  /\ outcome' = [kind |-> kind, domain |-> domain, document |-> document]
  /\ domain' = NoDomain
  /\ UNCHANGED <<driver, state, reading, body, calls>>

Fail(kind) == Return(kind, NoBody)

RejectUrl ==
  /\ ~Idle /\ domain \in BadUrl
  /\ Fail("url")
  /\ UNCHANGED <<netVars, histVars>>

-----------------------------------------------------------------------------
(* The stream of the exchange the coroutine is in.                         *)
Peer == IF state = "Get" THEN domain ELSE Resolver

(* A failing stream ends the loop of the std client; run of the compose    *)
(* reports it to the coroutine as the end of the stream.                   *)
Broken == IF driver = "std" THEN "io" ELSE IF state = "Get" THEN "http" ELSE "dns"

(* BuildQuery: the name does not parse, or its query does not fit.         *)
RejectQuery ==
  /\ ~Idle /\ state = "Verify" /\ ~reading /\ domain \in BadName
  /\ Fail("dns")
  /\ UNCHANGED <<netVars, histVars>>

MayAsk == ~Idle /\ ~reading /\ domain \notin (IF state = "Get" THEN BadUrl ELSE BadName)

OpenFails ==
  /\ MayAsk /\ pool[Peer] = "absent"
  /\ Fail(Broken)
  /\ trouble' = TRUE
  /\ UNCHANGED <<netVars, late>>

(* pool.get: what is in the pool, open or not, else a new stream.          *)
Pooled(k) == IF pool[k] = "absent" THEN "open" ELSE pool[k]

(* A write to a closed stream may go nowhere without an error.             *)
Ask ==
  /\ MayAsk
  /\ pool' = [pool EXCEPT ![Peer] = Pooled(Peer)]
  /\ pending' = IF Pooled(Peer) = "open"
                THEN [pending EXCEPT ![Peer] = Append(@, domain)] ELSE pending
  /\ reading' = TRUE
  /\ UNCHANGED <<driver, domain, state, body, outcome, histVars, calls>>

(* write_all fails with nothing written, or with the stream lost.          *)
WriteFails ==
  /\ MayAsk
  /\ pool' \in {[pool EXCEPT ![Peer] = s] : s \in {Pooled(Peer), "closed"}}
  /\ pending' = IF pool'[Peer] = "open" THEN pending ELSE [pending EXCEPT ![Peer] = <<>>]
  /\ Fail(Broken)
  /\ trouble' = TRUE
  /\ UNCHANGED late

-----------------------------------------------------------------------------
(* Mutant: the rest of the answers is left to be read again.               *)
TakeLess(k, n) == pending' = [pending EXCEPT ![k] = SubSeq(@, n, Len(@))]

(* One read brings one whole answer or more; the exchange keeps the first. *)
Take(k, n) == pending' = [pending EXCEPT ![k] = SubSeq(@, n + 1, Len(@))]

(* An exchange gets the answer to the request that was asked first.        *)
Read(k) ==
  /\ ~Idle /\ reading /\ Peer = k
  /\ \E n \in 1 .. Len(pending[k]) : Take(k, n)

(* Mutant: the body is not kept.                                           *)
DroppedBody(b) == NoBody

(* The body is kept for the verification.                                  *)
KeptBody(b) == b

(* DiscoveryHttpGet: a 2xx body is the document; a redirect, any other     *)
(* status and a response that cannot be read are errors.                   *)
ReadDocument ==
  /\ state = "Get" /\ Read(domain)
  /\ \E r \in Site[Head(pending[domain])] :
       \/ /\ r.kind = "success"
          /\ body' = KeptBody(r.body) /\ state' = "Verify" /\ reading' = FALSE
          /\ UNCHANGED <<driver, domain, outcome, calls>>
       \/ /\ r.kind # "success"
          /\ Fail("http")
  /\ UNCHANGED <<pool, histVars>>

(* The last tag of a name is the one that counts.                          *)
Valued(record, name, value) ==
  \E i \in DOMAIN record :
    /\ record[i] = <<name, value>>
    /\ \A j \in DOMAIN record : j > i => record[j][1] # name

(* Version, algorithm and digest, all three.                               *)
Vouches(record, document) ==
  /\ Valued(record, "v", "UAAC1")
  /\ Valued(record, "a", "sha256")
  /\ Valued(record, "d", document)

(* Mutant: the first record alone is looked at.                            *)
VerifiedByFirst(records) == records # <<>> /\ Vouches(records[1], body)

(* The records that do not vouch for the body are skipped.                 *)
Verified(records) == \E i \in DOMAIN records : Vouches(records[i], body)

ReadRecords ==
  /\ state = "Verify" /\ Read(Resolver)
  /\ \E records \in Zone[Head(pending[Resolver])] :
       \/ /\ Verified(records) /\ body \in Json
          /\ Return("ok", body)
       \/ /\ Verified(records) /\ body \notin Json
          /\ Fail("json")
       \/ /\ ~Verified(records)
          /\ Fail("no_record")
  /\ UNCHANGED <<pool, histVars>>

(* A message that cannot be parsed (InvalidResponse).                      *)
ReadGarbage ==
  /\ state = "Verify" /\ Read(Resolver)
  /\ Fail("dns")
  /\ trouble' = TRUE
  /\ UNCHANGED <<pool, late>>

(* The empty read of a closed stream.                                      *)
ReadEnd ==
  /\ ~Idle /\ reading /\ pool[Peer] = "closed" /\ pending[Peer] = <<>>
  /\ Fail(IF state = "Get" THEN "http" ELSE "dns")
  /\ UNCHANGED <<netVars, histVars>>

(* A failing read leaves the stream in the pool, its answer still to come. *)
ReadFails ==
  /\ ~Idle /\ reading
  /\ Fail(Broken)
  /\ late' = (late \/ Peer = Resolver) /\ trouble' = TRUE
  /\ UNCHANGED netVars

(* A peer closes when it likes; what it sent may still be read, or not.    *)
Close(k) ==
  /\ pool[k] = "open"
  /\ pool' = [pool EXCEPT ![k] = "closed"]
  /\ pending' \in {pending, [pending EXCEPT ![k] = <<>>]}
  /\ trouble' = TRUE
  /\ UNCHANGED <<driver, domain, state, reading, body, outcome, late, calls>>

NoMoreCalls == Idle /\ calls = MaxCalls /\ UNCHANGED vars

Next ==
  \/ \E d \in Domain : Discover(d)
  \/ RejectUrl \/ RejectQuery
  \/ OpenFails \/ Ask \/ WriteFails
  \/ ReadDocument \/ ReadRecords \/ ReadGarbage \/ ReadEnd \/ ReadFails
  \/ \E k \in Key : Close(k)
  \/ NoMoreCalls

Spec == Init /\ [][Next]_vars
-----------------------------------------------------------------------------
(* What the doc of the module promises ("fetch, digest verification, JSON  *)
(* parse", pacc/discover.rs): a document is returned only if the web host  *)
(* of its own domain serves it and it parses, whatever streams were kept;  *)
(* and only if its own domain vouches for it, as long as no read from the  *)
(* resolver failed, after which the answer of an earlier call may come in. *)
VouchedFor ==
  outcome.kind = "ok" =>
    /\ [kind |-> "success", body |-> outcome.document] \in Site[outcome.domain]
    /\ outcome.document \in Json
    /\ ~late => \E records \in Zone[outcome.domain] :
                  \E i \in DOMAIN records : Vouches(records[i], outcome.document)

(* A domain whose host serves documents only, each vouched for in every    *)
(* answer of its zone, whatever else is published beside.                  *)
Consistent(d) ==
  /\ d \notin BadUrl \cup BadName
  /\ \A r \in Site[d] :
       /\ r.kind = "success" /\ r.body \in Json
       /\ \A records \in Zone[d] : \E i \in DOMAIN records : Vouches(records[i], r.body)

(* Only trouble on the way keeps such a domain from being found: neither a *)
(* stray record, nor a call before on the same streams, even one that      *)
(* ended early (the loop over the records skips, discover.rs:154).         *)
PublishedIsFound ==
  Idle /\ outcome.kind # "none" /\ Consistent(outcome.domain) /\ ~trouble => outcome.kind = "ok"
=============================================================================
