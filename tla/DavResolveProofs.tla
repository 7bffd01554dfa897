-------------------------- MODULE DavResolveProofs --------------------------
(***************************************************************************)
(* Proofs about DavResolve for any zones, servers, hosts and paths, any    *)
(* drivers and any number of calls.                                        *)
(***************************************************************************)
EXTENDS DavResolve, WellFoundedInduction, TLAPS

-----------------------------------------------------------------------------
(* A set of numbers has a least one.                                       *)
LEMMA LeastNumber ==
  ASSUME NEW T, T \subseteq Nat, T # {}
  PROVE  \E x \in T : \A y \in T : x <= y
<1>1. PICK R : IsWellFoundedOn(R, Nat) /\ \A a, b \in Nat : a < b => <<a, b>> \in R
  <2>1. \A a, b \in Nat : a < b => <<a, b>> \in OpToRel(<, Nat)
    BY DEF OpToRel
  <2>2. QED BY <2>1, NatLessThanWellFounded
<1>2. IsWellFoundedOn(R, Nat)
  BY <1>1
<1>3. PICK x \in T : \A y \in T : ~ (<<y, x>> \in R)
  BY <1>2, WFMin, Zenon
<1>4. \A y \in T : ~ (y < x)
  BY <1>1, <1>3
<1>5. \A y \in T : x <= y
  BY <1>4
<1>6. QED BY <1>5

(* What the TXT coroutine returns of a name's values.                      *)
LEMMA FirstPathIsFirst ==
  ASSUME NEW values \in Seq(Txt)
  PROVE  /\ FirstPath(values) \in Option(Txt)
         /\ FirstPath(values) = <<>> <=> \A i \in DOMAIN values : values[i].kind = "none"
         /\ FirstPath(values) # <<>> =>
              \E i \in DOMAIN values :
                FirstPath(values)[1] = values[i] /\ IsPathOf(values[i], values)
<1> DEFINE held == {i \in DOMAIN values : values[i].kind # "none"}
           first == CHOOSE i \in held : \A j \in held : i <= j
<1>1. FirstPath(values) = IF held = {} THEN <<>> ELSE <<values[first]>>
  BY DEF FirstPath
<1>2. CASE held = {}
  BY <1>1, <1>2 DEF Option
<1>3. CASE held # {}
  <2>1. DOMAIN values = 1 .. Len(values) /\ Len(values) \in Nat
    OBVIOUS
  <2>2. held \subseteq Nat
    BY <2>1
  <2>3. \E i \in held : \A j \in held : i <= j
    BY <1>3, <2>2, LeastNumber
  <2>4. first \in held /\ \A j \in held : first <= j
    BY <2>3
  <2> HIDE DEF first
  <2>5. \A j \in 1 .. first - 1 : values[j].kind = "none"
    <3>1. SUFFICES ASSUME NEW j \in 1 .. first - 1 PROVE j \notin held
      BY <2>1, <2>4
    <3>2. QED BY <2>1, <2>4
  <2>6. values[first] \in Txt
    BY <2>1, <2>4
  <2>7. IsPathOf(values[first], values)
    BY <2>4, <2>5 DEF IsPathOf
  <2>8. FirstPath(values) = <<values[first]>>
    BY <1>1, <1>3
  <2>9. <<values[first]>> \in Option(Txt) /\ <<values[first]>> # <<>>
    BY <2>6 DEF Option
  <2>10. QED BY <2>4, <2>7, <2>8, <2>9
<1>4. QED BY <1>2, <1>3

LEMMA OriginOf ==
  ASSUME NEW s \in Services, NEW found \in [Names -> Option(Srv)]
  PROVE  LET o == Origin(found[Secure(s)], found[Plain(s)])
         IN  o \in Origins /\ IsOriginOf(o, s, found)
<1>1. Secure(s) \in Names /\ Plain(s) \in Names
  BY DEF Services, Names, Secure, Plain
<1>2. found[Secure(s)] \in Option(Srv) /\ found[Plain(s)] \in Option(Srv)
  BY <1>1
<1> DEFINE secure == found[Secure(s)]
           plain == found[Plain(s)]
<1>3. DomainOrigin \in Origins
  BY UrlsAssumption DEF DomainOrigin, Origins
<1>4. \A r \in Srv : At("https", r) \in Origins /\ At("http", r) \in Origins
  BY DEF At, Srv, Origins
<1>5. \A r : <<r>> # <<>> /\ <<r>>[1] = r
  OBVIOUS
<1>6. CASE secure = <<>> /\ plain = <<>>
  BY <1>3, <1>5, <1>6 DEF Origin, IsOriginOf
<1>7. ASSUME NEW r \in Srv, secure = <<r>>
      PROVE  At("https", r) \in Origins /\ IsOriginOf(Origin(secure, plain), s, found)
             /\ Origin(secure, plain) = At("https", r)
  BY <1>4, <1>5, <1>7 DEF Origin, IsOriginOf
<1>8. ASSUME NEW r \in Srv, secure = <<>>, plain = <<r>>
      PROVE  At("http", r) \in Origins /\ IsOriginOf(Origin(secure, plain), s, found)
             /\ Origin(secure, plain) = At("http", r)
  BY <1>4, <1>5, <1>8 DEF Origin, IsOriginOf
<1>9. QED BY <1>2, <1>6, <1>7, <1>8 DEF Option

LEMMA TxtNameOf ==
  ASSUME NEW s \in Services, NEW found \in [Names -> Option(Srv)]
  PROVE  LET name == NameOf(s, found)
         IN  /\ name \in Names
             /\ TxtName(s, found) = IF found[name] = <<>> THEN <<>> ELSE <<name>>
BY DEF Services, Names, Secure, Plain, NameOf, TxtName

-----------------------------------------------------------------------------
(* What the running call has learnt, by the state of the coroutine, while  *)
(* it used no stream that owed an answer.                                  *)
Learnt ==
  ~late =>
    /\ state = "Srv" => \A i \in 1 .. 4 : i < lookup => report[Lookups[i]] = Site.srv[Lookups[i]]
    /\ state = "Txt" => report = Site.srv /\ IsOriginOf(origin, service, report)
    /\ state = "WellKnown" =>
         /\ IsOriginOf(origin, service, Told)
         /\ Told[NameOf(service, Told)] # <<>> => HasNoPath(NameOf(service, Told))

Control ==
  /\ DavTypeOK
  /\ Idle <=> state = "Done"
  /\ outcome.kind # "none" => Idle
  /\ state = "Txt" => TxtName(service, report) # <<>>

(* After a failed lookup the domain is probed, or it makes no URL.         *)
Survival ==
  /\ (noSrv /\ ~Idle) => state = "WellKnown" /\ origin = DomainOrigin
  /\ FailedSrvIsSurvived

(* A call that began with a closed stream never hears the resolver, unless *)
(* the stream still held answers.                                          *)
Staleness ==
  /\ driver = "compose" => ~stale
  /\ (stale /\ ~late) =>
       /\ ~Idle => pool[Resolver] = "closed" /\ state # "Txt" /\ (state = "Srv" => lookup = 1)
       /\ state = "WellKnown" => noSrv
       /\ outcome.kind = "ok" => noSrv

(* A call of the compose finds no stream that owes an answer: the one it   *)
(* left on the resolver's it does not use again.                           *)
Fresh ==
  driver = "compose" =>
    /\ ~late
    /\ ~Idle => /\ \A o \in Origins : pending[o] = <<>>
                /\ state # "WellKnown" => pending[Resolver] = <<>>

DavInv == Control /\ Learnt /\ Survival /\ Staleness /\ Fresh /\ RootIsPublished

Statuses == {"absent", "open", "closed"}

LEMMA SiteType ==
  ASSUME DavTypeOK
  PROVE  /\ Site.srv \in [Names -> Option(Srv)]
         /\ \A n \in Names : Site.txt[n] \in Seq(Txt)
         /\ \A s \in Services, o \in Origins : Site.redirect[s][o] \in Option(Roots)
<1>1. Worlds \in Seq(World) /\ world \in DOMAIN Worlds
  BY WorldsAssumption DEF DavTypeOK
<1>2. Site \in World
  BY <1>1 DEF Site
<1>3. QED BY <1>2 DEF World

LEMMA EndpointType ==
  ASSUME DavTypeOK
  PROVE  Endpoint \in Endpoints /\ Resolver \in Endpoints
BY DEF DavTypeOK, Endpoint, Endpoints

LEMMA LookupNames == \A i \in 1 .. 4 : Lookups[i] \in Names
BY DEF Lookups, Names

(* What an answer to a question of a stream's peer holds.                  *)
LEMMA AnswerType ==
  ASSUME DavTypeOK, NEW q
  PROVE  /\ q \in Questions(Resolver) => SrvOf(q) \in Option(Srv) /\ TxtOf(q) \in Seq(Txt)
         /\ \A o \in Origins : q \in Questions(o) => RedirectOf(q) \in Option(Roots)
<1>1. ASSUME q \in Questions(Resolver)
      PROVE  SrvOf(q) \in Option(Srv) /\ TxtOf(q) \in Seq(Txt)
  <2>1. q.name \in Names
    BY <1>1 DEF Questions
  <2>2. <<>> \in Option(Srv) /\ <<>> \in Seq(Txt)
    BY DEF Option
  <2>3. QED BY <2>1, <2>2, SiteType DEF SrvOf, TxtOf
<1>2. ASSUME NEW o \in Origins, q \in Questions(o)
      PROVE  RedirectOf(q) \in Option(Roots)
  <2>1. o # Resolver
    BY DEF Origins, Resolver
  <2>2. q.name \in Services /\ q.at = o
    BY <1>2, <2>1 DEF Questions
  <2>3. QED BY <2>2, SiteType DEF RedirectOf
<1>3. QED BY <1>1, <1>2

(* What is asked, and what the stream's peer owes with it.                 *)
LEMMA QueueType ==
  ASSUME Control, ~Idle
  PROVE  /\ Asked \in Questions(Endpoint) /\ Asked.step = state /\ Asked.at = Endpoint
         /\ pending[Endpoint] \in Seq(Questions(Endpoint))
         /\ Queue \in Seq(Questions(Endpoint))
<1>1. DavTypeOK /\ state \in {"Srv", "Txt", "WellKnown"} /\ service \in Services
  BY DEF Control, DavTypeOK, Idle
<1>2. Asked.step = state /\ Asked.at = Endpoint /\ Endpoint \in Endpoints
  BY <1>1, EndpointType DEF Asked
<1>3. Asked \in Questions(Endpoint)
  <2>1. CASE state = "Srv"
    BY <1>1, <2>1, LookupNames DEF DavTypeOK, Asked, Endpoint, Questions
  <2>2. CASE state = "Txt"
    <3>1. report \in [Names -> Option(Srv)] /\ TxtName(service, report) # <<>>
      BY <1>1, <2>2 DEF DavTypeOK, Control
    <3>2. TxtName(service, report)[1] \in Names
      BY <1>1, <3>1, TxtNameOf
    <3>3. QED BY <2>2, <3>2 DEF Asked, Endpoint, Questions
  <2>3. CASE state = "WellKnown"
    <3>1. Endpoint = origin /\ Asked.name = service
      BY <2>3 DEF Endpoint, Asked
    <3>2. origin # Resolver
      BY <1>1 DEF DavTypeOK, Origins, Resolver
    <3>3. Asked = [step |-> "WellKnown", name |-> service, at |-> origin]
      BY <2>3 DEF Asked, Endpoint
    <3>4. Questions(origin) = [step : {"WellKnown"}, name : Services, at : {origin}]
      BY <3>2 DEF Questions
    <3>5. QED BY <1>1, <3>1, <3>3, <3>4
  <2>4. QED BY <1>1, <2>1, <2>2, <2>3
<1>4. pending[Endpoint] \in Seq(Questions(Endpoint))
  BY <1>1, <1>2 DEF DavTypeOK
<1>5. Queue \in Seq(Questions(Endpoint))
  <2> DEFINE S == Questions(Endpoint)
  <2> HIDE DEF S
  <2>1. pending[Endpoint] \in Seq(S) /\ Asked \in S
    BY <1>3, <1>4 DEF S
  <2>2. Append(pending[Endpoint], Asked) \in Seq(S)
    BY <2>1
  <2>3. Queue \in Seq(S)
    BY <2>1, <2>2 DEF Queue
  <2>4. QED BY <2>3 DEF S
<1>6. QED BY <1>2, <1>3, <1>4, <1>5

(* An exchange answered takes the first of the answers owed: its own, when *)
(* none was owed before, and then none is left.                            *)
LEMMA AnswerTaken ==
  ASSUME Control, ~Idle, Answered
  PROVE  /\ Head(Queue) \in Questions(Endpoint)
         /\ pending[Endpoint] = <<>> =>
              Head(Queue) = Asked /\ pool[Endpoint] # "closed" /\ pending'[Endpoint] = <<>>
<1>1. PICK n \in 1 .. Len(Queue) :
        pending' = [pending EXCEPT ![Endpoint] = SubSeq(Queue, n + 1, Len(Queue))]
  BY DEF Answered, Taken
<1> DEFINE S == Questions(Endpoint)
<1> HIDE DEF S
<1>2. Queue \in Seq(S)
  BY QueueType DEF S
<1>3. Head(Queue) \in S
  BY <1>1, <1>2
<1>4. ASSUME pending[Endpoint] = <<>>
      PROVE  Head(Queue) = Asked /\ pool[Endpoint] # "closed" /\ pending'[Endpoint] = <<>>
  <2>1. pool[Endpoint] # "closed" /\ Queue = <<Asked>>
    BY <1>1, <1>4 DEF Queue
  <2>2. n = 1 /\ SubSeq(Queue, n + 1, Len(Queue)) = <<>>
    BY <1>1, <2>1
  <2>3. Endpoint \in DOMAIN pending
    BY EndpointType DEF Control, DavTypeOK
  <2>4. QED BY <1>1, <2>1, <2>2, <2>3
<1>5. QED BY <1>3, <1>4 DEF S

(* What every exchange does to the streams and to the history.             *)
LEMMA Exchange ==
  ASSUME Control, ~Idle, Answered \/ Unanswered \/ IoFails
  PROVE  /\ pool' \in [Endpoints -> Statuses]
         /\ DOMAIN pending' = Endpoints /\ \A e \in Endpoints : pending'[e] \in Seq(Questions(e))
         /\ \A e \in Endpoints : e # Endpoint => pending'[e] = pending[e]
         /\ trips' = trips \cup {Asked}
         /\ \A t \in trips' : t.at \in Endpoints /\ t \in Questions(t.at)
         /\ Asked.step = state /\ Asked.at = Endpoint
         /\ late' \in BOOLEAN /\ (late' <=> late \/ pending[Endpoint] # <<>>)
         /\ UNCHANGED <<world, driver, stale, calls>>
         /\ pool[Resolver] = "closed" => pool'[Resolver] = "closed"
<1>1. DavTypeOK /\ Endpoint \in Endpoints /\ Resolver \in Endpoints
  BY EndpointType DEF Control
<1>2. pool \in [Endpoints -> Statuses]
  BY <1>1 DEF DavTypeOK, Statuses
<1>3. Trip
  BY DEF Answered, Unanswered, IoFails
<1>4. /\ Asked \in Questions(Endpoint) /\ Asked.step = state /\ Asked.at = Endpoint
      /\ Queue \in Seq(Questions(Endpoint))
  BY QueueType
<1>5. UNCHANGED streams \/ Taken \/ Drained \/ Unsent \/ Lost \/ NotRead
  BY DEF Answered, Unanswered, IoFails
<1>6. \/ pool' = pool
      \/ \E status \in Statuses :
           /\ pool[Endpoint] = "closed" => status = "closed"
           /\ pool' = [pool EXCEPT ![Endpoint] = status]
  BY <1>1, <1>2, <1>5 DEF streams, Taken, Drained, Unsent, Lost, NotRead, Pooled, Statuses
<1>7. pool' \in [Endpoints -> Statuses] /\ (pool[Resolver] = "closed" => pool'[Resolver] = "closed")
  BY <1>1, <1>2, <1>6
<1>8. \/ pending' = pending
      \/ \E left \in Seq(Questions(Endpoint)) : pending' = [pending EXCEPT ![Endpoint] = left]
  <2> DEFINE S == Questions(Endpoint)
  <2> HIDE DEF S
  <2>1. Queue \in Seq(S) /\ <<>> \in Seq(S)
    BY <1>4 DEF S
  <2>2. \A n \in 1 .. Len(Queue) : SubSeq(Queue, n + 1, Len(Queue)) \in Seq(S)
    BY <2>1
  <2>3. QED BY <1>5, <2>1, <2>2 DEF S, streams, Taken, Drained, Unsent, Lost, NotRead
<1>9. /\ DOMAIN pending' = Endpoints /\ \A e \in Endpoints : pending'[e] \in Seq(Questions(e))
      /\ \A e \in Endpoints : e # Endpoint => pending'[e] = pending[e]
  <2>1. DOMAIN pending = Endpoints /\ \A e \in Endpoints : pending[e] \in Seq(Questions(e))
    BY <1>1 DEF DavTypeOK
  <2>2. CASE pending' = pending
    BY <2>1, <2>2
  <2>3. ASSUME NEW left \in Seq(Questions(Endpoint)), pending' = [pending EXCEPT ![Endpoint] = left]
        PROVE  /\ DOMAIN pending' = Endpoints /\ \A e \in Endpoints : pending'[e] \in Seq(Questions(e))
               /\ \A e \in Endpoints : e # Endpoint => pending'[e] = pending[e]
    BY <1>1, <2>1, <2>3
  <2>4. QED BY <1>8, <2>2, <2>3
<1>10. trips' = trips \cup {Asked} /\ \A t \in trips' : t.at \in Endpoints /\ t \in Questions(t.at)
  BY <1>1, <1>3, <1>4 DEF Trip, DavTypeOK
<1>11. UNCHANGED <<world, driver, stale, calls>>
  BY <1>3 DEF Trip, inputs
<1>12. late' \in BOOLEAN /\ (late' <=> late \/ pending[Endpoint] # <<>>)
  BY <1>3, Zenon DEF Trip
<1>13. QED BY <1>4, <1>7, <1>9, <1>10, <1>11, <1>12

LEMMA FreshExchange ==
  ASSUME Control, Fresh, ~Idle, Answered \/ Unanswered \/ IoFails,
         Idle' \/ (state # "WellKnown" /\ (Answered \/ state' = "WellKnown"))
  PROVE  Fresh'
<1>1. SUFFICES ASSUME driver = "compose" PROVE Fresh'
  BY Exchange DEF Fresh
<1>2. Endpoint \in Origins \cup {Resolver} /\ (state = "WellKnown" <=> Endpoint # Resolver)
  BY DEF Control, DavTypeOK, Endpoint, Origins, Resolver
<1>3. pending[Endpoint] = <<>> /\ ~late
  BY <1>1, <1>2 DEF Fresh
<1>4. ~late'
  BY <1>3, Exchange
<1>5. ASSUME ~Idle', NEW o \in Origins PROVE pending'[o] = <<>>
  <2>1. o \in Endpoints /\ o # Endpoint
    BY <1>2, <1>5 DEF Endpoints, Origins, Resolver
  <2>2. QED BY <1>1, <2>1, Exchange DEF Fresh
<1>6. ASSUME ~Idle', state' # "WellKnown" PROVE pending'[Resolver] = <<>>
  BY <1>2, <1>3, <1>6, AnswerTaken
<1>7. QED BY <1>4, <1>5, <1>6 DEF Fresh

LEMMA EndType ==
  ASSUME Control, ~Idle, NEW kind \in {"ok", "url", "txt", "http", "io"},
         NEW root \in Option(Roots), End(kind, root)
  PROVE  /\ outcome' \in [kind : {"none", "ok", "url", "txt", "http", "io"},
                          service : Services \cup {"none"}, at : Endpoints, root : Option(Roots)]
         /\ outcome'.kind = kind /\ outcome'.root = root /\ outcome'.service = service
         /\ service' = "none" /\ state' = "Done" /\ origin' = origin
BY EndpointType DEF Control, DavTypeOK, End, Outcome

(* An exchange that ends the call leaves the control as it should be.      *)
LEMMA EndControl ==
  ASSUME Control, ~Idle, Answered \/ Unanswered \/ IoFails,
         NEW kind \in {"ok", "url", "txt", "http", "io"},
         NEW root \in Option(Roots), End(kind, root),
         lookup' \in 1 .. 4, report' \in [Names -> Option(Srv)], noSrv' \in BOOLEAN
  PROVE  Control'
BY Exchange, EndType DEF Control, DavTypeOK, Idle, Statuses

(* Likewise one after which the call goes on.                              *)
LEMMA ProceedControl ==
  ASSUME Control, ~Idle, Answered \/ Unanswered,
         NEW o \in Origins, NEW txt, Proceed(o, txt),
         txt # <<>> => txt = TxtName(service, report'),
         lookup' \in 1 .. 4, report' \in [Names -> Option(Srv)], noSrv' \in BOOLEAN
  PROVE  Control'
<1>1. CASE End("url", <<>>)
  BY <1>1, EndControl DEF Option
<1>2. CASE ~End("url", <<>>)
  <2>1. origin' = o /\ state' = (IF txt = <<>> THEN "WellKnown" ELSE "Txt")
        /\ UNCHANGED <<service, outcome>>
    BY <1>2 DEF Proceed
  <2>2. state' = "Txt" => TxtName(service', report') # <<>>
    BY <2>1
  <2>3. DavTypeOK'
    BY <2>1, Exchange DEF Control, DavTypeOK, Statuses
  <2>4. QED BY <2>1, <2>2, <2>3 DEF Control, Idle
<1>3. QED BY <1>1, <1>2

-----------------------------------------------------------------------------
(* What the answers to the lookups add up to.                              *)
LEMMA FoundType ==
  ASSUME Control, Learnt, ~Idle, state = "Srv", Answered
  PROVE  /\ Found \in [Names -> Option(Srv)]
         /\ ~late' =>
              /\ \A i \in 1 .. 4 : i <= lookup => Found[Lookups[i]] = Site.srv[Lookups[i]]
              /\ lookup = 4 => Found = Site.srv
<1>1. DavTypeOK /\ lookup \in 1 .. 4 /\ report \in [Names -> Option(Srv)] /\ Endpoint = Resolver
  BY DEF Control, DavTypeOK, Endpoint
<1>2. Site.srv \in [Names -> Option(Srv)]
  BY <1>1, SiteType
<1>3. Lookups[lookup] \in Names
  BY <1>1, LookupNames
<1>4. SrvOf(Head(Queue)) \in Option(Srv)
  BY <1>1, AnswerTaken, AnswerType
<1>5. Found \in [Names -> Option(Srv)]
  BY <1>1, <1>3, <1>4 DEF Found
<1>6. ASSUME ~late'
      PROVE  \A i \in 1 .. 4 : i <= lookup => Found[Lookups[i]] = Site.srv[Lookups[i]]
  <2>1. ~late /\ Head(Queue) = Asked
    BY <1>6, Exchange, AnswerTaken
  <2>2. SrvOf(Head(Queue)) = Site.srv[Lookups[lookup]]
    BY <2>1 DEF Asked, SrvOf
  <2>3. QED BY <1>1, <1>3, <2>1, <2>2, LookupNames DEF Found, Learnt
<1>7. ASSUME ~late', lookup = 4 PROVE Found = Site.srv
  <2>1. \A n \in Names : \E i \in 1 .. 4 : n = Lookups[i]
    BY DEF Names, Lookups
  <2>2. \A n \in Names : Found[n] = Site.srv[n]
    BY <1>6, <1>7, <2>1
  <2>3. QED BY <1>2, <1>5, <2>2
<1>8. QED BY <1>5, <1>6, <1>7

LEMMA ResolveStep ==
  ASSUME DavInv, NEW s \in Services, Resolve(s)
  PROVE  DavInv'
<1> USE DEF DavInv
<1>1. s # "none"
  BY DEF Services
<1>2. pool' \in [Endpoints -> Statuses] /\ (stale' = (pool'[Resolver] = "closed"))
  BY DEF Resolve, PoolOfCall, NoPool, Control, DavTypeOK, Statuses
<1>3. driver = "compose" => ~stale'
  BY EndpointType DEF Resolve, PoolOfCall, NoPool, Control
<1> DEFINE TypedPending == DOMAIN pending = Endpoints /\ \A e \in Endpoints : pending[e] \in Seq(Questions(e))
<1>11. TypedPending'
  BY DEF Resolve, NothingPending, Control, DavTypeOK
<1>12. Fresh'
  BY EndpointType DEF Resolve, NothingPending, Fresh, inputs, Endpoints, Control
<1>4. Control'
  <2>1. EmptyReport \in [Names -> Option(Srv)]
    BY DEF EmptyReport, Option
  <2>2. NoOutcome \in [kind : {"none", "ok", "url", "txt", "http", "io"},
                       service : Services \cup {"none"}, at : Endpoints, root : Option(Roots)]
        /\ NoOutcome.kind = "none"
    BY DEF NoOutcome, Outcome, Endpoints, Option
  <2>3. calls' \in 0 .. MaxCalls
    BY DavCallsAssumption DEF Resolve, Control, DavTypeOK
  <2>4. DavTypeOK'
    <3>1. DavTypeOK
      BY DEF Control
    <3>2. UNCHANGED <<world, driver, origin>> /\ state' = "Srv" /\ service' = s
      BY DEF Resolve, inputs
    <3>3. /\ trips' = {} /\ lookup' = 1 /\ report' = EmptyReport /\ outcome' = NoOutcome
          /\ noSrv' = FALSE /\ late' = FALSE
      BY DEF Resolve
    <3>4. stale' \in BOOLEAN
      BY <1>2
    <3>5. world' \in DOMAIN Worlds /\ driver' \in Drivers /\ origin' \in Origins
      BY <3>1, <3>2 DEF DavTypeOK
    <3>6. /\ service' \in Services \cup {"none"} /\ state' \in {"Srv", "Txt", "WellKnown", "Done"}
          /\ lookup' \in 1 .. 4
      BY <3>2, <3>3
    <3>7. noSrv' \in BOOLEAN /\ late' \in BOOLEAN
      BY <3>3, Zenon
    <3>8. /\ report' \in [Names -> Option(Srv)]
          /\ \A t \in trips' : t.at \in Endpoints /\ t \in Questions(t.at)
          /\ outcome' \in [kind : {"none", "ok", "url", "txt", "http", "io"},
                           service : Services \cup {"none"}, at : Endpoints, root : Option(Roots)]
      BY <2>1, <2>2, <3>3
    <3>9. QED BY <1>2, <2>3, <3>4, <3>5, <3>6, <3>7, <3>8, <1>11, Zenon DEF DavTypeOK, Statuses
  <2>5. service' # "none" /\ state' = "Srv" /\ outcome'.kind = "none"
    BY <1>1, <2>2 DEF Resolve
  <2>6. QED BY <2>4, <2>5 DEF Control, Idle
<1>5. Learnt'
  BY DEF Resolve, Learnt
<1>6. Survival'
  BY DEF Resolve, Survival, FailedSrvIsSurvived
<1>7. outcome'.kind = "none"
  BY DEF Resolve, NoOutcome, Outcome
<1>8. Staleness'
  BY <1>2, <1>3, <1>7 DEF Resolve, Staleness, inputs
<1>9. RootIsPublished'
  BY <1>7 DEF RootIsPublished, RootIsOfItsService
<1>10. QED BY <1>4, <1>5, <1>6, <1>8, <1>9, <1>12

(* A step that ends a call without a root.                                 *)
LEMMA FailureStep ==
  ASSUME DavInv, ~Idle, Answered \/ Unanswered \/ IoFails,
         NEW kind \in {"url", "txt", "http", "io"}, End(kind, <<>>),
         lookup' \in 1 .. 4, report' \in [Names -> Option(Srv)],
         noSrv' \in BOOLEAN, noSrv' => FailedSrvIsSurvived'
  PROVE  DavInv'
<1> USE DEF DavInv
<1>1. <<>> \in Option(Roots)
  BY DEF Option
<1>2. Control'
  BY <1>1, EndControl
<1>3. /\ state' = "Done" /\ service' = "none" /\ outcome'.kind = kind
      /\ UNCHANGED <<driver, stale>> /\ (~late' => ~late)
  BY <1>1, EndType, Exchange
<1>4. Learnt'
  BY <1>3 DEF Learnt
<1>5. Survival'
  BY <1>3 DEF Survival, FailedSrvIsSurvived, Idle
<1>6. Staleness'
  BY <1>3 DEF Staleness, Idle
<1>7. RootIsPublished'
  BY <1>3 DEF RootIsPublished, RootIsOfItsService
<1>8. Fresh'
  BY <1>3, FreshExchange DEF Idle
<1>9. QED BY <1>2, <1>4, <1>5, <1>6, <1>7, <1>8

(* A step that ends a call with a root.                                    *)
LEMMA RootStep ==
  ASSUME DavInv, ~Idle, Answered, NEW root \in Roots, End("ok", <<root>>),
         UNCHANGED <<lookup, report, noSrv>>,
         ~late' => IsRootOf(root, service, Told) /\ (stale => noSrv)
  PROVE  DavInv'
<1> USE DEF DavInv
<1>1. <<root>> \in Option(Roots) /\ <<root>> # <<>> /\ <<root>>[1] = root
  BY DEF Option
<1>2. Control'
  BY <1>1, EndControl DEF Control, DavTypeOK
<1>3. /\ state' = "Done" /\ service' = "none" /\ UNCHANGED <<world, driver, stale>> /\ (~late' => ~late)
      /\ outcome'.kind = "ok" /\ outcome'.root = <<root>> /\ outcome'.service = service
      /\ trips' = trips \cup {Asked} /\ Asked.step = state /\ Asked.at = Endpoint
  BY <1>1, EndType, Exchange
<1>4. Learnt'
  BY <1>3 DEF Learnt
<1>5. Survival'
  <2>1. SUFFICES ASSUME noSrv PROVE FailedSrvIsSurvived'
    BY <1>3 DEF Survival, FailedSrvIsSurvived, Idle
  <2>2. state = "WellKnown" /\ origin = DomainOrigin
    BY <2>1 DEF Survival
  <2>3. Asked \in trips' /\ Asked.step = "WellKnown" /\ Asked.at = DomainOrigin
    BY <1>3, <2>2 DEF Endpoint
  <2>4. QED BY <2>3 DEF FailedSrvIsSurvived, Steps
<1>6. Staleness'
  BY <1>3 DEF Staleness, Idle
<1>7. RootIsPublished'
  <2>1. Told' = Told /\ Site' = Site
    BY <1>3 DEF Told, Site
  <2>2. QED BY <1>1, <1>3, <2>1 DEF RootIsPublished, RootIsOfItsService, IsRootOf, PathAt, HasNoPath
<1>8. Fresh'
  BY <1>3, FreshExchange DEF Idle
<1>9. QED BY <1>2, <1>4, <1>5, <1>6, <1>7, <1>8

(* A lookup is not answered on a stream closed before the call, unless     *)
(* the stream still held answers.                                          *)
LEMMA StaleIsNotAnswered ==
  ASSUME DavInv, ~Idle, state = "Srv", Answered, ~late'
  PROVE  ~stale
<1>1. ~late /\ pending[Endpoint] = <<>>
  BY Exchange DEF DavInv
<1>2. pool[Endpoint] # "closed"
  BY <1>1, AnswerTaken DEF DavInv
<1>3. QED BY <1>1, <1>2 DEF DavInv, Staleness, Endpoint

LEMMA SrvAnswerStep ==
  ASSUME DavInv, SrvAnswer
  PROVE  DavInv'
<1> USE DEF DavInv
<1>1. ~Idle /\ Answered /\ state = "Srv" /\ lookup \in 1 .. 3 /\ lookup' = lookup + 1
      /\ report' = Found /\ UNCHANGED <<service, state, origin, outcome, noSrv>>
  BY DEF SrvAnswer, Answered, NextLookup, Control, DavTypeOK
<1>2. Found \in [Names -> Option(Srv)]
      /\ (~late' => \A i \in 1 .. 4 : i <= lookup => Found[Lookups[i]] = Site.srv[Lookups[i]])
  BY <1>1, FoundType
<1>3. Control'
  BY <1>1, <1>2, Exchange DEF Control, DavTypeOK, Idle, Statuses
<1>4. UNCHANGED <<world, driver, stale>>
  BY <1>1, Exchange
<1>5. Learnt'
  <2>1. Site' = Site
    BY <1>4 DEF Site
  <2>2. \A i \in 1 .. 4 : i < lookup' => i <= lookup
    BY <1>1
  <2>3. QED BY <1>1, <1>2, <2>1, <2>2 DEF Learnt
<1>6. Survival'
  BY <1>1 DEF Survival, FailedSrvIsSurvived, Idle
<1>7. Staleness'
  BY <1>1, <1>4, StaleIsNotAnswered DEF Staleness
<1>8. RootIsPublished'
  BY <1>1 DEF RootIsPublished, RootIsOfItsService, Control
<1>9. Fresh'
  BY <1>1, FreshExchange
<1>10. QED BY <1>3, <1>5, <1>6, <1>7, <1>8, <1>9

LEMMA LastSrvAnswerStep ==
  ASSUME DavInv, LastSrvAnswer
  PROVE  DavInv'
<1> USE DEF DavInv
<1> DEFINE o == Origin(Found[Secure(service)], Found[Plain(service)])
           txt == TxtName(service, Found)
<1>1. ~Idle /\ Answered /\ state = "Srv" /\ lookup = 4 /\ report' = Found
      /\ UNCHANGED <<lookup, noSrv>> /\ Proceed(o, txt)
  BY DEF LastSrvAnswer, Answered
<1>2. Found \in [Names -> Option(Srv)] /\ (~late' => Found = Site.srv) /\ service \in Services /\ ~noSrv
  BY <1>1, FoundType DEF Control, DavTypeOK, Idle, Survival
<1>3. o \in Origins /\ IsOriginOf(o, service, Found)
  BY <1>2, OriginOf
<1>4. /\ txt = IF Found[NameOf(service, Found)] = <<>> THEN <<>> ELSE <<NameOf(service, Found)>>
      /\ txt # <<>> => txt = TxtName(service, report')
  BY <1>1, <1>2, TxtNameOf
<1> HIDE DEF o, txt
<1>5. CASE End("url", <<>>)
  BY <1>1, <1>2, <1>5, FailureStep DEF Control, DavTypeOK
<1>6. CASE ~End("url", <<>>)
  <2>1. origin' = o /\ state' = (IF txt = <<>> THEN "WellKnown" ELSE "Txt")
        /\ UNCHANGED <<service, outcome>>
    BY <1>1, <1>6 DEF Proceed
  <2>2. Control'
    BY <1>1, <1>2, <1>3, <1>4, ProceedControl DEF Control, DavTypeOK
  <2>3. UNCHANGED <<world, driver, stale>>
    BY <1>1, Exchange
  <2>4. Site' = Site /\ (~late' => Told' = Found) /\ report' = Found /\ noSrv' = noSrv
    BY <1>1, <1>2, <2>3 DEF Site, Told
  <2>5. Learnt'
    <3>0. SUFFICES ASSUME ~late' PROVE Learnt'
      BY DEF Learnt
    <3>1. CASE txt = <<>>
      <4>1. state' = "WellKnown" /\ Found[NameOf(service, Found)] = <<>>
        BY <1>4, <2>1, <3>1
      <4>2. IsOriginOf(origin, service, Told)'
        BY <1>3, <2>1, <2>4, <3>0 DEF IsOriginOf
      <4>3. Told'[NameOf(service', Told')] = <<>>
        BY <2>1, <2>4, <3>0, <4>1
      <4>4. QED BY <4>1, <4>2, <4>3 DEF Learnt
    <3>2. CASE txt # <<>>
      <4>1. state' = "Txt" /\ Found[NameOf(service, Found)] # <<>>
        BY <1>4, <2>1, <3>2
      <4>2. IsOriginOf(origin, service, report)'
        BY <1>3, <2>1, <2>4 DEF IsOriginOf
      <4>3. report' = Site'.srv
        BY <1>2, <2>4, <3>0
      <4>4. QED BY <4>1, <4>2, <4>3 DEF Learnt
    <3>3. QED BY <3>1, <3>2
  <2>6. Survival'
    BY <1>1, <1>2, <2>4 DEF Survival, FailedSrvIsSurvived
  <2>7. Staleness'
    <3>1. ~late' => ~stale
      BY <1>1, StaleIsNotAnswered
    <3>2. QED BY <2>3, <3>1 DEF Staleness
  <2>8. RootIsPublished'
    BY <1>1, <2>1 DEF RootIsPublished, RootIsOfItsService, Control
  <2>9. Fresh'
    BY <1>1, FreshExchange
  <2>10. QED BY <2>2, <2>5, <2>6, <2>7, <2>8, <2>9
<1>7. QED BY <1>5, <1>6

LEMMA SrvFailsStep ==
  ASSUME DavInv, SrvFails
  PROVE  DavInv'
<1> USE DEF DavInv
<1>1. ~Idle /\ Unanswered /\ state = "Srv" /\ Proceed(DomainOrigin, <<>>)
      /\ noSrv' = TRUE /\ UNCHANGED <<report, lookup>>
  BY DEF SrvFails, SkipError, Unanswered
<1>2. service \in Services /\ lookup' \in 1 .. 4 /\ report' \in [Names -> Option(Srv)] /\ noSrv' \in BOOLEAN
  BY <1>1 DEF Control, DavTypeOK, Idle
<1>3. UNCHANGED <<world, driver, stale>> /\ (~late' => ~late) /\ (pool[Resolver] = "closed" => pool'[Resolver] = "closed")
  BY <1>1, Exchange
<1>4. CASE DomainOrigin.host \in Unparsable /\ End("url", <<>>)
  <2>1. FailedSrvIsSurvived'
    BY <1>4 DEF FailedSrvIsSurvived, DomainOrigin
  <2>2. QED BY <1>1, <1>2, <1>4, <2>1, FailureStep
<1>5. CASE ~(DomainOrigin.host \in Unparsable /\ End("url", <<>>))
  <2>1. origin' = DomainOrigin /\ state' = "WellKnown" /\ UNCHANGED <<service, outcome>>
    BY <1>1, <1>5 DEF Proceed
  <2>2. DomainOrigin \in Origins
    BY UrlsAssumption DEF DomainOrigin, Origins
  <2>3. Control'
    BY <1>1, <1>2, <2>2, ProceedControl
  <2>4. Told' = EmptyReport
    BY <1>1 DEF Told
  <2>5. Learnt'
    <3>1. \A n \in Names : EmptyReport[n] = <<>>
      BY DEF EmptyReport
    <3>2. Secure(service) \in Names /\ Plain(service) \in Names
      BY <1>2 DEF Services, Secure, Plain, Names
    <3>3. \A r : <<r>> # <<>>
      OBVIOUS
    <3>4. IsOriginOf(DomainOrigin, service, EmptyReport)
      BY <3>1, <3>2, <3>3 DEF IsOriginOf
    <3>5. IsOriginOf(origin, service, Told)'
      BY <2>1, <2>4, <3>4 DEF IsOriginOf
    <3>6. Told'[NameOf(service', Told')] = <<>>
      BY <2>1, <2>4, <3>1, <3>2 DEF NameOf
    <3>7. QED BY <2>1, <3>5, <3>6 DEF Learnt
  <2>6. ~Idle'
    BY <1>1, <2>1 DEF Idle
  <2>7. Survival'
    BY <2>1, <2>6 DEF Survival, FailedSrvIsSurvived
  <2>8. Staleness'
    BY <1>1, <1>3, <2>1 DEF Staleness, Control
  <2>9. RootIsPublished'
    BY <1>1, <2>1 DEF RootIsPublished, RootIsOfItsService, Control
  <2>10. Fresh'
    BY <1>1, <2>1, FreshExchange
  <2>11. QED BY <2>3, <2>5, <2>7, <2>8, <2>9, <2>10
<1>6. QED BY <1>4, <1>5

LEMMA TxtAnswerStep ==
  ASSUME DavInv, TxtAnswer
  PROVE  DavInv'
<1> USE DEF DavInv
<1> DEFINE name == NameOf(service, report)
           values == TxtOf(Head(Queue))
           path == FirstPath(values)
<1>1. ~Idle /\ Answered /\ state = "Txt" /\ UNCHANGED <<lookup, report, noSrv>>
      /\ service \in Services /\ report \in [Names -> Option(Srv)]
  BY DEF TxtAnswer, Answered, Control, DavTypeOK, Idle
<1>2. ~noSrv
  BY <1>1 DEF Survival
<1>3. name \in Names /\ TxtName(service, report) = <<name>> /\ report[name] # <<>>
  BY <1>1, TxtNameOf DEF Control
<1>4. values \in Seq(Txt)
  BY <1>1, AnswerTaken, AnswerType DEF Control, Endpoint
<1>5. Told = Site.srv
  BY <1>2 DEF Told
<1>6. ASSUME ~late'
      PROVE  values = Site.txt[name] /\ report = Site.srv /\ IsOriginOf(origin, service, report) /\ ~stale
  <2>1. ~late /\ Head(Queue) = Asked
    BY <1>1, <1>6, Exchange, AnswerTaken
  <2>2. values = Site.txt[name]
    BY <1>1, <1>3, <2>1 DEF Asked, TxtOf
  <2>3. QED BY <1>1, <2>1, <2>2 DEF Learnt, Staleness
<1>8. UNCHANGED <<world, driver, stale>>
  BY <1>1, Exchange
<1> HIDE DEF path, values
<1>9. \/ path = <<>> /\ Proceed(origin, <<>>)
      \/ path # <<>> /\ path[1].kind = "bad" /\ End("url", <<>>)
      \/ path # <<>> /\ End("ok", <<Join(origin, path[1])>>)
  BY DEF TxtAnswer, path, values
<1>10. CASE End("url", <<>>)
  BY <1>1, <1>2, <1>10, FailureStep DEF Control, DavTypeOK
<1>11. CASE path # <<>> /\ End("ok", <<Join(origin, path[1])>>)
  <2>1. path \in Option(Txt)
    BY <1>4, FirstPathIsFirst DEF path
  <2>2. PICK i \in DOMAIN values : path[1] = values[i] /\ IsPathOf(values[i], values)
    BY <1>4, <1>11, FirstPathIsFirst DEF path
  <2>3. path = <<path[1]>> /\ path[1] \in Txt
    BY <1>11, <2>1 DEF Option
  <2> DEFINE root == Join(origin, path[1])
  <2>4. origin \in Origins /\ path[1].root \in Roots
    BY <2>3 DEF Control, DavTypeOK, Txt
  <2>5. root \in Roots
    BY <2>4 DEF Join, Roots
  <2>6. ~late' => PathAt(name, root, origin)
    BY <1>6, <2>2 DEF PathAt, Join
  <2> HIDE DEF root
  <2>7. ~late' => IsRootOf(root, service, Told)
    BY <1>3, <1>5, <1>6, <2>4, <2>6 DEF IsRootOf
  <2>8. End("ok", <<root>>)
    BY <1>11 DEF root
  <2>9. QED BY <1>1, <1>6, <2>5, <2>7, <2>8, RootStep
<1>12. CASE path = <<>> /\ Proceed(origin, <<>>) /\ ~End("url", <<>>)
  <2>1. origin' = origin /\ state' = "WellKnown" /\ UNCHANGED <<service, outcome>>
    BY <1>12 DEF Proceed
  <2>2. Control'
    BY <1>1, <1>2, <1>12, ProceedControl DEF Control, DavTypeOK
  <2>3. Site' = Site /\ Told' = Told
    BY <1>1, <1>8 DEF Site, Told
  <2>4. ~late' => HasNoPath(name)
    BY <1>4, <1>6, <1>12, FirstPathIsFirst DEF HasNoPath, path
  <2>5. Learnt'
    <3>1. SUFFICES ASSUME ~late' PROVE Learnt'
      BY DEF Learnt
    <3>2. IsOriginOf(origin, service, Told) /\ HasNoPath(NameOf(service, Told))
      BY <1>5, <1>6, <2>4, <3>1
    <3>3. QED BY <2>1, <2>3, <3>2 DEF Learnt, IsOriginOf, HasNoPath, NameOf
  <2>6. Survival'
    BY <1>1, <1>2 DEF Survival, FailedSrvIsSurvived
  <2>7. Staleness'
    BY <1>6, <1>8 DEF Staleness
  <2>8. RootIsPublished'
    BY <1>1, <2>1 DEF RootIsPublished, RootIsOfItsService, Control
  <2>9. Fresh'
    BY <1>1, <2>1, FreshExchange
  <2>10. QED BY <2>2, <2>5, <2>6, <2>7, <2>8, <2>9
<1>13. QED BY <1>9, <1>10, <1>11, <1>12

LEMMA ProbeAnswerStep ==
  ASSUME DavInv, ProbeAnswer
  PROVE  DavInv'
<1> USE DEF DavInv
<1> DEFINE redirect == RedirectOf(Head(Queue))
           own == [origin |-> origin, path |-> "/"]
<1>1. ~Idle /\ Answered /\ state = "WellKnown" /\ UNCHANGED <<lookup, report, noSrv>>
      /\ service \in Services /\ origin \in Origins
  BY DEF ProbeAnswer, Answered, Control, DavTypeOK, Idle
<1>2. redirect \in Option(Roots) /\ own \in Roots
  BY <1>1, AnswerTaken, AnswerType, UrlsAssumption DEF Control, Roots, Endpoint
<1>3. PICK root \in Roots : RedirectOrOrigin(redirect) = <<root>>
        /\ (redirect = <<root>> \/ (redirect = <<>> /\ root = own))
  BY <1>2 DEF RedirectOrOrigin, Option
<1>4. End("ok", <<root>>)
  BY <1>3 DEF ProbeAnswer
<1>5. ASSUME ~late' PROVE IsRootOf(root, service, Told) /\ (stale => noSrv)
  <2>1. ~late /\ Head(Queue) = Asked
    BY <1>1, <1>5, Exchange, AnswerTaken
  <2>2. redirect = Site.redirect[service][origin]
    BY <1>1, <2>1 DEF Asked, RedirectOf, Endpoint
  <2>3. QED BY <1>1, <1>3, <2>1, <2>2 DEF IsRootOf, Learnt, Staleness
<1>6. QED BY <1>1, <1>4, <1>5, RootStep

LEMMA FailsStep ==
  ASSUME DavInv, TxtFails \/ ProbeFails \/ IoFails
  PROVE  DavInv'
<1> USE DEF DavInv
<1>1. ~Idle /\ (Unanswered \/ IoFails) /\ UNCHANGED <<lookup, report, noSrv>>
      /\ \E kind \in {"txt", "http", "io"} : End(kind, <<>>)
  BY DEF TxtFails, ProbeFails, IoFails, Unanswered
<1>2. ASSUME noSrv PROVE FailedSrvIsSurvived'
  <2>1. state = "WellKnown" /\ origin = DomainOrigin
    BY <1>1, <1>2 DEF Survival
  <2>2. Asked \in trips' /\ Asked.step = "WellKnown" /\ Asked.at = DomainOrigin
    BY <1>1, <2>1, Exchange DEF Endpoint
  <2>3. QED BY <2>2 DEF FailedSrvIsSurvived, Steps
<1>3. lookup' \in 1 .. 4 /\ report' \in [Names -> Option(Srv)] /\ noSrv' \in BOOLEAN
  BY <1>1 DEF Control, DavTypeOK
<1>4. QED BY <1>1, <1>2, <1>3, FailureStep

LEMMA CloseStep ==
  ASSUME DavInv, NEW e \in Endpoints, Close(e)
  PROVE  DavInv'
<1> USE DEF DavInv
<1>1. UNCHANGED <<inputs, service, coroutine, outcome, trips, history>>
      /\ pool' \in [Endpoints -> Statuses] /\ (pool[Resolver] = "closed" => pool'[Resolver] = "closed")
      /\ DOMAIN pending' = Endpoints
      /\ \A f \in Endpoints : pending'[f] = pending[f] \/ pending'[f] = <<>>
  BY EndpointType DEF Close, Control, DavTypeOK, Statuses
<1>2. Site' = Site /\ Told' = Told
  BY <1>1 DEF Site, Told, inputs, history
<1>3. Control'
  <2>1. \A f \in Endpoints : pending'[f] \in Seq(Questions(f))
    <3>1. SUFFICES ASSUME NEW f \in Endpoints PROVE pending'[f] \in Seq(Questions(f))
      OBVIOUS
    <3>2. pending[f] \in Seq(Questions(f)) /\ <<>> \in Seq(Questions(f))
      BY DEF Control, DavTypeOK
    <3>3. QED BY <1>1, <3>2
  <2>2. QED BY <1>1, <2>1 DEF Control, DavTypeOK, Idle, inputs, coroutine, history, Statuses
<1>4. Learnt'
  BY <1>1, <1>2 DEF Learnt, IsOriginOf, HasNoPath, NameOf, inputs, coroutine, history
<1>5. Survival'
  BY <1>1 DEF Survival, FailedSrvIsSurvived, Steps, Idle, inputs, coroutine, history
<1>6. Staleness'
  BY <1>1 DEF Staleness, Idle, inputs, coroutine, history
<1>7. RootIsPublished'
  BY <1>1, <1>2 DEF RootIsPublished, RootIsOfItsService, IsRootOf, PathAt, HasNoPath, history
<1>8. Fresh'
  BY <1>1 DEF Fresh, Idle, Endpoints, inputs, coroutine, history
<1>9. QED BY <1>3, <1>4, <1>5, <1>6, <1>7, <1>8

LEMMA StutterStep ==
  ASSUME DavInv, UNCHANGED vars
  PROVE  DavInv'
<1> USE DEF DavInv
<1>1. UNCHANGED <<inputs, service, coroutine, streams, outcome, trips, history>>
  BY DEF vars
<1>2. Site' = Site /\ Told' = Told
  BY <1>1 DEF Site, Told, inputs, history
<1>3. Control'
  BY <1>1 DEF Control, DavTypeOK, Idle, inputs, coroutine, history, streams
<1>4. Learnt'
  BY <1>1, <1>2 DEF Learnt, IsOriginOf, HasNoPath, NameOf, inputs, coroutine, history, streams
<1>5. Survival'
  BY <1>1 DEF Survival, FailedSrvIsSurvived, Steps, Idle, inputs, coroutine, history, streams
<1>6. Staleness'
  BY <1>1 DEF Staleness, Idle, inputs, coroutine, history, streams
<1>7. RootIsPublished'
  BY <1>1, <1>2 DEF RootIsPublished, RootIsOfItsService, IsRootOf, PathAt, HasNoPath, history
<1>8. Fresh'
  BY <1>1 DEF Fresh, Idle, inputs, coroutine, history, streams
<1>9. QED BY <1>3, <1>4, <1>5, <1>6, <1>7, <1>8

LEMMA DavInit == Init => DavInv
<1> SUFFICES ASSUME Init PROVE DavInv
  OBVIOUS
<1>1. EmptyReport \in [Names -> Option(Srv)] /\ DomainOrigin \in Origins
      /\ NoPool \in [Endpoints -> {"absent", "open", "closed"}]
  BY UrlsAssumption DEF EmptyReport, Option, DomainOrigin, Origins, NoPool
<1>2. /\ NoOutcome \in [kind : {"none", "ok", "url", "txt", "http", "io"},
                        service : Services \cup {"none"}, at : Endpoints, root : Option(Roots)]
      /\ NoOutcome.kind = "none"
  BY DEF NoOutcome, Outcome, Endpoints, Option
<1>3. noSrv \in BOOLEAN /\ stale \in BOOLEAN /\ late \in BOOLEAN /\ calls \in 0 .. MaxCalls
  <2>1. 0 \in 0 .. MaxCalls
    BY DavCallsAssumption
  <2>2. QED BY <2>1, Zenon DEF Init
<1>4. Control
  <2>1. DOMAIN pending = Endpoints /\ \A e \in Endpoints : pending[e] \in Seq(Questions(e))
    BY DEF Init, NothingPending
  <2>2. QED BY <1>1, <1>2, <1>3, <2>1 DEF Init, Control, DavTypeOK, Idle
<1>5. RootIsPublished
  BY <1>2 DEF Init, RootIsPublished, RootIsOfItsService
<1>6. QED BY <1>2, <1>4, <1>5 DEF Init, DavInv, Learnt, Survival, FailedSrvIsSurvived, Staleness, Fresh, Idle

LEMMA DavNext == DavInv /\ [Next]_vars => DavInv'
<1> SUFFICES ASSUME DavInv, [Next]_vars PROVE DavInv'
  OBVIOUS
<1>1. CASE \E s \in Services : Resolve(s)
  BY <1>1, ResolveStep
<1>2. CASE SrvAnswer \/ LastSrvAnswer \/ SrvFails
  BY <1>2, SrvAnswerStep, LastSrvAnswerStep, SrvFailsStep
<1>3. CASE TxtAnswer \/ ProbeAnswer
  BY <1>3, TxtAnswerStep, ProbeAnswerStep
<1>4. CASE TxtFails \/ ProbeFails \/ IoFails
  BY <1>4, FailsStep
<1>5. CASE \E e \in Endpoints : Close(e)
  BY <1>5, CloseStep
<1>6. CASE UNCHANGED vars
  BY <1>6, StutterStep
<1>7. QED BY <1>1, <1>2, <1>3, <1>4, <1>5, <1>6 DEF Next, Step, NoMoreCalls

LEMMA DavInvariant == Spec => []DavInv
BY DavInit, DavNext, PTL DEF Spec

-----------------------------------------------------------------------------
(* The variables of the resolve keep their types.                          *)
THEOREM DavTypeCorrect == Spec => []DavTypeOK
<1>1. DavInv => DavTypeOK
  BY DEF DavInv, Control
<1>2. QED BY <1>1, DavInvariant, PTL

(* For any zone and any failures on the way: a call that used no stream on *)
(* which an earlier one left an answer resolves to what the records, the   *)
(* TXT path and the redirect of its service give (resolve.rs:3).           *)
THEOREM ResolvesToPublished == Spec => []RootIsPublished
<1>1. DavInv => RootIsPublished
  BY DEF DavInv
<1>2. QED BY <1>1, DavInvariant, PTL

(* Failed lookups never end a call before the domain itself is probed      *)
(* (the note at resolve.rs:151).                                           *)
THEOREM SrvFailureIsSurvived == Spec => []FailedSrvIsSurvived
<1>1. DavInv => FailedSrvIsSurvived
  BY DEF DavInv, Survival
<1>2. QED BY <1>1, DavInvariant, PTL

(* A root that a client returns after its resolver closed the stream, with *)
(* every answer read, is the domain's own (pool.rs:163); the compose meets *)
(* neither such a stream at a start nor an answer to an earlier query.     *)
THEOREM StaleClientResolvesDomain == Spec => []StaleMeansDomain
<1>1. DavInv => StaleMeansDomain
  BY DEF DavInv, Staleness, Fresh, RootIsPublished, RootIsOfItsService, Told, StaleMeansDomain
<1>2. QED BY <1>1, DavInvariant, PTL

-----------------------------------------------------------------------------
(* What the running call has asked so far: its probe is its last exchange, *)
(* and it asks for a path once, of the name that gave the origin.          *)
Journey ==
  ~Idle =>
    /\ Steps("WellKnown") = {}
    /\ state # "WellKnown" => Steps("Txt") = {}
    /\ state = "WellKnown" /\ ~late =>
         \A t \in Steps("Txt") :
           t.name = NameOf(service, Told) /\ Told[t.name] # <<>> /\ HasNoPath(t.name)

JourneyInv == DavInv /\ Journey /\ AsksWhatItNeeds

(* What an exchange adds to the record of them.                            *)
LEMMA ExchangeSteps ==
  ASSUME DavInv, ~Idle, Answered \/ Unanswered \/ IoFails
  PROVE  /\ \A step : Steps(step)' = IF step = state THEN Steps(step) \cup {Asked} ELSE Steps(step)
         /\ Site' = Site /\ (noSrv' = noSrv => Told' = Told) /\ (~late' => ~late)
<1>1. trips' = trips \cup {Asked} /\ Asked.step = state /\ world' = world /\ (~late' => ~late)
  BY Exchange DEF DavInv
<1>2. QED BY <1>1 DEF Steps, Site, Told

LEMMA JourneyStep == JourneyInv /\ [Next]_vars => JourneyInv'
<1> SUFFICES ASSUME JourneyInv, [Next]_vars PROVE JourneyInv'
  OBVIOUS
<1> USE DEF JourneyInv
<1>0. DavInv'
  BY DavNext
<1>1. CASE \E s \in Services : Resolve(s)
  <2>1. trips' = {} /\ outcome'.kind = "none"
    BY <1>1 DEF Resolve, NoOutcome, Outcome
  <2>2. \A step : Steps(step)' = {}
    BY <2>1 DEF Steps
  <2>3. QED BY <1>0, <2>1, <2>2 DEF Journey, AsksWhatItNeeds
<1>2. CASE SrvAnswer
  <2>1. ~Idle /\ Answered /\ state = "Srv" /\ state' = "Srv" /\ outcome' = outcome
    BY <1>2 DEF SrvAnswer, Answered
  <2>2. Steps("Txt")' = {} /\ Steps("WellKnown")' = {}
    BY <2>1, ExchangeSteps DEF Journey
  <2>3. outcome'.kind # "ok"
    BY <2>1 DEF DavInv, Control
  <2>4. QED BY <1>0, <2>1, <2>2, <2>3 DEF Journey, AsksWhatItNeeds
<1>3. CASE LastSrvAnswer \/ SrvFails
  <2>1. ~Idle /\ (Answered \/ Unanswered) /\ state = "Srv"
    BY <1>3 DEF LastSrvAnswer, SrvFails, Answered, Unanswered
  <2>2. Steps("Txt")' = {} /\ Steps("WellKnown")' = {}
    BY <2>1, ExchangeSteps DEF Journey
  <2>3. End("url", <<>>) \/ outcome' = outcome
    BY <1>3 DEF LastSrvAnswer, SrvFails, SkipError, Proceed
  <2>4. outcome'.kind # "ok"
    BY <2>1, <2>3 DEF DavInv, Control, End, Outcome
  <2>5. QED BY <1>0, <2>2, <2>4 DEF Journey, AsksWhatItNeeds
<1>4. CASE TxtAnswer
  <2> DEFINE name == NameOf(service, report)
  <2>1. ~Idle /\ Answered /\ state = "Txt" /\ UNCHANGED <<lookup, report, noSrv>>
        /\ service \in Services /\ report \in [Names -> Option(Srv)]
    BY <1>4 DEF TxtAnswer, Answered, DavInv, Control, DavTypeOK, Idle
  <2>2. report[name] # <<>> /\ (~late => Told = report)
    BY <2>1, TxtNameOf DEF DavInv, Control, Learnt, Survival, Told
  <2>3. Asked.name = name
    BY <2>1, <2>2, TxtNameOf DEF Asked
  <2>4. Steps("Txt")' = {Asked} /\ Steps("WellKnown")' = {} /\ Told' = Told /\ Site' = Site
        /\ (~late' => ~late)
    BY <2>1, ExchangeSteps DEF Journey
  <2>5. \/ state' = "WellKnown" /\ service' = service /\ outcome' = outcome
        \/ Idle' /\ outcome'.service = service
    BY <1>4 DEF TxtAnswer, Proceed, End, Idle, Outcome
  <2>6. CASE state' = "WellKnown" /\ service' = service /\ outcome' = outcome
    <3>1. ASSUME ~late' PROVE HasNoPath(name)
      <4>1. Told' = report /\ Told'[NameOf(service', Told')] # <<>>
        BY <2>2, <2>4, <2>6, <3>1
      <4>2. (HasNoPath(NameOf(service, Told)))'
        BY <1>0, <2>6, <3>1, <4>1 DEF DavInv, Learnt
      <4>3. QED BY <2>4, <2>6, <4>1, <4>2 DEF HasNoPath
    <3>4. Journey'
      BY <2>2, <2>3, <2>4, <2>6, <3>1 DEF Journey, HasNoPath
    <3>5. outcome'.kind # "ok"
      BY <2>1, <2>6 DEF DavInv, Control
    <3>6. QED BY <1>0, <3>4, <3>5 DEF AsksWhatItNeeds
  <2>7. CASE Idle' /\ outcome'.service = service
    BY <1>0, <2>2, <2>3, <2>4, <2>7 DEF Journey, AsksWhatItNeeds
  <2>8. QED BY <2>5, <2>6, <2>7
<1>5. CASE ProbeAnswer
  <2>1. ~Idle /\ Answered /\ state = "WellKnown" /\ UNCHANGED <<lookup, report, noSrv>>
    BY <1>5 DEF ProbeAnswer, Answered
  <2>2. Asked.at = origin /\ (~late => IsOriginOf(origin, service, Told))
    BY <2>1, Exchange DEF DavInv, Learnt, Endpoint
  <2>3. /\ Steps("Txt")' = Steps("Txt") /\ Steps("WellKnown")' = {Asked}
        /\ Told' = Told /\ Site' = Site /\ (~late' => ~late)
    BY <2>1, ExchangeSteps DEF Journey
  <2>4. Idle' /\ outcome'.service = service
    BY <1>5 DEF ProbeAnswer, End, Idle, Outcome
  <2>5. ~late => \A t \in Steps("Txt") :
          t.name = NameOf(service, Told) /\ Told[t.name] # <<>> /\ HasNoPath(t.name)
    BY <2>1 DEF Journey
  <2>6. AsksWhatItNeeds'
    BY <2>2, <2>3, <2>4, <2>5 DEF AsksWhatItNeeds, IsOriginOf, HasNoPath
  <2>7. QED BY <1>0, <2>4, <2>6 DEF Journey
<1>6. CASE TxtFails \/ ProbeFails \/ IoFails
  <2>1. Idle' /\ outcome'.kind # "ok"
    BY <1>6 DEF TxtFails, ProbeFails, IoFails, End, Idle, Outcome
  <2>2. QED BY <1>0, <2>1 DEF Journey, AsksWhatItNeeds
<1>7. CASE (\E e \in Endpoints : Close(e)) \/ UNCHANGED vars
  <2>1. UNCHANGED <<inputs, service, coroutine, outcome, trips, history>>
    BY <1>7 DEF Close, vars
  <2>2. Site' = Site /\ Told' = Told /\ (\A step : Steps(step)' = Steps(step)) /\ (Idle' <=> Idle)
    BY <2>1 DEF Site, Told, Steps, Idle, inputs, history
  <2>3. Journey'
    BY <2>1, <2>2 DEF Journey, HasNoPath, coroutine, history
  <2>4. AsksWhatItNeeds'
    BY <2>1, <2>2 DEF AsksWhatItNeeds, HasNoPath, IsOriginOf, history
  <2>5. QED BY <1>0, <2>3, <2>4
<1>8. QED BY <1>1, <1>2, <1>3, <1>4, <1>5, <1>6, <1>7 DEF Next, Step, NoMoreCalls

(* A call that used no stream on which an earlier one left an answer asks  *)
(* for a path only of the name whose records gave the origin, probes only  *)
(* when that name holds none, and only that origin (resolve.rs:11).        *)
THEOREM NeedlessIsNotAsked == Spec => []AsksWhatItNeeds
<1>1. Init => JourneyInv
  <2>1. Init => Idle /\ outcome.kind = "none"
    BY DEF Init, Idle, NoOutcome, Outcome
  <2>2. QED BY <2>1, DavInit DEF JourneyInv, Journey, AsksWhatItNeeds
<1>2. JourneyInv => AsksWhatItNeeds
  BY DEF JourneyInv
<1>3. QED BY <1>1, <1>2, JourneyStep, PTL DEF Spec
=============================================================================
