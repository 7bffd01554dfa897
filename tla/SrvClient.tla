----------------------------- MODULE SrvClient ------------------------------
(***************************************************************************)
(* DiscoverySrvClientStd (rfc6186/client.rs): discover, called again and   *)
(* again on one client, runs the three lookups of RFC 6186 in series       *)
(* (rfc6186/discover.rs) over the stream its pool keeps (shared/pool.rs).  *)
(* An exchange takes the first whole message it reads (DnsExchange); here  *)
(* messages are queries and answers.  Every query has the id 1: only its   *)
(* place on the stream tells whose answer an answer is.                    *)
(***************************************************************************)
EXTENDS Integers, Sequences

CONSTANTS
  Domain,    \* the domains asked about
  Record,    \* SRV records: [host, port, priority, weight, root]
  Answers,   \* [Domain -> [Lookup -> Seq(Record)]], what the resolver answers
  Malformed, \* the queries whose name is no DNS name
  NoDomain,  \* the argument while no call runs
  MaxCalls   \* bound: calls of discover

Lookup == 1 .. 3  \* _imap, _imaps, _submission

(* The priority and the weight are u16.                                    *)
MaxU16 == 65535

ASSUME RecordAssumption ==
  \A r \in Record : r.priority \in 0 .. MaxU16 /\ r.weight \in 0 .. MaxU16
ASSUME AnswersAssumption == Answers \in [Domain -> [Lookup -> Seq(Record)]]
ASSUME DomainAssumption == NoDomain \notin Domain
ASSUME CallsAssumption == MaxCalls \in Nat

VARIABLES
  domain,   \* the argument of the running call
  lookup,   \* the state of the coroutine: which lookup
  reading,  \* whether the query of the lookup is written
  report,   \* [Lookup -> <<>> or <<record>>], the report being assembled
  stream,   \* the pool's: "absent", "open", or "closed" by the resolver
  asked,    \* the queries on their way to the resolver
  wire,     \* the answers on their way back, as the queries they answer
  outcome,  \* how the last call ended, for which domain, with which report
  late,     \* history: a read failed, an answer may still come
  calls     \* history: the calls so far

callVars == <<domain, lookup, reading, report>>
netVars == <<stream, asked, wire>>
vars == <<callVars, netVars, outcome, late, calls>>

Query == [domain : Domain, lookup : Lookup]

Option(S) == {<<>>} \cup {<<s>> : s \in S}

Report == [Lookup -> Option(Record)]

EmptyReport == [l \in Lookup |-> <<>>]

(* The control state: everything but what the reports hold.                *)
SrvControlOK ==
  /\ domain \in Domain \cup {NoDomain}
  /\ lookup \in Lookup /\ reading \in BOOLEAN
  /\ report = [l \in Lookup |-> report[l]]
  /\ stream \in {"absent", "open", "closed"}
  /\ asked \in Seq(Query) /\ wire \in Seq(Query)
  /\ stream # "open" => asked = <<>>
  /\ late \in BOOLEAN /\ calls \in 0 .. MaxCalls

(* The types of the variables.                                             *)
SrvTypeOK ==
  /\ SrvControlOK
  /\ report \in Report
  /\ outcome \in [kind : {"none", "report", "pool", "io", "dns"},
                  domain : Domain \cup {NoDomain}, report : Report]

-----------------------------------------------------------------------------
(* Mutant: the weights ascending.                                          *)
BeforeLight(a, b) == a.priority < b.priority \/ (a.priority = b.priority /\ a.weight < b.weight)

(* The comparison of the sort: ascending priority, descending weight.      *)
Before(a, b) == a.priority < b.priority \/ (a.priority = b.priority /\ a.weight > b.weight)

(* The places of the records that are not dropped for a root target.       *)
Usable(records) == {i \in DOMAIN records : ~records[i].root}

(* The record a stable sort of them puts first.                            *)
IsFirst(i, records) ==
  \A j \in Usable(records) :
    ~Before(records[j], records[i]) /\ (j < i => Before(records[i], records[j]))

Best(records) ==
  IF Usable(records) = {} THEN <<>>
  ELSE <<records[CHOOSE i \in Usable(records) : IsFirst(i, records)]>>

Init ==
  /\ domain = NoDomain /\ lookup = 1 /\ reading = FALSE /\ report = EmptyReport
  /\ stream = "absent" /\ asked = <<>> /\ wire = <<>>
  /\ outcome = [kind |-> "none", domain |-> NoDomain, report |-> EmptyReport]
  /\ late = FALSE /\ calls = 0

-----------------------------------------------------------------------------
Idle == domain = NoDomain

Current == [domain |-> domain, lookup |-> lookup]

(* discover: a fresh coroutine, the pool of the calls before.              *)
Discover(d) ==
  /\ Idle /\ calls < MaxCalls
  /\ domain' = d /\ lookup' = 1 /\ reading' = FALSE /\ report' = EmptyReport
  /\ outcome' = [kind |-> "none", domain |-> NoDomain, report |-> EmptyReport]
  /\ calls' = calls + 1
  /\ UNCHANGED <<netVars, late>>

(* The call returns; the coroutine is dropped.                             *)
End(kind, result) ==
  /\ outcome' = [kind |-> kind, domain |-> domain, report |-> result]
  /\ domain' = NoDomain
  /\ UNCHANGED <<lookup, reading, report>>

Fail(kind) == End(kind, EmptyReport)

(* BuildQuery: the name does not parse, or the query does not fit.         *)
Rejected == Current \in Malformed

RejectQuery ==
  /\ ~Idle /\ ~reading /\ Rejected
  /\ Fail("dns")
  /\ UNCHANGED <<netVars, late, calls>>

OpenFails ==
  /\ ~Idle /\ ~reading /\ ~Rejected /\ stream = "absent"
  /\ Fail("pool")
  /\ UNCHANGED <<netVars, late, calls>>

(* Mutant of pool.get: a stream the peer closed is opened anew.            *)
Reopened(s) == "open"

(* pool.get: what is in the pool, open or not, else a new stream.          *)
Pooled(s) == IF s = "absent" THEN "open" ELSE s

(* A write to a closed stream may go nowhere without an error.             *)
Ask ==
  /\ ~Idle /\ ~reading /\ ~Rejected
  /\ stream' = Pooled(stream)
  /\ asked' = IF stream' = "open" THEN Append(asked, Current) ELSE asked
  /\ reading' = TRUE
  /\ UNCHANGED <<domain, lookup, report, wire, outcome, late, calls>>

(* write_all fails with nothing written, or with the stream lost.          *)
WriteFails ==
  /\ ~Idle /\ ~reading /\ ~Rejected
  /\ stream' \in {Pooled(stream), "closed"}
  /\ asked' = IF stream' = "open" THEN asked ELSE <<>>
  /\ Fail("io")
  /\ UNCHANGED <<wire, late, calls>>

-----------------------------------------------------------------------------
(* Mutant: every lookup fills the first slot.                              *)
SlotOne(l) == 1
Slot(l) == l

(* Mutants: the last state missed, and two states that follow one another. *)
LastPastThird(l) == l > 3
LastLookup(l) == l = 3

NextLookupBack(l) == IF l = 1 THEN 2 ELSE 1
NextLookup(l) == l + 1

(* Mutant: the answer is left to be read again.                            *)
TakeLess(n) == wire' = SubSeq(wire, n, Len(wire))

(* One read brings one whole answer or more; the exchange keeps the first. *)
Take(n) == wire' = SubSeq(wire, n + 1, Len(wire))

ReadAnswer ==
  /\ ~Idle /\ reading
  /\ \E n \in 1 .. Len(wire) : Take(n)
  /\ LET answer == Head(wire)
         filled == [report EXCEPT ![Slot(lookup)] = Best(Answers[answer.domain][answer.lookup])]
     IN  \/ /\ LastLookup(lookup)
            /\ End("report", filled)
         \/ /\ ~LastLookup(lookup)
            /\ report' = filled /\ lookup' = NextLookup(lookup) /\ reading' = FALSE
            /\ UNCHANGED <<domain, outcome>>
  /\ UNCHANGED <<stream, asked, late, calls>>

(* An answer that cannot be parsed ends the call (InvalidResponse).        *)
ReadGarbage ==
  /\ ~Idle /\ reading
  /\ \E n \in 1 .. Len(wire) : Take(n)
  /\ Fail("dns")
  /\ UNCHANGED <<stream, asked, late, calls>>

(* The empty read of a closed stream: Eof.                                 *)
ReadEnd ==
  /\ ~Idle /\ reading /\ stream = "closed" /\ wire = <<>>
  /\ Fail("dns")
  /\ UNCHANGED <<netVars, late, calls>>

(* A read that fails, by a timeout the caller's factory set or otherwise,  *)
(* returns the error; the stream stays in the pool.                        *)
ReadFails ==
  /\ ~Idle /\ reading
  /\ Fail("io")
  /\ late' = TRUE
  /\ UNCHANGED <<netVars, calls>>

-----------------------------------------------------------------------------
(* The resolver answers in order, and closes when it likes.                *)
Reply ==
  /\ stream = "open" /\ asked # <<>>
  /\ wire' = Append(wire, Head(asked))
  /\ asked' = Tail(asked)
  /\ UNCHANGED <<callVars, stream, outcome, late, calls>>

Close ==
  /\ stream = "open"
  /\ stream' = "closed" /\ asked' = <<>>
  /\ UNCHANGED <<callVars, wire, outcome, late, calls>>

Proceed == RejectQuery \/ OpenFails \/ Ask \/ WriteFails \/ ReadAnswer \/ ReadGarbage \/ ReadEnd

NoMoreCalls == Idle /\ calls = MaxCalls /\ UNCHANGED vars

Next ==
  \/ \E d \in Domain : Discover(d)
  \/ Proceed \/ ReadFails
  \/ Reply \/ Close
  \/ NoMoreCalls

Spec == Init /\ [][Next]_vars

(* The driver's loop does not pause and a resolver answers what it was     *)
(* asked, or has closed.  Nothing makes a read fail.                       *)
Fairness == WF_vars(Proceed) /\ WF_vars(Reply)

FairSpec == Spec /\ Fairness
-----------------------------------------------------------------------------
(* The doc of discover (client.rs:79): the lookups are run on the domain   *)
(* and the best record is returned per service.                            *)
AnswersOf(d) == [l \in Lookup |-> Best(Answers[d][l])]

RunsOnDomain == outcome.kind = "report" => outcome.report = AnswersOf(outcome.domain)

(* It holds while no read fails: the three lookups, and the calls, never   *)
(* mix up their answers on the stream they share, whatever ends a call.    *)
OnTimeAnswersAreOwn == ~late => RunsOnDomain

(* Between two calls, and between two lookups, nothing is left on the      *)
(* stream that a later exchange could take for its answer.                 *)
InStep ==
  ~late =>
    /\ Idle \/ ~reading => asked = <<>> /\ wire = <<>>
    /\ ~Idle /\ reading =>
         \/ asked \o wire = <<Current>>
         \/ stream = "closed" /\ asked = <<>> /\ wire = <<>>

(* A slot of an on-time report is empty only if every target is the root   *)
(* ("service not available", srv.rs:182), and else holds a record that no  *)
(* other usable one precedes.                                              *)
SlotsAreBest ==
  (outcome.kind = "report" /\ ~late) =>
    \A l \in Lookup :
      LET answer == Answers[outcome.domain][l]
          usable == {answer[i] : i \in {j \in DOMAIN answer : ~answer[j].root}}
          slot == outcome.report[l]
      IN  IF usable = {} THEN slot = <<>>
          ELSE /\ slot # <<>> /\ slot[1] \in usable
               /\ \A r \in usable :
                    \/ slot[1].priority < r.priority
                    \/ slot[1].priority = r.priority /\ slot[1].weight >= r.weight

(* The pool never replaces a stream (pool.rs:163): once the resolver has   *)
(* closed it and the last answer is read, no call on this client succeeds. *)
ClosedForGood ==
  [][stream = "closed" =>
       /\ stream' = "closed"
       /\ wire = <<>> => wire' = <<>> /\ (outcome' = outcome \/ outcome'.kind # "report")]_vars

(* A call ends when the resolver answers or closes.                        *)
Termination == ~Idle ~> (Idle \/ late)
=============================================================================
