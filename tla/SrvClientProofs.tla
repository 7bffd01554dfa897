--------------------------- MODULE SrvClientProofs --------------------------
(***************************************************************************)
(* Proofs about SrvClient for any domains, records and answers, and any    *)
(* number of calls: first that the exchanges stay in step, where what Best *)
(* computes does not matter; then what Best computes, and so what a report *)
(* holds.                                                                  *)
(***************************************************************************)
EXTENDS SrvClient, SequenceTheorems, WellFoundedInduction, TLAPS

(* While no read failed: the slots of the lookups done hold the answers to *)
(* the running call, and the last report answered its own.                 *)
ReportInv ==
  ~late =>
    /\ ~Idle => \A l \in Lookup : l < lookup => report[l] = Best(Answers[domain][l])
    /\ RunsOnDomain

SrvInv == SrvControlOK /\ InStep /\ ReportInv

LEMMA SrvInit == Init => SrvInv
<1> SUFFICES ASSUME Init PROVE SrvInv
  OBVIOUS
<1>1. SrvControlOK
  <2>1. report = [l \in Lookup |-> report[l]]
    BY DEF Init, EmptyReport
  <2>2. <<>> \in Seq(Query) /\ 0 \in 0 .. MaxCalls /\ 1 \in Lookup
    BY CallsAssumption DEF Lookup
  <2>3. QED BY <2>1, <2>2 DEF Init, SrvControlOK
<1>2. InStep
  BY DEF Init, InStep, Idle
<1>3. ReportInv
  BY DEF Init, ReportInv, Idle, RunsOnDomain
<1>4. QED BY <1>1, <1>2, <1>3 DEF SrvInv

(* What an exchange in step finds on the stream when there is something.   *)
LEMMA OwnAnswer ==
  ASSUME SrvInv, ~late, ~Idle, reading, NEW n \in 1 .. Len(wire)
  PROVE  /\ asked = <<>> /\ Head(wire) = Current
         /\ SubSeq(wire, n + 1, Len(wire)) = <<>>
<1>1. Current \in Query /\ asked \in Seq(Query) /\ wire \in Seq(Query) /\ Len(wire) >= 1
  BY DEF SrvInv, SrvControlOK, Idle, Current, Query
<1>2. asked \o wire = <<Current>>
  BY <1>1 DEF SrvInv, InStep
<1>3. Len(asked) + Len(wire) = 1
  <2>1. Len(asked \o wire) = Len(asked) + Len(wire)
    BY <1>1, ConcatProperties
  <2>2. Len(<<Current>>) = 1
    OBVIOUS
  <2>3. QED BY <1>2, <2>1, <2>2
<1>4. Len(wire) = 1 /\ Len(asked) = 0
  BY <1>1, <1>3
<1>5. asked = <<>>
  BY <1>1, <1>4, EmptySeq
<1>6. wire = <<Current>>
  <2>1. <<>> \o wire = wire
    BY <1>1, ConcatEmptySeq
  <2>2. QED BY <1>2, <1>5, <2>1
<1>7. n = 1
  BY <1>4
<1>8. SubSeq(wire, n + 1, Len(wire)) = <<>>
  BY <1>4, <1>7, SubSeqEmpty
<1>9. QED BY <1>5, <1>6, <1>8

(* An answer taken from the stream leaves a sequence of queries there.     *)
LEMMA TakenType ==
  ASSUME SrvControlOK, NEW n \in 1 .. Len(wire), Take(n)
  PROVE  wire' \in Seq(Query)
<1>1. wire \in Seq(Query) /\ Len(wire) \in Nat
  BY DEF SrvControlOK
<1>2. \A i \in n + 1 .. Len(wire) : wire[i] \in Query
  BY <1>1
<1>3. SubSeq(wire, n + 1, Len(wire)) \in Seq(Query)
  BY <1>1, <1>2, SubSeqProperties
<1>4. QED BY <1>3 DEF Take

LEMMA SrvStep == SrvInv /\ [Next]_vars => SrvInv'
<1> SUFFICES ASSUME SrvInv, [Next]_vars PROVE SrvInv'
  OBVIOUS
<1> USE DEF callVars, netVars
<1>e. /\ <<>> \in Seq(Query)
      /\ EmptyReport = [l \in Lookup |-> EmptyReport[l]]
  BY DEF EmptyReport
<1>1. ASSUME NEW d \in Domain, Discover(d)
      PROVE  SrvInv'
  <2>1. SrvControlOK'
    <3>1. report' = EmptyReport /\ lookup' = 1 /\ calls' \in 0 .. MaxCalls
      BY <1>1, CallsAssumption DEF Discover, SrvInv, SrvControlOK
    <3>2. report' = [l \in Lookup |-> report'[l]]
      BY <1>e, <3>1
    <3>3. 1 \in Lookup
      BY DEF Lookup
    <3>4. QED BY <1>1, <3>1, <3>2, <3>3 DEF Discover, SrvInv, SrvControlOK
  <2>2. InStep'
    BY <1>1 DEF Discover, SrvInv, InStep, Idle
  <2>3. ReportInv'
    BY <1>1 DEF Discover, ReportInv, RunsOnDomain, Lookup
  <2>4. QED BY <2>1, <2>2, <2>3 DEF SrvInv
<1>2. CASE RejectQuery \/ OpenFails \/ WriteFails \/ ReadEnd \/ ReadFails
  <2>1. SrvControlOK'
    BY <1>2, <1>e DEF RejectQuery, OpenFails, WriteFails, ReadEnd, ReadFails, Fail, End, Pooled,
                      SrvInv, SrvControlOK
  <2>2. InStep'
    <3>1. Idle' /\ wire' = wire
      BY <1>2 DEF RejectQuery, OpenFails, WriteFails, ReadEnd, ReadFails, Fail, End, Idle
    <3>2. CASE ReadFails
      BY <3>2 DEF ReadFails, InStep
    <3>3. CASE RejectQuery \/ OpenFails \/ WriteFails \/ ReadEnd
      <4>1. late' = late /\ (asked' = asked \/ asked' = <<>>)
        BY <3>3 DEF RejectQuery, OpenFails, WriteFails, ReadEnd
      <4>2. ~late => asked = <<>> /\ wire = <<>>
        BY <3>3 DEF RejectQuery, OpenFails, WriteFails, ReadEnd, SrvInv, SrvControlOK, InStep
      <4>3. QED BY <3>1, <4>1, <4>2 DEF InStep
    <3>4. QED BY <1>2, <3>2, <3>3
  <2>3. ReportInv'
    BY <1>2 DEF RejectQuery, OpenFails, WriteFails, ReadEnd, ReadFails, Fail, End, ReportInv, Idle,
                RunsOnDomain
  <2>4. QED BY <2>1, <2>2, <2>3 DEF SrvInv
<1>3. CASE Ask
  <2>1. Current \in Query
    BY <1>3 DEF Ask, SrvInv, SrvControlOK, Idle, Current, Query
  <2>2. SrvControlOK'
    <3>1. Append(asked, Current) \in Seq(Query)
      BY <2>1 DEF SrvInv, SrvControlOK
    <3>2. QED BY <1>3, <3>1 DEF Ask, Pooled, SrvInv, SrvControlOK
  <2>3. InStep'
    <3>1. SUFFICES ASSUME ~late
                   PROVE  \/ asked' \o wire' = <<Current>>
                          \/ stream' = "closed" /\ asked' = <<>> /\ wire' = <<>>
      BY <1>3 DEF Ask, InStep, Current, Idle
    <3>2. asked = <<>> /\ wire = <<>> /\ wire' = <<>>
      BY <1>3, <3>1 DEF Ask, SrvInv, InStep
    <3>3. CASE stream' = "open"
      <4>1. asked' = <<Current>>
        BY <1>3, <3>2, <3>3 DEF Ask
      <4>2. <<Current>> \in Seq(Query)
        BY <2>1
      <4>3. <<Current>> \o <<>> = <<Current>>
        BY <4>2, ConcatEmptySeq
      <4>4. QED BY <3>2, <4>1, <4>3
    <3>4. CASE stream' # "open"
      <4>1. stream' = "closed"
        BY <2>2, <3>4, <1>3 DEF Ask, SrvControlOK, Pooled
      <4>2. asked' = asked
        BY <1>3, <3>4 DEF Ask
      <4>3. QED BY <3>2, <4>1, <4>2
    <3>5. QED BY <3>3, <3>4
  <2>4. ReportInv'
    BY <1>3 DEF Ask, SrvInv, ReportInv, Idle, RunsOnDomain, AnswersOf
  <2>5. QED BY <2>2, <2>3, <2>4 DEF SrvInv
<1>4. CASE ReadAnswer
  <2> USE DEF Slot, LastLookup, NextLookup
  <2>1. PICK n \in 1 .. Len(wire) : Take(n)
    BY <1>4 DEF ReadAnswer
  <2> DEFINE answer == Head(wire)
             filled == [report EXCEPT ![lookup] = Best(Answers[answer.domain][answer.lookup])]
  <2>2. \/ lookup = 3 /\ End("report", filled)
        \/ /\ lookup # 3 /\ report' = filled /\ lookup' = lookup + 1 /\ reading' = FALSE
           /\ UNCHANGED <<domain, outcome>>
    BY <1>4 DEF ReadAnswer
  <2>3. /\ ~Idle /\ reading
        /\ stream' = stream /\ asked' = asked /\ late' = late /\ calls' = calls
    BY <1>4 DEF ReadAnswer
  <2>4. wire' \in Seq(Query)
    BY <2>1, TakenType DEF SrvInv
  <2>5. report = [l \in Lookup |-> report[l]] /\ lookup \in Lookup
    BY DEF SrvInv, SrvControlOK
  <2>6. filled = [l \in Lookup |-> filled[l]]
        /\ \A l \in Lookup : filled[l] =
             IF l = lookup THEN Best(Answers[answer.domain][answer.lookup]) ELSE report[l]
    BY <2>5
  <2> HIDE DEF answer, filled
  <2>7. SrvControlOK'
    <3>1. report' = [l \in Lookup |-> report'[l]]
      <4>1. report' = report \/ report' = filled
        BY <2>2 DEF End
      <4>2. QED BY <2>5, <2>6, <4>1
    <3>2. lookup' \in Lookup
      BY <2>2, <2>5 DEF End, Lookup
    <3>3. domain' \in Domain \cup {NoDomain} /\ reading' \in BOOLEAN
      BY <2>2 DEF End, SrvInv, SrvControlOK
    <3>4. QED BY <2>3, <2>4, <3>1, <3>2, <3>3 DEF SrvInv, SrvControlOK
  <2>8. ASSUME ~late
        PROVE  /\ asked' = <<>> /\ wire' = <<>>
               /\ \A l \in Lookup : l <= lookup => filled[l] = Best(Answers[domain][l])
    <3>1. asked = <<>> /\ Head(wire) = Current /\ SubSeq(wire, n + 1, Len(wire)) = <<>>
      BY <2>3, <2>8, OwnAnswer
    <3>2. answer.domain = domain /\ answer.lookup = lookup
      BY <3>1 DEF answer, Current
    <3>3. \A l \in Lookup : l < lookup => report[l] = Best(Answers[domain][l])
      BY <2>3, <2>8 DEF SrvInv, ReportInv
    <3>4. QED BY <2>1, <2>3, <2>5, <2>6, <3>1, <3>2, <3>3 DEF Take, Lookup
  <2>9. InStep'
    BY <2>2, <2>3, <2>8, DomainAssumption DEF End, InStep, Idle
  <2>10. ReportInv'
    <3>1. SUFFICES ASSUME ~late
                   PROVE  /\ ~Idle' => \A l \in Lookup : l < lookup' =>
                                report'[l] = Best(Answers[domain'][l])
                          /\ RunsOnDomain'
      BY <2>3 DEF ReportInv
    <3>2. CASE lookup = 3 /\ End("report", filled)
      <4>1. \A l \in Lookup : filled[l] = Best(Answers[domain][l])
        BY <2>8, <3>1, <3>2 DEF Lookup
      <4>2. filled = AnswersOf(domain)
        BY <2>6, <4>1 DEF AnswersOf
      <4>3. QED BY <3>2, <4>2 DEF End, Idle, RunsOnDomain, AnswersOf
    <3>3. CASE /\ lookup # 3 /\ report' = filled /\ lookup' = lookup + 1 /\ reading' = FALSE
               /\ UNCHANGED <<domain, outcome>>
      <4>1. \A l \in Lookup : l < lookup + 1 => l <= lookup
        BY <2>5 DEF Lookup
      <4>2. RunsOnDomain
        BY <3>1 DEF SrvInv, ReportInv
      <4>3. QED BY <2>8, <3>1, <3>3, <4>1, <4>2 DEF RunsOnDomain, AnswersOf
    <3>4. QED BY <2>2, <3>2, <3>3
  <2>11. QED BY <2>7, <2>9, <2>10 DEF SrvInv
<1>5. CASE ReadGarbage
  <2>1. PICK n \in 1 .. Len(wire) : Take(n)
    BY <1>5 DEF ReadGarbage
  <2>2. SrvControlOK'
    BY <1>5, <2>1, TakenType DEF ReadGarbage, Fail, End, SrvInv, SrvControlOK
  <2>3. InStep'
    BY <1>5, <2>1, OwnAnswer DEF ReadGarbage, Fail, End, Take, InStep, Idle
  <2>4. ReportInv'
    BY <1>5 DEF ReadGarbage, Fail, End, ReportInv, Idle, RunsOnDomain
  <2>5. QED BY <2>2, <2>3, <2>4 DEF SrvInv
<1>6. CASE Reply
  <2>1. /\ asked \in Seq(Query) /\ wire \in Seq(Query) /\ asked # <<>>
        /\ Head(asked) \in Query /\ Tail(asked) \in Seq(Query)
        /\ Append(wire, Head(asked)) \in Seq(Query)
    BY <1>6 DEF Reply, SrvInv, SrvControlOK
  <2>2. SrvControlOK'
    BY <1>6, <2>1 DEF Reply, SrvInv, SrvControlOK
  <2>3. InStep'
    <3>1. SUFFICES ASSUME ~late PROVE InStep'
      BY <1>6 DEF Reply, InStep
    <3>2. ~Idle /\ reading /\ asked \o wire = <<Current>>
      BY <1>6, <3>1, <2>1 DEF Reply, SrvInv, InStep
    <3>3. Len(asked) = 1 /\ Len(wire) = 0
      <4>1. Len(asked \o wire) = Len(asked) + Len(wire) /\ Len(<<Current>>) = 1
        BY <2>1, ConcatProperties
      <4>2. Len(asked) \in Nat \ {0} /\ Len(wire) \in Nat
        BY <2>1, EmptySeq
      <4>3. Len(asked) + Len(wire) = 1
        BY <3>2, <4>1
      <4>4. QED BY <4>2, <4>3
    <3>4. wire = <<>>
      BY <2>1, <3>3, EmptySeq
    <3>5. asked = <<Current>>
      BY <2>1, <3>2, <3>4, ConcatEmptySeq
    <3>6. Tail(asked) = <<>> /\ Append(wire, Head(asked)) = <<Current>>
      BY <3>4, <3>5
    <3>7. <<>> \o <<Current>> = <<Current>>
      BY <2>1, <3>5, ConcatEmptySeq
    <3>8. QED BY <1>6, <3>2, <3>6, <3>7 DEF Reply, InStep, Idle, Current
  <2>4. ReportInv'
    BY <1>6 DEF Reply, SrvInv, ReportInv, Idle, RunsOnDomain, AnswersOf
  <2>5. QED BY <2>2, <2>3, <2>4 DEF SrvInv
<1>7. CASE Close
  <2>1. SrvControlOK'
    BY <1>7, <1>e DEF Close, SrvInv, SrvControlOK
  <2>2. InStep'
    <3>1. SUFFICES ASSUME ~late PROVE InStep'
      BY <1>7 DEF Close, InStep
    <3>2. CASE Idle \/ ~reading
      BY <1>7, <3>1, <3>2 DEF Close, SrvInv, InStep, Idle
    <3>3. CASE ~Idle /\ reading
      <4>1. asked \o wire = <<Current>> /\ asked \in Seq(Query) /\ wire \in Seq(Query)
        BY <1>7, <3>1, <3>3 DEF Close, SrvInv, InStep, SrvControlOK
      <4>2. wire = <<>> \/ wire = <<Current>>
        <5>1. CASE Len(wire) = 0
          BY <4>1, <5>1, EmptySeq
        <5>2. CASE Len(wire) # 0
          <6>1. 1 \in 1 .. Len(wire)
            BY <4>1, <5>2
          <6>2. asked = <<>>
            BY <3>1, <3>3, <6>1, OwnAnswer
          <6>3. QED BY <4>1, <6>2, ConcatEmptySeq
        <5>3. QED BY <5>1, <5>2
      <4>3. <<>> \o wire = wire
        BY <4>1, ConcatEmptySeq
      <4>4. QED BY <1>7, <3>3, <4>2, <4>3 DEF Close, InStep, Idle, Current
    <3>4. QED BY <3>2, <3>3
  <2>3. ReportInv'
    BY <1>7 DEF Close, SrvInv, ReportInv, Idle, RunsOnDomain, AnswersOf
  <2>4. QED BY <2>1, <2>2, <2>3 DEF SrvInv
<1>8. CASE NoMoreCalls \/ UNCHANGED vars
  <2>1. UNCHANGED vars
    BY <1>8 DEF NoMoreCalls
  <2>2. QED BY <2>1 DEF vars, SrvInv, SrvControlOK, InStep, ReportInv, Idle, Current,
                       RunsOnDomain, AnswersOf
<1>9. QED
  BY <1>1, <1>2, <1>3, <1>4, <1>5, <1>6, <1>7, <1>8 DEF Next, Proceed

LEMMA SrvInvariant == Spec => []SrvInv
<1>1. QED BY SrvInit, SrvStep, PTL DEF Spec

(* Nothing is left on the stream between two exchanges.                    *)
THEOREM StreamStaysInStep == Spec => []InStep
<1>1. SrvInv => InStep
  BY DEF SrvInv
<1>2. QED BY <1>1, SrvInvariant, PTL

(* While no read fails, a report is about the domain it was asked for.     *)
THEOREM OnTimeReportsAreOwn == Spec => []OnTimeAnswersAreOwn
<1>1. SrvInv => OnTimeAnswersAreOwn
  BY DEF SrvInv, ReportInv, OnTimeAnswersAreOwn
<1>2. QED BY <1>1, SrvInvariant, PTL

(* A stream the resolver closed is never replaced, and no later call on the*)
(* client succeeds.                                                        *)
THEOREM ClosedStaysClosed == Spec => ClosedForGood
<1> DEFINE P == stream = "closed" =>
                  /\ stream' = "closed"
                  /\ wire = <<>> => wire' = <<>> /\ (outcome' = outcome \/ outcome'.kind # "report")
<1>1. [Next]_vars => [P]_vars
  <2> SUFFICES ASSUME Next, stream = "closed"
               PROVE  /\ stream' = "closed"
                      /\ wire = <<>> => wire' = <<>> /\ (outcome' = outcome \/ outcome'.kind # "report")
    OBVIOUS
  <2> USE DEF netVars, callVars
  <2>1. CASE \E d \in Domain : Discover(d)
    BY <2>1 DEF Discover
  <2>2. CASE RejectQuery \/ OpenFails \/ Ask \/ WriteFails \/ ReadEnd \/ ReadFails
    BY <2>2 DEF RejectQuery, OpenFails, Ask, WriteFails, ReadEnd, ReadFails, Fail, End, Pooled
  <2>3. CASE ReadAnswer \/ ReadGarbage
    <3>1. wire # <<>>
      <4>1. Len(<<>>) = 0
        OBVIOUS
      <4>2. QED BY <2>3, <4>1 DEF ReadAnswer, ReadGarbage
    <3>2. QED BY <2>3, <3>1 DEF ReadAnswer, ReadGarbage
  <2>4. CASE Reply \/ Close
    BY <2>4 DEF Reply, Close
  <2>5. CASE NoMoreCalls
    BY <2>5 DEF NoMoreCalls, vars
  <2>6. QED BY <2>1, <2>2, <2>3, <2>4, <2>5 DEF Next, Proceed
<1>2. QED BY <1>1, PTL DEF Spec, ClosedForGood
-----------------------------------------------------------------------------
(* A set of natural numbers has a least element.                           *)
LEMMA LeastNatural ==
  ASSUME NEW T \in SUBSET Nat, T # {}
  PROVE  \E k \in T : \A j \in T : k <= j
<1>1. PICK k \in T : \A j \in T : ~(<<j, k>> \in OpToRel(<, Nat))
  BY NatLessThanWellFounded, WFMin
<1>2. \A j \in T : ~(j < k)
  BY <1>1 DEF OpToRel
<1>3. QED BY <1>2

(* The sort has a first record: the least priority, then the greatest      *)
(* weight, then the first place.                                           *)
LEMMA FirstExists ==
  ASSUME NEW records \in Seq(Record), Usable(records) # {}
  PROVE  \E i \in Usable(records) : IsFirst(i, records)
<1> DEFINE priority(i) == records[i].priority
           lightness(i) == MaxU16 - records[i].weight
<1>0. MaxU16 \in Nat
  BY DEF MaxU16
<1>1. ASSUME NEW i \in Usable(records)
      PROVE  i \in Nat /\ records[i] \in Record
  BY DEF Usable
<1>2. ASSUME NEW i \in Usable(records)
      PROVE  priority(i) \in Nat /\ lightness(i) \in Nat /\ records[i].weight \in Nat
  <2>1. records[i].priority \in 0 .. MaxU16 /\ records[i].weight \in 0 .. MaxU16
    BY <1>1, RecordAssumption
  <2>2. QED BY <1>0, <2>1
<1>3. \A i, j \in Usable(records) :
        Before(records[i], records[j]) <=>
          priority(i) < priority(j) \/ (priority(i) = priority(j) /\ lightness(i) < lightness(j))
  BY <1>0, <1>2 DEF Before
<1> HIDE DEF priority, lightness
<1> DEFINE P == {priority(i) : i \in Usable(records)}
<1>4. PICK p \in P : \A q \in P : p <= q
  <2>1. P \subseteq Nat /\ P # {}
    BY <1>2
  <2>2. QED BY <2>1, LeastNatural
<1> DEFINE Q == {i \in Usable(records) : priority(i) = p}
           W == {lightness(i) : i \in Q}
<1>5. PICK w \in W : \A v \in W : w <= v
  <2>1. W \subseteq Nat /\ W # {}
    BY <1>2, <1>4
  <2>2. QED BY <2>1, LeastNatural
<1> DEFINE I == {i \in Q : lightness(i) = w}
<1>6. PICK i \in I : \A j \in I : i <= j
  <2>1. I \subseteq Nat /\ I # {}
    BY <1>1, <1>5
  <2>2. QED BY <2>1, LeastNatural
<1>7. i \in Usable(records) /\ priority(i) = p /\ lightness(i) = w
  BY <1>6
<1>8. ASSUME NEW j \in Usable(records)
      PROVE  ~Before(records[j], records[i]) /\ (j < i => Before(records[i], records[j]))
  <2>1. p <= priority(j)
    BY <1>4
  <2>2. priority(j) = p => w <= lightness(j)
    BY <1>5
  <2>3. (priority(j) = p /\ lightness(j) = w) => i <= j
    BY <1>6
  <2>4. i \in Nat /\ j \in Nat /\ priority(j) \in Nat /\ lightness(j) \in Nat
        /\ p \in Nat /\ w \in Nat
    BY <1>1, <1>2, <1>7
  <2>5. ~Before(records[j], records[i])
    BY <1>3, <1>7, <2>1, <2>2, <2>4
  <2>6. j < i => Before(records[i], records[j])
    BY <1>3, <1>7, <2>1, <2>2, <2>3, <2>4
  <2>7. QED BY <2>5, <2>6
<1>9. QED BY <1>7, <1>8 DEF IsFirst

(* Best is such a record, and nothing if there is no usable one.           *)
LEMMA BestIsFirst ==
  ASSUME NEW records \in Seq(Record)
  PROVE  /\ Best(records) \in Option(Record)
         /\ IF Usable(records) = {} THEN Best(records) = <<>>
            ELSE \E i \in Usable(records) :
                   Best(records) = <<records[i]>> /\ IsFirst(i, records)
<1>1. CASE Usable(records) = {}
  BY <1>1 DEF Best, Option
<1>2. CASE Usable(records) # {}
  <2> DEFINE i == CHOOSE k \in Usable(records) : IsFirst(k, records)
  <2>1. i \in Usable(records) /\ IsFirst(i, records)
    BY <1>2, FirstExists
  <2>2. Best(records) = <<records[i]>>
    BY <1>2 DEF Best
  <2> HIDE DEF i
  <2>3. records[i] \in Record
    BY <2>1 DEF Usable
  <2>4. QED BY <1>2, <2>1, <2>2, <2>3 DEF Option
<1>3. QED BY <1>1, <1>2

-----------------------------------------------------------------------------
(* The types, and that a report is about a domain.                         *)
SrvTypeInv ==
  /\ SrvTypeOK
  /\ outcome.kind = "report" => outcome.domain \in Domain

(* What the calls that return put into outcome.                            *)
LEMMA EndedType ==
  ASSUME SrvTypeInv, ~Idle, NEW kind \in {"report", "pool", "io", "dns"}, NEW result \in Report,
         End(kind, result)
  PROVE  /\ report' \in Report
         /\ outcome' \in [kind : {"none", "report", "pool", "io", "dns"},
                          domain : Domain \cup {NoDomain}, report : Report]
         /\ outcome'.domain \in Domain
<1>1. domain \in Domain
  BY DEF SrvTypeInv, SrvTypeOK, SrvControlOK, Idle
<1>2. outcome' = [kind |-> kind, domain |-> domain, report |-> result]
  BY DEF End
<1>3. QED BY <1>1, <1>2 DEF End, SrvTypeInv, SrvTypeOK

LEMMA SrvTypeStep == SrvTypeInv /\ SrvInv' /\ [Next]_vars => SrvTypeInv'
<1> SUFFICES ASSUME SrvTypeInv, SrvInv', [Next]_vars PROVE SrvTypeInv'
  OBVIOUS
<1> USE DEF callVars, netVars
<1>0. SrvControlOK'
  BY DEF SrvInv
<1>e. EmptyReport \in Report
  BY DEF EmptyReport, Report, Option
<1>1. ASSUME NEW d \in Domain, Discover(d)
      PROVE  SrvTypeInv'
  <2>1. report' = EmptyReport
        /\ outcome' = [kind |-> "none", domain |-> NoDomain, report |-> EmptyReport]
    BY <1>1 DEF Discover
  <2>2. QED BY <1>0, <1>e, <2>1 DEF SrvTypeInv, SrvTypeOK
<1>2. CASE RejectQuery \/ OpenFails \/ WriteFails \/ ReadGarbage \/ ReadEnd \/ ReadFails
  <2>1. PICK kind \in {"pool", "io", "dns"} : ~Idle /\ End(kind, EmptyReport)
    BY <1>2 DEF RejectQuery, OpenFails, WriteFails, ReadGarbage, ReadEnd, ReadFails, Fail
  <2>2. QED BY <1>0, <1>e, <2>1, EndedType DEF SrvTypeInv, SrvTypeOK
<1>3. CASE ReadAnswer
  <2> USE DEF Slot
  <2> DEFINE answer == Head(wire)
             found == Best(Answers[answer.domain][answer.lookup])
             filled == [report EXCEPT ![lookup] = found]
  <2>1. PICK n \in 1 .. Len(wire) : Take(n)
    BY <1>3 DEF ReadAnswer
  <2>2. answer \in Query
    <3>1. wire \in Seq(Query) /\ wire # <<>>
      BY <2>1 DEF SrvTypeInv, SrvTypeOK, SrvControlOK
    <3>2. QED BY <3>1, HeadTailProperties
  <2>3. found \in Option(Record)
    <3>1. Answers[answer.domain][answer.lookup] \in Seq(Record)
      BY <2>2, AnswersAssumption DEF Query
    <3>2. QED BY <3>1, BestIsFirst
  <2>4. filled \in Report
    BY <2>3 DEF SrvTypeInv, SrvTypeOK, SrvControlOK, Report
  <2>5. CASE End("report", filled)
    <3>1. ~Idle
      BY <1>3 DEF ReadAnswer
    <3>2. QED BY <1>0, <2>4, <2>5, <3>1, EndedType DEF SrvTypeInv, SrvTypeOK
  <2>6. CASE report' = filled /\ outcome' = outcome
    BY <1>0, <2>4, <2>6 DEF SrvTypeInv, SrvTypeOK
  <2>7. QED BY <1>3, <2>5, <2>6 DEF ReadAnswer
<1>4. CASE Ask \/ Reply \/ Close \/ NoMoreCalls \/ UNCHANGED vars
  <2>1. report' = report /\ outcome' = outcome
    BY <1>4 DEF Ask, Reply, Close, NoMoreCalls, vars
  <2>2. QED BY <1>0, <2>1 DEF SrvTypeInv, SrvTypeOK
<1>5. QED BY <1>1, <1>2, <1>3, <1>4 DEF Next, Proceed

LEMMA SrvTypeInvariant == Spec => []SrvTypeInv
<1>1. Init => SrvTypeInv
  <2> SUFFICES ASSUME Init PROVE SrvTypeInv
    OBVIOUS
  <2>1. EmptyReport \in Report
    BY DEF EmptyReport, Report, Option
  <2>2. outcome = [kind |-> "none", domain |-> NoDomain, report |-> EmptyReport]
        /\ report = EmptyReport
    BY DEF Init
  <2>3. SrvControlOK
    BY SrvInit DEF SrvInv
  <2>4. QED BY <2>1, <2>2, <2>3 DEF SrvTypeInv, SrvTypeOK
<1>2. QED BY <1>1, SrvTypeStep, SrvInvariant, PTL DEF Spec

(* Whatever the resolver answers, the variables keep their types: a report *)
(* holds a record of an answer, or nothing, in every slot.                 *)
THEOREM SrvTypeCorrect == Spec => []SrvTypeOK
<1>1. SrvTypeInv => SrvTypeOK
  BY DEF SrvTypeInv
<1>2. QED BY <1>1, SrvTypeInvariant, PTL

(* The slots of a report no failed read came before are the records a      *)
(* client has to try first: by priority, then by weight, and never a root. *)
THEOREM ReportedRecordsAreBest == Spec => []SlotsAreBest
<1>1. SrvTypeInv /\ SrvInv => SlotsAreBest
  <2> SUFFICES ASSUME SrvTypeInv, SrvInv, outcome.kind = "report", ~late, NEW l \in Lookup
               PROVE  LET answer == Answers[outcome.domain][l]
                          usable == {answer[i] : i \in {j \in DOMAIN answer : ~answer[j].root}}
                          slot == outcome.report[l]
                      IN  IF usable = {} THEN slot = <<>>
                          ELSE /\ slot # <<>> /\ slot[1] \in usable
                               /\ \A r \in usable :
                                    \/ slot[1].priority < r.priority
                                    \/ slot[1].priority = r.priority /\ slot[1].weight >= r.weight
    BY DEF SlotsAreBest
  <2> DEFINE answer == Answers[outcome.domain][l]
             usable == {answer[i] : i \in {j \in DOMAIN answer : ~answer[j].root}}
             slot == outcome.report[l]
  <2>1. answer \in Seq(Record)
    BY AnswersAssumption DEF SrvTypeInv
  <2>2. slot = Best(answer)
    BY DEF SrvInv, ReportInv, RunsOnDomain, AnswersOf
  <2> HIDE DEF answer, slot
  <2>3. usable = {answer[i] : i \in Usable(answer)}
    BY DEF Usable
  <2>4. CASE Usable(answer) = {}
    <3>1. usable = {} /\ slot = <<>>
      BY <2>1, <2>2, <2>3, <2>4, BestIsFirst
    <3>2. QED BY <3>1 DEF answer, slot
  <2>5. CASE Usable(answer) # {}
    <3>1. PICK i \in Usable(answer) : slot = <<answer[i]>> /\ IsFirst(i, answer)
      BY <2>1, <2>2, <2>5, BestIsFirst
    <3>2. slot # <<>> /\ slot[1] = answer[i] /\ slot[1] \in usable
      BY <2>3, <3>1
    <3>3. ASSUME NEW j \in Usable(answer)
          PROVE  \/ answer[i].priority < answer[j].priority
                 \/ answer[i].priority = answer[j].priority /\ answer[i].weight >= answer[j].weight
      <4>1. answer[i] \in Record /\ answer[j] \in Record
        BY <2>1, <3>1 DEF Usable
      <4>2. MaxU16 \in Nat
        BY DEF MaxU16
      <4>3. /\ answer[i].priority \in Nat /\ answer[i].weight \in Nat
            /\ answer[j].priority \in Nat /\ answer[j].weight \in Nat
        BY <4>1, <4>2, RecordAssumption
      <4>4. ~Before(answer[j], answer[i])
        BY <3>1 DEF IsFirst
      <4>5. QED BY <4>3, <4>4 DEF Before
    <3>4. \A r \in usable :
            \/ slot[1].priority < r.priority
            \/ slot[1].priority = r.priority /\ slot[1].weight >= r.weight
      BY <2>3, <3>2, <3>3
    <3>5. usable # {}
      BY <3>2
    <3>6. QED BY <3>2, <3>4, <3>5 DEF answer, slot
  <2>6. QED BY <2>4, <2>5
<1>2. QED BY <1>1, SrvTypeInvariant, SrvInvariant, PTL
=============================================================================
