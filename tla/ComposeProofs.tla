--------------------------- MODULE ComposeProofs ---------------------------
(***************************************************************************)
(* Proofs about Compose for every value of its constants: the threads are  *)
(* in order, what the collector guarantees holds inside a compose, the     *)
(* concurrent compose implements the sequential one, and what a mechanism  *)
(* found is in what the call returns, its methods refined and its issuers  *)
(* settled.  The passes over methods are folds of sequences: what they     *)
(* compute is proved by induction, with Induction below.                   *)
(***************************************************************************)
EXTENDS Compose, CollectorProofs, FiniteSetTheorems

(* The control state is as ThreadsOK says: no thread outlives the join, the*)
(* probes match the report one to one, and the fetches its issuers.        *)
THEOREM ThreadsCorrect == Spec => []ThreadsOK
<1>1. Init => ThreadsOK
  BY MechanismAssumption DEF Init, ThreadsOK, Phase, Priority
<1>2. ThreadsOK /\ [Next]_vars => ThreadsOK'
  <2> SUFFICES ASSUME ThreadsOK, [Next]_vars
               PROVE  ThreadsOK'
    OBVIOUS
  <2> USE DEF ThreadsOK, Phase
  <2>1. CASE Reject
    BY <2>1 DEF Reject
  <2>2. CASE Spawn
    <3>1. output' \in [Mechanism -> Batch]
      BY <2>2, MechanismAssumption DEF Spawn
    <3>2. started' \subseteq Mechanism
      BY <2>2 DEF Spawn
    <3>3. QED BY <2>2, <3>1, <3>2 DEF Spawn
  <2>3. ASSUME NEW m \in Mechanism, EndThread(m)
        PROVE  ThreadsOK'
    <3>1. output' \in [Mechanism -> Batch]
      BY <2>3, MechanismAssumption DEF EndThread
    <3>2. QED BY <2>3, <3>1 DEF EndThread
  <2>4. CASE Join
    BY <2>4 DEF Join, AllEnded
  <2>5. CASE CollectNext
    <3>1. turn' \in 0 .. Len(Priority)
      BY <2>5 DEF CollectNext, Stopped, Priority
    <3>2. QED BY <2>5, <3>1 DEF CollectNext
  <2>6. CASE Absorb
    BY <2>6 DEF Absorb, ownVars
  <2>7. CASE FinishCollect
    <3>1. \A i \in DOMAIN configs : ProbeUrls(configs[i]) \in 0 .. 2
      BY DEF ProbeUrls
    <3>2. /\ DOMAIN probes' = DOMAIN report'
          /\ \A i \in DOMAIN probes' : probes'[i] \in Probes
      BY <2>7, <3>1 DEF FinishCollect, Probes
    <3>3. QED BY <2>7, <3>2 DEF FinishCollect
  <2>8. CASE FlattenNext
    <3>1. turn' \in 0 .. Len(Priority)
      BY <2>8 DEF FlattenNext, Priority
    <3>2. QED BY <2>8, <3>1 DEF FlattenNext
  <2>9. CASE FinishRaw
    BY <2>9 DEF FinishRaw, StartFetches, Fetches, GrantsOf
  <2>10. ASSUME NEW i \in DOMAIN probes, ProbeUrl(i)
         PROVE  ThreadsOK'
    <3>1. probes[i] \in Probes /\ probes[i].left > 0
      BY <2>10 DEF ProbeUrl, HasUrl
    <3>2. NextUrl(probes[i]) \in Probes
      BY <3>1 DEF Probes, NextUrl
    <3>3. /\ DOMAIN probes' = DOMAIN probes
          /\ \A j \in DOMAIN probes : probes'[j] \in Probes
      BY <2>10, <3>2 DEF ProbeUrl, Probes
    <3>4. QED BY <2>10, <3>3 DEF ProbeUrl
  <2>11. CASE Refine
    BY <2>11 DEF Refine, StartFetches, Fetches, GrantsOf
  <2>12. ASSUME NEW i \in DOMAIN fetches, FetchOauth(i)
         PROVE  ThreadsOK'
    <3>1. phase = "issuers" /\ fetches[i] \in Fetches(i)
      BY <2>12 DEF FetchOauth
    <3>2. fetches'[i] \in Fetches(i) /\ DOMAIN fetches' = DOMAIN fetches
      BY <2>12, <3>1 DEF FetchOauth, Fetches
    <3>3. \A j \in DOMAIN fetches : fetches'[j] \in Fetches(j)
      BY <2>12, <3>1, <3>2 DEF FetchOauth
    <3>4. QED BY <2>12, <3>2, <3>3 DEF FetchOauth
  <2>13. ASSUME NEW i \in DOMAIN fetches, FetchOpenid(i)
         PROVE  ThreadsOK'
    <3>1. phase = "issuers" /\ fetches[i] \in Fetches(i)
      BY <2>13 DEF FetchOpenid
    <3>2. fetches'[i] \in Fetches(i) /\ DOMAIN fetches' = DOMAIN fetches
      BY <2>13, <3>1 DEF FetchOpenid, Fetches
    <3>3. \A j \in DOMAIN fetches : fetches'[j] \in Fetches(j)
      BY <2>13, <3>1, <3>2 DEF FetchOpenid
    <3>4. QED BY <2>13, <3>2, <3>3 DEF FetchOpenid
  <2>14. CASE Replace
    BY <2>14 DEF Replace
  <2>15. CASE UNCHANGED vars
    BY <2>15 DEF vars, ownVars
  <2>16. QED
    BY <2>1, <2>2, <2>3, <2>4, <2>5, <2>6, <2>7, <2>8, <2>9, <2>10, <2>11,
       <2>12, <2>13, <2>14, <2>15 DEF Next, Returned
<1>3. QED BY <1>1, <1>2, PTL DEF Spec

-----------------------------------------------------------------------------
LEMMA NextMechanism ==
  ASSUME ThreadsOK, turn # Len(Priority)
  PROVE  turn < Len(Priority) /\ Priority[turn + 1] \in Mechanism
<1>1. Len(Priority) = 11
  BY DEF Priority
<1>2. turn \in 0 .. 10
  BY <1>1 DEF ThreadsOK
<1>3. turn + 1 \in 1 .. 11
  BY <1>2
<1>4. Priority[turn + 1] \in Mechanism
  BY <1>3 DEF Priority, Mechanism
<1>5. QED BY <1>1, <1>2, <1>4

(* Every step of a compose is a step of its collector or leaves it alone.  *)
LEMMA CollectorSteps ==
  ASSUME ThreadsOK, [Next]_vars
  PROVE  [CollectorNext]_collectorVars
<1>1. CASE CollectNext
  <2>1. Priority[turn + 1] \in Mechanism
    BY <1>1, NextMechanism DEF CollectNext, Stopped
  <2>2. output[Priority[turn + 1]] \in Batch
    BY <2>1 DEF ThreadsOK
  <2>3. QED BY <1>1, <2>2 DEF CollectNext, CollectorNext
<1>2. CASE Absorb
  BY <1>2 DEF Absorb, CollectorNext
<1>3. CASE ~(CollectNext \/ Absorb)
  <2>1. UNCHANGED collectorVars
    BY <1>3 DEF Next, vars, Reject, Spawn, EndThread, Join, FinishCollect,
         FlattenNext, FinishRaw, ProbeUrl, Refine, FetchOauth, FetchOpenid,
         Replace, Returned
  <2>2. QED BY <2>1
<1>4. QED BY <1>1, <1>2, <1>3

(* A compose drives the collector as the collector expects: one batch at a *)
(* time, each a possible output, and no other access to its state.         *)
THEOREM ComposeCollects == Spec => CollectorSpec
<1>1. Init => CollectorInit
  BY DEF Init
<1>2. QED BY <1>1, ThreadsCorrect, CollectorSteps, PTL DEF Spec, CollectorSpec

(* So all that is proved of the collector holds inside every compose.      *)
THEOREM ComposeLosesNothing == Spec => []Represented
BY ComposeCollects, NothingLost, PTL

THEOREM ComposeRespectsPriority == Spec => []FirstReporterWins
BY ComposeCollects, PriorityRespected, PTL

-----------------------------------------------------------------------------
(* The concurrent compose and the sequential one.  The invariant says that *)
(* a thread that has ended left an output the mechanism may have, and that *)
(* nothing has been output before the threads start.                       *)
OutputsPossible ==
  /\ phase = "start" => /\ output = [m \in Mechanism |-> <<>>]
                        /\ provider = NoProvider
  /\ phase \notin {"start", "failed"} =>
       /\ \A m \in started : m # "provider" /\ Relevant(m, services, provider)
       /\ \A m \in Mechanism : output[m] \in Outcomes(m, services, provider)

LEMMA OutputsPossibleStep ==
  ASSUME ThreadsOK, OutputsPossible, [Next]_vars
  PROVE  OutputsPossible'
<1> USE DEF OutputsPossible
<1>1. CASE Spawn
  <2>1. services' = services /\ phase' = "join"
    BY <1>1 DEF Spawn, collectorVars
  <2>2. \A m \in started' : m # "provider" /\ Relevant(m, services, provider')
    BY <1>1 DEF Spawn
  <2>3. ASSUME NEW m \in Mechanism
        PROVE  output'[m] \in Outcomes(m, services, provider')
    <3>1. CASE m = "provider"
      BY <1>1, <3>1 DEF Spawn, Outcomes, Relevant, ThreadsOK
    <3>2. CASE m # "provider"
      <4>1. output'[m] = <<>>
        BY <1>1, <3>2 DEF Spawn
      <4>2. QED BY <4>1, <3>2 DEF Outcomes
    <3>3. QED BY <3>1, <3>2
  <2>4. QED BY <2>1, <2>2, <2>3 DEF Outcomes, Relevant, Asked
<1>2. ASSUME NEW n \in Mechanism, EndThread(n)
      PROVE  OutputsPossible'
  <2>1. phase = "join" /\ n \in started
    BY <1>2 DEF EndThread, ThreadsOK
  <2>2. n # "provider" /\ Relevant(n, services, provider)
    BY <2>1
  <2>3. output'[n] \in Outcomes(n, services, provider)
    BY <1>2, <2>2 DEF EndThread, Outcomes, ThreadsOK
  <2>4. \A m \in Mechanism : output'[m] \in Outcomes(m, services, provider)
    BY <1>2, <2>1, <2>3 DEF EndThread, ThreadsOK
  <2>5. UNCHANGED <<services, phase, started, provider>>
    BY <1>2 DEF EndThread, collectorVars
  <2>6. \A m \in started' : m # "provider" /\ Relevant(m, services', provider')
    BY <2>1, <2>5
  <2>7. \A m \in Mechanism : output'[m] \in Outcomes(m, services', provider')
    BY <2>4, <2>5
  <2>8. phase' = "join"
    BY <2>1, <2>5
  <2>9. QED BY <2>6, <2>7, <2>8 DEF Outcomes, Relevant, Asked
<1>3. CASE ~(Spawn \/ \E m \in Mechanism : EndThread(m))
  <2>1. /\ UNCHANGED <<output, started, provider>>
        /\ \/ phase' = phase
           \/ phase # "start" /\ phase' # "start"
           \/ phase' = "failed"
        /\ phase = "failed" => phase' = "failed"
    BY <1>3 DEF Next, vars, ownVars, Reject, Join, CollectNext, Absorb, FinishCollect,
         FlattenNext, FinishRaw, ProbeUrl, Refine, FetchOauth, FetchOpenid,
         Replace, Returned
  <2>2. services' = services
    <3>1. [CollectorNext]_collectorVars
      BY CollectorSteps
    <3>2. QED BY <3>1 DEF CollectorNext, collectorVars, Loop, Skip, Push, Match,
                          MergeMethod, Collect
  <2>3. CASE phase' = "start"
    BY <2>1, <2>3
  <2>4. CASE phase' = "failed"
    BY <2>4
  <2>5. CASE phase' \notin {"start", "failed"}
    <3>1. phase \notin {"start", "failed"}
      BY <2>1, <2>5
    <3>2. \A m \in started' : m # "provider" /\ Relevant(m, services', provider')
      BY <2>1, <2>2, <3>1
    <3>3. \A m \in Mechanism : output'[m] \in Outcomes(m, services', provider')
      BY <2>1, <2>2, <3>1
    <3>4. QED BY <2>5, <3>2, <3>3 DEF Outcomes, Relevant, Asked
  <2>6. QED BY <2>3, <2>4, <2>5
<1>4. QED BY <1>1, <1>2, <1>3

(* The collector of the promise is the collector.                          *)
LEMMA SameCollector ==
  /\ Sequential!NoMerge = NoMerge /\ Sequential!Idle = Idle
  /\ \A b : Sequential!Collect(b) = Collect(b)
  /\ \A s : Sequential!Wants(s) = Wants(s)
  /\ \A i, c : Sequential!FirstMatch(i, c) = FirstMatch(i, c)
  /\ \A e, c : Sequential!Rehost(e, c) = Rehost(e, c)
  /\ \A auth, m : Sequential!PushMethod(auth, m) = PushMethod(auth, m)
  /\ \A i, methods : Sequential!MergeLoop(i, methods) = MergeLoop(i, methods)
<1>1. Sequential!NoMerge = NoMerge
  BY DEF NoMerge, Sequential!NoMerge
<1>2. Sequential!Idle = Idle
  BY <1>1 DEF Idle, Sequential!Idle
<1>3. \A b : Sequential!Collect(b) = Collect(b)
  BY <1>2 DEF Collect, Sequential!Collect
<1>4. \A s : Sequential!Wants(s) = Wants(s)
  BY DEF Wants, Sequential!Wants
<1>5. \A a, b : Sequential!SubdomainOf(a, b) = SubdomainOf(a, b)
  BY DEF SubdomainOf, Sequential!SubdomainOf, IsStrictPrefix,
         Sequential!IsStrictPrefix, IsPrefix, Sequential!IsPrefix
<1>6. \A c, d : Sequential!Mergeable(c, d) = Mergeable(c, d)
  BY <1>5 DEF Mergeable, Sequential!Mergeable, SameLogin, Sequential!SameLogin,
              Equivalent, Sequential!Equivalent
<1>7. \A i, c : Sequential!FirstMatch(i, c) = FirstMatch(i, c)
  BY <1>6 DEF FirstMatch, Sequential!FirstMatch
<1>8. \A e, c : Sequential!Rehost(e, c) = Rehost(e, c)
  BY <1>5 DEF Rehost, Sequential!Rehost
<1>9. \A auth, m : Sequential!PushMethod(auth, m) = PushMethod(auth, m)
  BY DEF PushMethod, Sequential!PushMethod, Range, Sequential!Range
<1>10. \A i, methods : Sequential!MergeLoop(i, methods) = MergeLoop(i, methods)
  BY <1>1 DEF MergeLoop, Sequential!MergeLoop
<1>11. QED
  BY <1>1, <1>2, <1>3, <1>4, <1>7, <1>8, <1>9, <1>10

LEMMA SameLoop == Sequential!Loop = Loop
<1>1. Sequential!Skip = Skip
  BY SameCollector DEF Skip, Sequential!Skip
<1>2. Sequential!Push = Push
  BY SameCollector DEF Push, Sequential!Push
<1>3. Sequential!Match = Match
  BY SameCollector DEF Match, Sequential!Match
<1>4. Sequential!MergeMethod = MergeMethod
  BY SameCollector DEF MergeMethod, Sequential!MergeMethod
<1>5. QED BY <1>1, <1>2, <1>3, <1>4 DEF Loop, Sequential!Loop

(* Each step of the threads and of the calling thread is a step of the     *)
(* sequential compose, or one it does not see.                             *)
LEMMA SequentialStep ==
  ASSUME ThreadsOK, OutputsPossible, [Next]_vars
  PROVE  [Sequential!Next]_(Sequential!promiseVars)
<1> USE DEF Sequential!promiseVars, Sequential!collectorVars, collectorVars
<1>1. CASE Reject
  <2>1. Sequential!Reject
    BY <1>1 DEF Reject, Sequential!Reject
  <2>2. QED BY <2>1 DEF Sequential!Next
<1>2. CASE Spawn
  <2>1. Sequential!Accept
    BY <1>2 DEF Spawn, Sequential!Accept
  <2>2. QED BY <2>1 DEF Sequential!Next
<1>3. CASE CollectNext
  <2>1. Sequential!Stopped = Stopped
    BY DEF Stopped, Sequential!Stopped
  <2>2. output[Priority[turn + 1]] \in OutcomesAt(turn + 1, services, provider)
    BY <1>3, NextMechanism DEF CollectNext, Stopped, OutputsPossible, OutcomesAt
  <2>3. Sequential!Collect(output[Priority[turn + 1]])
    BY <1>3, SameCollector DEF CollectNext
  <2>4. Sequential!RunNext
    BY <1>3, <2>1, <2>2, <2>3, SameCollector DEF CollectNext, Sequential!RunNext
  <2>5. QED BY <2>4 DEF Sequential!Next
<1>4. CASE Absorb
  <2>1. Sequential!Absorb
    BY <1>4, SameLoop DEF Absorb, Sequential!Absorb, ownVars
  <2>2. QED BY <2>1 DEF Sequential!Next
<1>5. CASE FinishCollect
  <2>1. Sequential!Finish
    BY <1>5, SameCollector
    DEF FinishCollect, Sequential!Finish, Stopped, Sequential!Stopped
  <2>2. QED BY <2>1 DEF Sequential!Next
<1>6. CASE FlattenNext
  <2>1. output[Priority[turn + 1]] \in OutcomesAt(turn + 1, services, provider)
    BY <1>6, NextMechanism DEF FlattenNext, OutputsPossible, OutcomesAt
  <2>2. Sequential!RunNextRaw
    BY <1>6, <2>1 DEF FlattenNext, Sequential!RunNextRaw
  <2>3. QED BY <2>2 DEF Sequential!Next
<1>7. CASE FinishRaw
  <2>1. Sequential!FinishRaw
    BY <1>7 DEF FinishRaw, Sequential!FinishRaw
  <2>2. QED BY <2>1 DEF Sequential!Next
<1>8. CASE Refine
  <2> DEFINE learned == [i \in DOMAIN report |-> probes[i].schemes]
  <2>1. learned \in [DOMAIN report -> SchemeLists \cup {<<>>}]
    BY <1>8 DEF Refine, ThreadsOK, Probes
  <2>2. report' = [i \in DOMAIN report |-> RefineAuth(report[i], learned[i])]
    BY <1>8 DEF Refine, Refined
  <2>3. Sequential!Probe
    <3> HIDE DEF learned
    <3>1. QED BY <1>8, <2>1, <2>2 DEF Refine, Sequential!Probe
  <2>4. QED BY <2>3 DEF Sequential!Next
<1>9. CASE Replace
  <2> DEFINE grants == [i \in DOMAIN fetches |-> fetches[i].grants]
  <2>1. \A i \in IssuersOf(report) : grants[i] \in GrantLists \cup {<<i>>}
    BY <1>9 DEF Replace, ThreadsOK, Fetches, GrantsOf
  <2>2. IssuersOf(report) \subseteq Issuer
    BY DEF IssuersOf
  <2>3. grants \in [IssuersOf(report) -> GrantLists \cup {<<i>> : i \in Issuer}]
    BY <1>9, <2>1, <2>2 DEF Replace, ThreadsOK
  <2>4. report' = Resolved(report, grants)
    BY <1>9 DEF Replace
  <2>5. Sequential!Resolve
    <3> HIDE DEF grants
    <3>1. QED BY <1>9, <2>1, <2>3, <2>4 DEF Replace, Sequential!Resolve
  <2>6. QED BY <2>5 DEF Sequential!Next
<1>10. CASE (\E m \in Mechanism : EndThread(m)) \/ Join
  BY <1>10 DEF EndThread, Join, ThreadsOK
<1>11. CASE \E i \in DOMAIN probes : ProbeUrl(i)
  BY <1>11 DEF ProbeUrl
<1>12. CASE \E i \in DOMAIN fetches : FetchOauth(i) \/ FetchOpenid(i)
  BY <1>12 DEF FetchOauth, FetchOpenid
<1>13. CASE UNCHANGED vars
  BY <1>13 DEF vars, ownVars
<1>14. QED
  BY <1>1, <1>2, <1>3, <1>4, <1>5, <1>6, <1>7, <1>8, <1>9, <1>10, <1>11, <1>12,
     <1>13 DEF Next, Returned

(* Threads or not, panics or not, a compose returns what running the       *)
(* mechanisms one after the other may return, and in compose_first stops   *)
(* where that would stop.                                                  *)
THEOREM ComposeIsSequential == Spec => ImplementsSequential
<1>1. Init => OutputsPossible /\ Sequential!Init
  BY SameCollector DEF Init, OutputsPossible, Sequential!Init, CollectorInit,
     Sequential!CollectorInit
<1>2. ThreadsOK /\ OutputsPossible /\ [Next]_vars => OutputsPossible'
  BY OutputsPossibleStep
<1>3. ThreadsOK /\ OutputsPossible /\ [Next]_vars
        => [Sequential!Next]_(Sequential!promiseVars)
  BY SequentialStep
<1>4. QED
  BY <1>1, <1>2, <1>3, ThreadsCorrect, PTL
  DEF Spec, ImplementsSequential, Sequential!Spec

-----------------------------------------------------------------------------
(* Induction, over a set instead of a predicate: what holds of m, and of   *)
(* i + 1 when it holds of i, holds up to n.                                *)
LEMMA Induction ==
  ASSUME NEW m \in Nat, NEW n \in Nat, NEW T, m \in T,
         \A i \in m .. n - 1 : i \in T => i + 1 \in T
  PROVE  m .. n \subseteq T
<1> DEFINE Missed == {i \in m .. n : i \notin T}
<1> SUFFICES ASSUME Missed # {} PROVE FALSE
  OBVIOUS
<1>1. Missed \subseteq Nat
  OBVIOUS
<1>2. PICK k \in Missed : \A j \in Missed : ~(<<j, k>> \in OpToRel(<, Nat))
  BY <1>1, NatLessThanWellFounded, WFMin
<1>3. \A j \in Missed : ~(j < k)
  BY <1>1, <1>2 DEF OpToRel
<1>4. k # m /\ k - 1 \in m .. n - 1
  OBVIOUS
<1>5. k - 1 \in T
  BY <1>3, <1>4
<1>6. QED BY <1>4, <1>5

(* FlattenSeq is computed by its recursive function: the function exists.  *)
LEMMA FlattenDefined ==
  ASSUME NEW ss, NEW n \in Nat \ {0}
  PROVE  LET f[i \in 1 .. n] == IF i = 1 THEN ss[i] ELSE f[i - 1] \o ss[i]
         IN  f = [i \in 1 .. n |-> IF i = 1 THEN ss[i] ELSE f[i - 1] \o ss[i]]
<1> DEFINE Solves(g, m) ==
             g = [i \in 1 .. m |-> IF i = 1 THEN ss[i] ELSE g[i - 1] \o ss[i]]
           T == {m \in 1 .. n : \E g : Solves(g, m)}
<1>1. 1 \in T
  <2>1. Solves([i \in 1 .. 1 |-> ss[i]], 1)
    OBVIOUS
  <2>2. QED
    <3> HIDE DEF Solves
    <3>1. QED BY <2>1
<1>2. ASSUME NEW m \in 1 .. n - 1, m \in T
      PROVE  m + 1 \in T
  <2>1. PICK g : Solves(g, m)
    BY <1>2
  <2> DEFINE h == [i \in 1 .. m + 1 |-> IF i = m + 1 THEN g[m] \o ss[i] ELSE g[i]]
  <2>2. ASSUME NEW i \in 1 .. m + 1
        PROVE  h[i] = IF i = 1 THEN ss[i] ELSE h[i - 1] \o ss[i]
    <3>1. CASE i = m + 1
      <4>1. i # 1 /\ i - 1 \in 1 .. m + 1 /\ i - 1 = m /\ i - 1 # m + 1
        BY <3>1
      <4>2. h[i - 1] = g[m]
        BY <4>1
      <4>3. h[i] = g[m] \o ss[i]
        BY <3>1, Zenon
      <4>4. QED BY <4>1, <4>2, <4>3, Zenon
    <3>2. CASE i # m + 1
      <4>1. i \in 1 .. m /\ h[i] = g[i]
        BY <3>2
      <4>2. g[i] = IF i = 1 THEN ss[i] ELSE g[i - 1] \o ss[i]
        BY <2>1, <4>1
      <4>3. i # 1 => h[i - 1] = g[i - 1]
        BY <4>1
      <4>4. QED BY <4>1, <4>2, <4>3
    <3>3. QED BY <3>1, <3>2
  <2>3. Solves(h, m + 1)
    BY <2>2
  <2>4. QED
    <3> HIDE DEF Solves, h
    <3>1. QED BY <2>3
<1>3. n \in T
  <2> HIDE DEF T
  <2>1. 1 .. n \subseteq T
    BY <1>1, <1>2, Induction
  <2>2. QED BY <2>1
<1>4. PICK g : g = [i \in 1 .. n |-> IF i = 1 THEN ss[i] ELSE g[i - 1] \o ss[i]]
  BY <1>3
<1>5. QED BY <1>4, Zenon


(* Every item of every sequence is in the flattened one, and nothing else. *)
LEMMA RangeConcat ==
  ASSUME NEW S, NEW s \in Seq(S), NEW t \in Seq(S)
  PROVE  Range(s \o t) = Range(s) \cup Range(t)
<1>1. /\ DOMAIN (s \o t) = 1 .. Len(s) + Len(t)
      /\ DOMAIN s = 1 .. Len(s) /\ DOMAIN t = 1 .. Len(t)
      /\ Len(s) \in Nat /\ Len(t) \in Nat
      /\ \A i \in 1 .. Len(s) : (s \o t)[i] = s[i]
      /\ \A i \in 1 .. Len(t) : (s \o t)[Len(s) + i] = t[i]
  OBVIOUS
<1>2. ASSUME NEW x \in Range(s \o t)
      PROVE  x \in Range(s) \cup Range(t)
  <2>1. PICK i \in 1 .. Len(s) + Len(t) : x = (s \o t)[i]
    BY <1>1 DEF Range
  <2>2. CASE i \in 1 .. Len(s)
    BY <1>1, <2>1, <2>2 DEF Range
  <2>3. CASE i \notin 1 .. Len(s)
    <3>1. i - Len(s) \in 1 .. Len(t) /\ i = Len(s) + (i - Len(s))
      BY <1>1, <2>3
    <3>2. x = t[i - Len(s)]
      BY <1>1, <2>1, <3>1
    <3>3. QED BY <1>1, <3>1, <3>2 DEF Range
  <2>4. QED BY <2>2, <2>3
<1>3. Range(s) \subseteq Range(s \o t)
  <2>1. ASSUME NEW i \in 1 .. Len(s)
        PROVE  s[i] \in Range(s \o t)
    <3>1. i \in 1 .. Len(s) + Len(t) /\ (s \o t)[i] = s[i]
      BY <1>1
    <3>2. QED BY <1>1, <3>1 DEF Range
  <2>2. QED BY <1>1, <2>1 DEF Range
<1>4. Range(t) \subseteq Range(s \o t)
  <2>1. ASSUME NEW i \in 1 .. Len(t)
        PROVE  t[i] \in Range(s \o t)
    <3>1. Len(s) + i \in 1 .. Len(s) + Len(t) /\ (s \o t)[Len(s) + i] = t[i]
      BY <1>1
    <3>2. QED BY <1>1, <3>1 DEF Range
  <2>2. QED BY <1>1, <2>1 DEF Range
<1>5. QED BY <1>2, <1>3, <1>4

LEMMA FlattenRange ==
  ASSUME NEW S, NEW ss \in Seq(Seq(S))
  PROVE  /\ FlattenSeq(ss) \in Seq(S)
         /\ Range(FlattenSeq(ss)) = UNION {Range(ss[i]) : i \in DOMAIN ss}
<1>1. DOMAIN ss = 1 .. Len(ss) /\ Len(ss) \in Nat
  OBVIOUS
<1>2. CASE Len(ss) = 0
  <2>1. FlattenSeq(ss) = ss /\ ss = <<>> /\ DOMAIN ss = {}
    BY <1>1, <1>2 DEF FlattenSeq
  <2>2. QED BY <2>1 DEF Range
<1>3. CASE Len(ss) # 0
  <2> DEFINE n == Len(ss)
             f[i \in 1 .. n] == IF i = 1 THEN ss[i] ELSE f[i - 1] \o ss[i]
             T == {i \in 1 .. n : /\ f[i] \in Seq(S)
                                  /\ Range(f[i]) = UNION {Range(ss[j]) : j \in 1 .. i}}
  <2>1. f = [i \in 1 .. n |-> IF i = 1 THEN ss[i] ELSE f[i - 1] \o ss[i]]
    <3>1. n \in Nat \ {0}
      BY <1>1, <1>3
    <3>2. QED BY <3>1, FlattenDefined, Zenon
  <2>2. FlattenSeq(ss) = f[n]
    BY <1>3 DEF FlattenSeq
  <2> HIDE DEF f
  <2>3. 1 \in T
    <3>1. f[1] = ss[1] /\ 1 \in 1 .. n
      BY <1>1, <1>3, <2>1
    <3>2. 1 .. 1 = {1}
      OBVIOUS
    <3>3. QED BY <3>1, <3>2
  <2>4. ASSUME NEW i \in 1 .. n - 1, i \in T
        PROVE  i + 1 \in T
    <3>1. i + 1 \in 1 .. n /\ i + 1 # 1 /\ (i + 1) - 1 = i
      BY <1>1
    <3>2. f[i + 1] = f[i] \o ss[i + 1]
      BY <2>1, <3>1
    <3>3. f[i] \in Seq(S) /\ ss[i + 1] \in Seq(S)
      BY <2>4, <3>1
    <3>4. Range(f[i + 1]) = Range(f[i]) \cup Range(ss[i + 1])
      BY <3>2, <3>3, RangeConcat
    <3>5. 1 .. i + 1 = 1 .. i \cup {i + 1}
      BY <3>1
    <3>6. Range(f[i + 1]) = UNION {Range(ss[j]) : j \in 1 .. i + 1}
      BY <2>4, <3>4, <3>5
    <3>7. f[i + 1] \in Seq(S)
      BY <3>2, <3>3
    <3>8. QED BY <3>1, <3>6, <3>7
  <2>5. n \in T
    <3> HIDE DEF T
    <3>1. 1 .. n \subseteq T
      BY <1>1, <1>3, <2>3, <2>4, Induction
    <3>2. QED BY <1>1, <1>3, <3>1
  <2>6. QED BY <1>1, <2>2, <2>5
<1>4. QED BY <1>2, <1>3

(* The places kept are numbered from 1 on, in their order.                 *)
LEMMA Ranks ==
  ASSUME NEW n \in Nat, NEW kept \in SUBSET (1 .. n)
  PROVE  /\ IsFiniteSet(kept) /\ Cardinality(kept) \in Nat
         /\ \A k \in kept : Rank(k, kept) \in 1 .. Cardinality(kept)
         /\ \A j, k \in kept : j < k => Rank(j, kept) < Rank(k, kept)
         /\ \A i \in 1 .. Cardinality(kept) : \E k \in kept : Rank(k, kept) = i
<1> DEFINE UpTo(k) == {j \in kept : j <= k}
<1>0. \A k \in kept : k \in Int
  OBVIOUS
<1>1. IsFiniteSet(kept) /\ Cardinality(kept) \in Nat
  <2>1. IsFiniteSet(1 .. n)
    BY FS_Interval
  <2>2. IsFiniteSet(kept)
    BY <2>1, FS_Subset
  <2>3. QED BY <2>2, FS_CardinalityType
<1>2. ASSUME NEW k \in kept
      PROVE  /\ IsFiniteSet(UpTo(k)) /\ Rank(k, kept) = Cardinality(UpTo(k))
             /\ Rank(k, kept) \in 1 .. Cardinality(kept)
  <2>1. UpTo(k) \in SUBSET kept
    OBVIOUS
  <2>2. IsFiniteSet(UpTo(k)) /\ Cardinality(UpTo(k)) <= Cardinality(kept)
    BY <1>1, <2>1, FS_Subset
  <2>3. Cardinality(UpTo(k)) \in Nat /\ UpTo(k) # {}
    BY <2>2, FS_CardinalityType
  <2>4. Cardinality(UpTo(k)) # 0
    BY <2>2, <2>3, FS_EmptySet
  <2>5. QED BY <1>1, <2>2, <2>3, <2>4 DEF Rank
<1>3. ASSUME NEW j \in kept, NEW k \in kept, j < k
      PROVE  Rank(j, kept) < Rank(k, kept)
  <2>1. UpTo(j) \in SUBSET UpTo(k) /\ k \in UpTo(k) /\ k \notin UpTo(j)
    <3>1. j \in Int /\ k \in Int /\ k <= k /\ ~(k <= j)
      BY <1>0, <1>3
    <3>2. \A i \in kept : i <= j => i <= k
      BY <1>0, <1>3, <3>1
    <3>3. QED BY <3>1, <3>2
  <2>2. Cardinality(UpTo(j)) <= Cardinality(UpTo(k)) /\ Cardinality(UpTo(j)) # Cardinality(UpTo(k))
    BY <1>2, <2>1, FS_Subset
  <2>3. Rank(j, kept) \in Int /\ Rank(k, kept) \in Int
    <3>1. 1 .. Cardinality(kept) \subseteq Int
      BY <1>1
    <3>2. QED BY <1>2, <3>1
  <2>4. QED BY <1>2, <2>2, <2>3
<1>4. \A i \in 1 .. Cardinality(kept) : \E k \in kept : Rank(k, kept) = i
  <2> DEFINE T == 1 .. Cardinality(kept)
             f == [k \in kept |-> Rank(k, kept)]
  <2>1. IsFiniteSet(T) /\ Cardinality(T) = Cardinality(kept)
    BY <1>1, FS_Interval
  <2>2. f \in [kept -> T]
    BY <1>2
  <2>3. ASSUME NEW a \in kept, NEW b \in kept, f[a] = f[b]
        PROVE  a = b
    <3>1. Rank(a, kept) = Rank(b, kept) /\ Rank(a, kept) \in Int
      BY <2>2, <2>3
    <3>2. ~(Rank(a, kept) < Rank(b, kept)) /\ ~(Rank(b, kept) < Rank(a, kept))
      BY <3>1
    <3>3. ~(a < b) /\ ~(b < a)
      BY <1>3, <3>2
    <3>4. QED BY <1>0, <3>3
  <2>4. f \in Injection(kept, T)
    BY <2>2, <2>3 DEF Injection, IsInjective
  <2>5. f \in Surjection(kept, T)
    BY <2>1, <2>4, FS_Injection
  <2>6. QED BY <2>2, <2>5 DEF Surjection
<1>5. QED BY <1>1, <1>2, <1>3, <1>4

(* What KeepAt returns: the item at each place kept, at its rank.          *)
LEMMA KeptItems ==
  ASSUME NEW S, NEW list \in Seq(S), NEW kept \in SUBSET (DOMAIN list)
  PROVE  /\ KeepAt(list, kept) \in Seq(S)
         /\ Len(KeepAt(list, kept)) = Cardinality(kept)
         /\ \A k \in kept : KeepAt(list, kept)[Rank(k, kept)] = list[k]
         /\ \A i \in DOMAIN KeepAt(list, kept) :
              \E k \in kept : Rank(k, kept) = i /\ KeepAt(list, kept)[i] = list[k]
<1>1. DOMAIN list = 1 .. Len(list) /\ Len(list) \in Nat
  OBVIOUS
<1>2. /\ Cardinality(kept) \in Nat
      /\ \A k \in kept : Rank(k, kept) \in 1 .. Cardinality(kept)
      /\ \A j, k \in kept : j < k => Rank(j, kept) < Rank(k, kept)
      /\ \A i \in 1 .. Cardinality(kept) : \E k \in kept : Rank(k, kept) = i
  BY <1>1, Ranks
<1> DEFINE at(i) == CHOOSE k \in kept : Rank(k, kept) = i
<1>3. ASSUME NEW i \in 1 .. Cardinality(kept)
      PROVE  at(i) \in kept /\ Rank(at(i), kept) = i
  BY <1>2
<1>4. ASSUME NEW k \in kept
      PROVE  at(Rank(k, kept)) = k
  <2>1. at(Rank(k, kept)) \in kept /\ Rank(at(Rank(k, kept)), kept) = Rank(k, kept)
    BY <1>2, <1>3
  <2> HIDE DEF at
  <2>2. ~(at(Rank(k, kept)) < k) /\ ~(k < at(Rank(k, kept))) /\ Rank(k, kept) \in Int
    BY <1>2, <2>1
  <2>3. QED BY <1>1, <2>1, <2>2
<1>5. KeepAt(list, kept) = [i \in 1 .. Cardinality(kept) |-> list[at(i)]]
  BY DEF KeepAt
<1> HIDE DEF at
<1>6. \A i \in 1 .. Cardinality(kept) : list[at(i)] \in S
  BY <1>1, <1>3
<1>7. KeepAt(list, kept) \in Seq(S) /\ Len(KeepAt(list, kept)) = Cardinality(kept)
      /\ DOMAIN KeepAt(list, kept) = 1 .. Cardinality(kept)
  BY <1>2, <1>5, <1>6
<1>8. QED BY <1>2, <1>3, <1>4, <1>5, <1>7

LEMMA KeepAtRange ==
  ASSUME NEW S, NEW list \in Seq(S), NEW kept \in SUBSET (DOMAIN list)
  PROVE  /\ KeepAt(list, kept) \in Seq(S)
         /\ Range(KeepAt(list, kept)) = {list[k] : k \in kept}
<1>1. /\ KeepAt(list, kept) \in Seq(S)
      /\ \A k \in kept : Rank(k, kept) \in DOMAIN KeepAt(list, kept)
  <2>1. DOMAIN list = 1 .. Len(list) /\ Len(list) \in Nat
    OBVIOUS
  <2>2. \A k \in kept : Rank(k, kept) \in 1 .. Cardinality(kept)
    BY <2>1, Ranks
  <2>3. DOMAIN KeepAt(list, kept) = 1 .. Cardinality(kept)
    BY DEF KeepAt
  <2>4. QED BY <2>2, <2>3, KeptItems
<1>2. /\ \A k \in kept : KeepAt(list, kept)[Rank(k, kept)] = list[k]
      /\ \A i \in DOMAIN KeepAt(list, kept) : \E k \in kept : KeepAt(list, kept)[i] = list[k]
  BY KeptItems
<1>3. QED BY <1>1, <1>2 DEF Range

-----------------------------------------------------------------------------
(* What the two passes do to the methods of a configuration.               *)
LEMMA AdvertisedRange ==
  ASSUME NEW schemes \in SchemeLists \cup {<<>>}
  PROVE  /\ AdvertisedMethods(schemes) \in Seq({Password, Bearer})
         /\ AdvertisedMethods(schemes) = <<>> <=> Range(AdvertisedMethods(schemes)) = {}
<1> DEFINE kept == {k \in DOMAIN schemes : schemes[k] \in DOMAIN SchemeMethods}
           known == KeepAt(schemes, kept)
<1>1. schemes \in Seq(STRING)
  <2>1. <<>> \in Seq(STRING)
    OBVIOUS
  <2>2. QED BY <2>1, MethodsAssumption
<1>2. known \in Seq(STRING) /\ Range(known) = {schemes[k] : k \in kept}
  BY <1>1, KeepAtRange
<1>3. /\ DOMAIN known = 1 .. Len(known) /\ Len(known) \in Nat
      /\ \A k \in DOMAIN known : known[k] \in DOMAIN SchemeMethods
  <2> HIDE DEF known
  <2>1. DOMAIN known = 1 .. Len(known) /\ Len(known) \in Nat
    BY <1>2
  <2>2. \A k \in DOMAIN known : \E j \in kept : known[k] = schemes[j]
    BY <1>2 DEF Range
  <2>3. QED BY <2>1, <2>2
<1>4. AdvertisedMethods(schemes) = [k \in DOMAIN known |-> SchemeMethods[known[k]]]
  BY DEF AdvertisedMethods
<1>5. \A s \in DOMAIN SchemeMethods : SchemeMethods[s] \in {Password, Bearer}
  BY DEF SchemeMethods
<1> HIDE DEF known
<1>6. AdvertisedMethods(schemes) \in Seq({Password, Bearer})
  BY <1>3, <1>4, <1>5
<1>7. ASSUME AdvertisedMethods(schemes) # <<>>
      PROVE  Range(AdvertisedMethods(schemes)) # {}
  <2>1. 1 \in DOMAIN AdvertisedMethods(schemes)
    BY <1>6, <1>7
  <2>2. QED BY <2>1 DEF Range
<1>8. AdvertisedMethods(schemes) = <<>> => Range(AdvertisedMethods(schemes)) = {}
  BY DEF Range
<1>9. QED BY <1>6, <1>7, <1>8

LEMMA UntouchedRange ==
  ASSUME NEW auth \in Seq(AuthMethod)
  PROVE  /\ Untouched(auth) \in Seq(AuthMethod)
         /\ Range(Untouched(auth)) = {m \in Range(auth) : ~IsProbed(m)}
<1> DEFINE kept == {k \in DOMAIN auth : ~IsProbed(auth[k]) /\ \A j \in 1 .. k - 1 : auth[j] # auth[k]}
<1>1. /\ Untouched(auth) \in Seq(AuthMethod)
      /\ Range(Untouched(auth)) = {auth[k] : k \in kept}
  BY KeepAtRange DEF Untouched
<1>2. ASSUME NEW m \in Range(auth), ~IsProbed(m)
      PROVE  \E k \in kept : auth[k] = m
  <2> DEFINE T == {k \in DOMAIN auth : auth[k] = m}
  <2>1. T \subseteq Nat /\ T # {} /\ DOMAIN auth = 1 .. Len(auth)
    BY <1>2 DEF Range
  <2>2. PICK k \in T : \A j \in T : ~(<<j, k>> \in OpToRel(<, Nat))
    BY <2>1, NatLessThanWellFounded, WFMin
  <2>3. \A j \in T : ~(j < k)
    BY <2>1, <2>2 DEF OpToRel
  <2>4. \A j \in 1 .. k - 1 : auth[j] # m
    BY <2>1, <2>3
  <2>5. QED BY <1>2, <2>4
<1>3. {auth[k] : k \in kept} = {m \in Range(auth) : ~IsProbed(m)}
  BY <1>2 DEF Range
<1>4. QED BY <1>1, <1>3

LEMMA RefineAuthRange ==
  ASSUME NEW c \in Config, NEW schemes \in SchemeLists \cup {<<>>},
         NEW advertised, advertised = Range(AdvertisedMethods(schemes))
  PROVE  /\ RefineAuth(c, schemes) \in Config
         /\ SameLogin(RefineAuth(c, schemes), c)
         /\ RefineAuth(c, schemes).endpoint = c.endpoint
         /\ Range(RefineAuth(c, schemes).auth) =
              IF advertised = {} THEN Range(c.auth)
              ELSE advertised \cup {m \in Range(c.auth) : ~IsProbed(m)}
         /\ advertised \subseteq {Password, Bearer}
<1> DEFINE methods == AdvertisedMethods(schemes)
<1>1. methods \in Seq({Password, Bearer}) /\ (methods = <<>> <=> advertised = {})
  BY AdvertisedRange
<1>2. advertised \subseteq {Password, Bearer}
  BY <1>1 DEF Range
<1>3. CASE advertised = {}
  BY <1>1, <1>2, <1>3 DEF RefineAuth, SameLogin
<1>4. CASE advertised # {}
  <2>1. c.auth \in Seq(AuthMethod)
    BY DEF Config
  <2>2. /\ Untouched(c.auth) \in Seq(AuthMethod)
        /\ Range(Untouched(c.auth)) = {m \in Range(c.auth) : ~IsProbed(m)}
    BY <2>1, UntouchedRange
  <2>3. methods \in Seq(AuthMethod)
    BY <1>1, AuthAssumption
  <2>4. /\ methods \o Untouched(c.auth) \in Seq(AuthMethod)
        /\ Range(methods \o Untouched(c.auth)) = advertised \cup Range(Untouched(c.auth))
    BY <2>2, <2>3, RangeConcat
  <2>5. RefineAuth(c, schemes) = [c EXCEPT !.auth = methods \o Untouched(c.auth)]
    BY <1>1, <1>4 DEF RefineAuth
  <2> HIDE DEF methods
  <2>6. QED BY <1>2, <1>4, <2>2, <2>4, <2>5 DEF Config, SameLogin
<1>5. QED BY <1>3, <1>4

LEMMA ReplaceIssuersRange ==
  ASSUME NEW c \in Config, NEW grants,
         \A i \in DOMAIN grants : grants[i] \in Seq(AuthMethod)
  PROVE  /\ ReplaceIssuers(c, grants) \in Config
         /\ SameLogin(ReplaceIssuers(c, grants), c)
         /\ ReplaceIssuers(c, grants).endpoint = c.endpoint
         /\ Range(ReplaceIssuers(c, grants).auth) =
              UNION {IF m \in DOMAIN grants THEN Range(grants[m]) ELSE {m} : m \in Range(c.auth)}
<1> DEFINE ss == [k \in DOMAIN c.auth |->
                    IF c.auth[k] \in DOMAIN grants THEN grants[c.auth[k]] ELSE <<c.auth[k]>>]
<1>1. c.auth \in Seq(AuthMethod)
  BY DEF Config
<1>2. DOMAIN c.auth = 1 .. Len(c.auth) /\ Len(c.auth) \in Nat
  BY <1>1
<1>3. ASSUME NEW k \in DOMAIN c.auth
      PROVE  /\ ss[k] \in Seq(AuthMethod)
             /\ Range(ss[k]) = IF c.auth[k] \in DOMAIN grants THEN Range(grants[c.auth[k]])
                               ELSE {c.auth[k]}
  <2>1. c.auth[k] \in AuthMethod
    BY <1>1, <1>3
  <2>2. CASE c.auth[k] \in DOMAIN grants
    BY <2>2
  <2>3. CASE c.auth[k] \notin DOMAIN grants
    BY <2>1, <2>3 DEF Range
  <2>4. QED BY <2>2, <2>3
<1>4. ReplaceIssuers(c, grants) = [c EXCEPT !.auth = FlattenSeq(ss)]
  BY DEF ReplaceIssuers
<1>5. DOMAIN ss = DOMAIN c.auth
  OBVIOUS
<1> HIDE DEF ss
<1>6. ss \in Seq(Seq(AuthMethod))
  <2>1. ss = [k \in 1 .. Len(c.auth) |-> ss[k]]
    BY <1>2, <1>5 DEF ss
  <2>2. ss \in [1 .. Len(c.auth) -> Seq(AuthMethod)]
    BY <1>2, <1>3, <2>1
  <2>3. QED BY <1>2, <2>2
<1>7. /\ FlattenSeq(ss) \in Seq(AuthMethod)
      /\ Range(FlattenSeq(ss)) = UNION {Range(ss[k]) : k \in DOMAIN ss}
  BY <1>6, FlattenRange
<1>8. UNION {Range(ss[k]) : k \in DOMAIN ss} =
        UNION {IF m \in DOMAIN grants THEN Range(grants[m]) ELSE {m} : m \in Range(c.auth)}
  <2> DEFINE Then(m) == IF m \in DOMAIN grants THEN Range(grants[m]) ELSE {m}
  <2>1. \A k \in DOMAIN c.auth : Range(ss[k]) = Then(c.auth[k])
    BY <1>3
  <2> HIDE DEF Then
  <2>2. UNION {Range(ss[k]) : k \in DOMAIN ss} = UNION {Then(c.auth[k]) : k \in DOMAIN c.auth}
    BY <1>5, <2>1
  <2>3. UNION {Then(c.auth[k]) : k \in DOMAIN c.auth} = UNION {Then(m) : m \in Range(c.auth)}
    BY DEF Range
  <2>4. QED BY <2>2, <2>3 DEF Then
<1>9. QED BY <1>4, <1>7, <1>8 DEF Config, SameLogin

-----------------------------------------------------------------------------
(* What a compose returns.  The report is the list collected, then that    *)
(* list refined, entry by entry.                                           *)
Staged ==
  /\ report \in Seq(Config)
  /\ phase = "probe" => mode # "raw" /\ report = configs
  /\ (phase = "issuers" /\ mode # "raw") =>
       /\ DOMAIN probes = DOMAIN configs
       /\ \A i \in DOMAIN probes : probes[i] \in Probes
       /\ report = [i \in DOMAIN configs |-> RefineAuth(configs[i], probes[i].schemes)]

LEMMA RefinedReport ==
  ASSUME report \in Seq(Config), DOMAIN probes = DOMAIN report,
         \A i \in DOMAIN probes : probes[i] \in Probes
  PROVE  /\ Refined \in Seq(Config) /\ DOMAIN Refined = DOMAIN report
         /\ \A i \in DOMAIN report : Refined[i] = RefineAuth(report[i], probes[i].schemes)
<1>1. \A i \in DOMAIN report : RefineAuth(report[i], probes[i].schemes) \in Config
  <2>1. ASSUME NEW i \in DOMAIN report
        PROVE  report[i] \in Config /\ probes[i].schemes \in SchemeLists \cup {<<>>}
    BY DEF Probes
  <2>2. QED BY <2>1, RefineAuthRange
<1>2. DOMAIN report = 1 .. Len(report) /\ Len(report) \in Nat
  OBVIOUS
<1>3. Refined \in [1 .. Len(report) -> Config]
  BY <1>1, <1>2 DEF Refined
<1>4. QED BY <1>2, <1>3 DEF Refined

LEMMA ResolvedReport ==
  ASSUME report \in Seq(Config), NEW grants,
         \A i \in DOMAIN grants : grants[i] \in Seq(AuthMethod)
  PROVE  /\ Resolved(report, grants) \in Seq(Config)
         /\ DOMAIN Resolved(report, grants) = DOMAIN report
         /\ \A i \in DOMAIN report :
              Resolved(report, grants)[i] = ReplaceIssuers(report[i], grants)
<1>1. \A i \in DOMAIN report : ReplaceIssuers(report[i], grants) \in Config
  <2>1. \A i \in DOMAIN report : report[i] \in Config
    OBVIOUS
  <2>2. QED BY <2>1, ReplaceIssuersRange
<1>2. DOMAIN report = 1 .. Len(report) /\ Len(report) \in Nat
  OBVIOUS
<1>3. Resolved(report, grants) \in [1 .. Len(report) -> Config]
  BY <1>1, <1>2 DEF Resolved
<1>4. QED BY <1>2, <1>3 DEF Resolved

(* The grants an issuer may have resolved to are methods.                  *)
LEMMA GrantsType ==
  ASSUME ThreadsOK, phase = "issuers", NEW i \in DOMAIN fetches
  PROVE  /\ i \in Issuer
         /\ fetches[i].grants \in Seq(AuthMethod)
         /\ \/ fetches[i].grants = <<i>>
            \/ fetches[i].grants \in Seq(AuthMethod \ Issuer)
<1>1. i \in Issuer /\ fetches[i].grants \in GrantLists \cup {<<i>>}
  BY DEF ThreadsOK, Fetches, GrantsOf, IssuersOf
<1>2. <<i>> \in Seq(AuthMethod)
  BY <1>1, AuthAssumption
<1>3. ASSUME NEW g \in GrantLists
      PROVE  g \in Seq(AuthMethod \ Issuer) /\ g \in Seq(AuthMethod)
  BY MethodsAssumption
<1>4. QED BY <1>1, <1>2, <1>3

LEMMA StagedStep ==
  ASSUME ThreadsOK, CollectorTypeOK, Staged, [Next]_vars
  PROVE  Staged'
<1> USE DEF Staged
<1>1. CASE FinishCollect
  BY <1>1 DEF FinishCollect, CollectorTypeOK, collectorVars
<1>2. CASE FlattenNext
  <2> DEFINE m == Priority[turn + 1]
             list == output[m]
             kept == {k \in DOMAIN list : Asked(services, list[k].service)}
  <2>1. m \in Mechanism
    BY <1>2, NextMechanism DEF FlattenNext
  <2>2. list \in Seq(Config)
    BY <2>1, BatchAssumption DEF ThreadsOK
  <2>3. OnlyAsked(list, services) \in Seq(Config)
    <3> HIDE DEF list
    <3>1. QED BY <2>2, KeepAtRange DEF OnlyAsked
  <2>4. report' \in Seq(Config) /\ phase' = "collect"
    BY <1>2, <2>3 DEF FlattenNext
  <2>5. QED BY <2>4
<1>3. CASE FinishRaw
  BY <1>3 DEF FinishRaw
<1>4. CASE \E i \in DOMAIN probes : ProbeUrl(i)
  BY <1>4 DEF ProbeUrl, collectorVars
<1>5. CASE Refine
  <2>1. /\ report = configs /\ mode # "raw" /\ DOMAIN probes = DOMAIN report
        /\ \A i \in DOMAIN probes : probes[i] \in Probes
    BY <1>5 DEF Refine, ThreadsOK
  <2>2. report' \in Seq(Config)
    BY <1>5, <2>1, RefinedReport DEF Refine
  <2>3. UNCHANGED <<configs, probes, mode>> /\ phase' = "issuers" /\ report' = Refined
    BY <1>5 DEF Refine, collectorVars
  <2>4. report' = [i \in DOMAIN configs |-> RefineAuth(configs[i], probes[i].schemes)]
    BY <2>1, <2>3 DEF Refined
  <2>5. QED BY <2>1, <2>2, <2>3, <2>4
<1>6. CASE Replace
  <2> DEFINE grants == [i \in DOMAIN fetches |-> fetches[i].grants]
  <2>1. \A i \in DOMAIN grants : grants[i] \in Seq(AuthMethod)
    BY <1>6, GrantsType DEF Replace
  <2>2. Resolved(report, grants) \in Seq(Config)
    <3> HIDE DEF grants
    <3>1. QED BY <2>1, ResolvedReport
  <2>3. QED BY <1>6, <2>2 DEF Replace
<1>7. CASE \E i \in DOMAIN fetches : FetchOauth(i) \/ FetchOpenid(i)
  BY <1>7 DEF FetchOauth, FetchOpenid, collectorVars
<1>8. CASE Reject \/ Spawn \/ Join \/ CollectNext \/ \E m \in Mechanism : EndThread(m)
  <2>1. report' = report
    BY <1>8 DEF Reject, Spawn, Join, CollectNext, EndThread
  <2>2. phase' \notin {"probe", "issuers"}
    BY <1>8 DEF Reject, Spawn, Join, CollectNext, EndThread, ThreadsOK
  <2>3. QED BY <2>1, <2>2
<1>9. CASE Absorb
  BY <1>9 DEF Absorb, ownVars
<1>10. CASE UNCHANGED vars
  BY <1>10 DEF vars, ownVars, collectorVars
<1>11. QED
  BY <1>1, <1>2, <1>3, <1>4, <1>5, <1>6, <1>7, <1>8, <1>9, <1>10 DEF Next, Returned

LEMMA ComposeStaged == Spec => [](CollectorTypeOK /\ ThreadsOK /\ Staged)
<1>1. Init => Staged
  BY DEF Init, Staged
<1>2. QED BY <1>1, ComposeCollects, TypeCorrect, ThreadsCorrect, StagedStep, PTL DEF Spec

(* The types are kept by every step of every thread, the two passes over   *)
(* the methods of the report included.                                     *)
THEOREM ComposeTypeCorrect == Spec => []TypeOK
<1>1. CollectorTypeOK /\ ThreadsOK /\ Staged => TypeOK
  BY DEF TypeOK, Staged
<1>2. QED BY <1>1, ComposeStaged, PTL

(* The methods an entry may be logged in with by password or bearer token  *)
(* are its own endpoint's, or those collected when its endpoint has none.  *)
THEOREM ProbesAreOwn == Spec => []ProbesRefineOwnConfig
<1>1. ASSUME CollectorTypeOK, Staged
      PROVE  ProbesRefineOwnConfig
  <2> SUFFICES ASSUME phase = "issuers", mode # "raw"
               PROVE  /\ Len(report) = Len(configs)
                      /\ \A i \in DOMAIN report :
                           LET advertised == Range(AdvertisedMethods(probes[i].schemes))
                               probed(c) == {m \in Range(c.auth) : IsProbed(m)}
                           IN  probed(report[i]) =
                                 IF advertised = {} THEN probed(configs[i]) ELSE advertised
    BY DEF ProbesRefineOwnConfig
  <2>1. /\ DOMAIN probes = DOMAIN configs
        /\ \A i \in DOMAIN probes : probes[i] \in Probes
        /\ report = [i \in DOMAIN configs |-> RefineAuth(configs[i], probes[i].schemes)]
        /\ report \in Seq(Config) /\ configs \in Seq(Config)
    BY <1>1 DEF Staged, CollectorTypeOK
  <2>2. Len(report) = Len(configs)
    BY <2>1
  <2>3. ASSUME NEW i \in DOMAIN report, NEW advertised,
               advertised = Range(AdvertisedMethods(probes[i].schemes))
        PROVE  {m \in Range(report[i].auth) : IsProbed(m)} =
                 IF advertised = {} THEN {m \in Range(configs[i].auth) : IsProbed(m)}
                 ELSE advertised
    <3>1. /\ configs[i] \in Config /\ probes[i].schemes \in SchemeLists \cup {<<>>}
          /\ report[i] = RefineAuth(configs[i], probes[i].schemes)
      BY <2>1 DEF Probes
    <3>2. /\ Range(report[i].auth) =
               IF advertised = {} THEN Range(configs[i].auth)
               ELSE advertised \cup {m \in Range(configs[i].auth) : ~IsProbed(m)}
          /\ advertised \subseteq {Password, Bearer}
      <4>1. /\ Range(RefineAuth(configs[i], probes[i].schemes).auth) =
                 IF advertised = {} THEN Range(configs[i].auth)
                 ELSE advertised \cup {m \in Range(configs[i].auth) : ~IsProbed(m)}
            /\ advertised \subseteq {Password, Bearer}
        BY <2>3, <3>1, RefineAuthRange
      <4>2. QED BY <3>1, <4>1, Zenon
    <3>3. \A m \in advertised : IsProbed(m)
      BY <3>2 DEF IsProbed
    <3>4. QED BY <3>2, <3>3
  <2>4. QED BY <2>2, <2>3
<1>2. QED BY <1>1, ComposeStaged, PTL

-----------------------------------------------------------------------------
(* No bare issuer that resolved is left in any entry.                      *)
LEMMA IssuersSettledStep ==
  ASSUME ThreadsOK, Staged, IssuersSettled, [Next]_vars
  PROVE  IssuersSettled'
<1>1. CASE Replace
  <2> DEFINE grants == [i \in DOMAIN fetches |-> fetches[i].grants]
  <2>1. /\ phase = "issuers" /\ report' = Resolved(report, grants)
        /\ UNCHANGED fetches /\ DOMAIN fetches = IssuersOf(report)
    BY <1>1 DEF Replace, ThreadsOK
  <2>2. \A i \in DOMAIN grants : grants[i] \in Seq(AuthMethod)
    BY <2>1, GrantsType
  <2>3. /\ DOMAIN grants = DOMAIN fetches
        /\ \A m \in DOMAIN fetches : grants[m] = fetches[m].grants
    OBVIOUS
  <2> HIDE DEF grants
  <2>4. ASSUME NEW i \in DOMAIN report', NEW issuer \in Range(report'[i].auth) \cap Issuer
        PROVE  issuer \in DOMAIN fetches /\ fetches[issuer].grants = <<issuer>>
    <3>1. /\ i \in DOMAIN report /\ report[i] \in Config
          /\ report'[i] = ReplaceIssuers(report[i], grants)
      BY <2>1, <2>2, ResolvedReport DEF Staged
    <3>2. Range(report'[i].auth) =
            UNION {IF m \in DOMAIN grants THEN Range(grants[m]) ELSE {m} :
                     m \in Range(report[i].auth)}
      BY <2>2, <3>1, ReplaceIssuersRange
    <3>3. PICK m \in Range(report[i].auth) :
            issuer \in IF m \in DOMAIN grants THEN Range(grants[m]) ELSE {m}
      BY <3>2
    <3>4. CASE m \in DOMAIN grants
      <4>1. issuer \in Range(fetches[m].grants) /\ m \in DOMAIN fetches
        BY <2>3, <3>3, <3>4
      <4>2. fetches[m].grants \notin Seq(AuthMethod \ Issuer)
        BY <4>1 DEF Range
      <4>3. fetches[m].grants = <<m>>
        BY <2>1, <4>1, <4>2, GrantsType
      <4>4. issuer = m
        BY <4>1, <4>3 DEF Range
      <4>5. QED BY <4>1, <4>3, <4>4
    <3>5. CASE m \notin DOMAIN grants
      <4>1. issuer = m
        BY <3>3, <3>5
      <4>2. m \in IssuersOf(report)
        BY <3>1, <4>1 DEF IssuersOf
      <4>3. QED BY <2>1, <2>3, <3>5, <4>2
    <3>6. QED BY <3>4, <3>5
  <2>5. UNCHANGED fetches
    BY <2>1
  <2>6. QED BY <2>4, <2>5 DEF IssuersSettled
<1>2. CASE ~Replace
  <2>1. \/ phase' # "done"
        \/ UNCHANGED <<phase, report, fetches>>
    BY <1>2 DEF Next, vars, ownVars, Reject, Spawn, Join, EndThread, CollectNext, Absorb,
         FinishCollect, FlattenNext, FinishRaw, ProbeUrl, Refine, FetchOauth,
         FetchOpenid, Returned
  <2>2. QED BY <2>1 DEF IssuersSettled
<1>3. QED BY <1>1, <1>2

(* Whatever the metadata, an issuer is left in an entry only when it did   *)
(* not resolve.                                                            *)
THEOREM IssuersAreSettled == Spec => []IssuersSettled
<1>1. Init => IssuersSettled
  BY DEF Init, IssuersSettled
<1>2. QED BY <1>1, ComposeStaged, IssuersSettledStep, PTL DEF Spec

-----------------------------------------------------------------------------
(* The threads started are those the request is relevant to.               *)
StartedRelevant ==
  phase \notin {"start", "failed"} =>
    started = {m \in Mechanism \ {"provider"} : Relevant(m, services, provider)}

LEMMA StartedRelevantStep ==
  ASSUME ThreadsOK, StartedRelevant, [Next]_vars
  PROVE  StartedRelevant'
<1>1. services' = services
  <2>1. [CollectorNext]_collectorVars
    BY CollectorSteps
  <2>2. QED BY <2>1 DEF CollectorNext, collectorVars, Loop, Skip, Push, Match,
                        MergeMethod, Collect
<1>2. CASE Spawn
  BY <1>1, <1>2 DEF Spawn, StartedRelevant, Relevant, Asked
<1>3. CASE ~Spawn
  <2>1. /\ UNCHANGED <<started, provider>>
        /\ \/ phase' \in {"start", "failed"}
           \/ phase \notin {"start", "failed"}
    BY <1>3 DEF Next, vars, ownVars, Reject, Join, EndThread, CollectNext, Absorb,
         FinishCollect, FlattenNext, FinishRaw, ProbeUrl, Refine, FetchOauth,
         FetchOpenid, Replace, Returned
  <2>2. QED BY <1>1, <2>1 DEF StartedRelevant, Relevant, Asked
<1>4. QED BY <1>2, <1>3

(* A mechanism passed over offers no service the request asks for.         *)
LEMMA IrrelevantOffersNothing ==
  ASSUME NEW m \in Mechanism \ {"provider", "mx"}, ~Relevant(m, services, provider),
         NEW s \in Offered[m]
  PROVE  ~Asked(services, s)
<1>1. CASE m \in {"isp_main", "isp_fallback", "mailconf", "ispdb"}
  BY <1>1 DEF Relevant, Offered
<1>2. CASE m = "srv"
  BY <1>2 DEF Relevant, Offered
<1>3. CASE m \in {"caldav", "carddav", "jmap"}
  BY <1>3 DEF Relevant, Offered
<1>4. CASE m = "pacc"
  BY <1>4 DEF Relevant
<1>5. QED BY <1>1, <1>2, <1>3, <1>4 DEF Mechanism

(* Nothing wanted is missed by not starting a mechanism.                   *)
THEOREM SkippedCouldNotHelp == Spec => []SkippedAreIrrelevant
<1>1. Init => StartedRelevant
  BY DEF Init, StartedRelevant
<1>2. ASSUME StartedRelevant
      PROVE  SkippedAreIrrelevant
  <2> SUFFICES ASSUME phase \notin {"start", "failed"},
                      NEW m \in Mechanism \ (started \cup {"provider"})
               PROVE  \/ m = "mx" /\ provider # NoProvider
                      \/ \A found \in Finds[m] : \A c \in Range(found) :
                           ~Asked(services, c.service)
    BY DEF SkippedAreIrrelevant
  <2>1. ~Relevant(m, services, provider)
    BY <1>2 DEF StartedRelevant
  <2>2. CASE m = "mx"
    BY <2>1, <2>2 DEF Relevant
  <2>3. CASE m # "mx"
    BY <2>1, <2>3, IrrelevantOffersNothing, OfferedAssumption
  <2>4. QED BY <2>2, <2>3
<1>3. QED BY <1>1, <1>2, ThreadsCorrect, StartedRelevantStep, PTL DEF Spec

-----------------------------------------------------------------------------
(* End to end: from what a mechanism finds to what the call returns.  What *)
(* was output up to this turn is with the collector, or in a raw report.   *)
Gathered ==
  /\ phase \in {"start", "join"} => turn = 0
  /\ mode # "raw" =>
       \A k \in 1 .. turn : Wanted(Priority[k]) \subseteq Range(taken) \cup Range(batch)
  /\ (mode = "raw" /\ phase = "collect") =>
       \A k \in 1 .. turn : Wanted(Priority[k]) \subseteq Range(report)

(* A list has c, some of its methods aside.                                *)
ReportedIn(list, c, dropped) ==
  \E i \in DOMAIN list :
    /\ SameLogin(list[i], c)
    /\ Covers(list[i].endpoint, c.endpoint)
    /\ Range(c.auth) \ dropped \subseteq Range(list[i].auth)

Reported ==
  mode # "first" =>
    /\ phase = "probe" =>
         \A m \in Mechanism : \A c \in Wanted(m) : ReportedIn(report, c, {})
    /\ phase = "issuers" =>
         \A m \in Mechanism : \A c \in Wanted(m) :
           ReportedIn(report, c, IF mode = "raw" THEN {} ELSE {Password, Bearer})

LEMMA EveryTurn ==
  ASSUME NEW m \in Mechanism
  PROVE  \E k \in 1 .. Len(Priority) : Priority[k] = m
<1>1. Len(Priority) = 11
  BY DEF Priority
<1>2. \E k \in 1 .. 11 : Priority[k] = m
  BY DEF Priority, Mechanism
<1>3. QED BY <1>1, <1>2

LEMMA AbsorbKeeps ==
  ASSUME CollectorTypeOK, Loop, NEW c \in Range(taken) \cup Range(batch),
         Asked(services, c.service)
  PROVE  c \in Range(taken') \cup Range(batch')
<1>1. batch # <<>> => Range(batch) = {Head(batch)} \cup Range(Tail(batch))
  BY RangeHeadTail DEF CollectorTypeOK
<1>2. Range(Append(taken, Head(batch))) = Range(taken) \cup {Head(batch)}
  BY RangeAppend DEF CollectorTypeOK
<1>3. CASE Skip
  BY <1>1, <1>3 DEF Skip, Wants, Asked
<1>4. CASE Push
  BY <1>1, <1>2, <1>4 DEF Push
<1>5. CASE Match
  BY <1>1, <1>2, <1>5 DEF Match
<1>6. CASE MergeMethod
  BY <1>6 DEF MergeMethod
<1>7. QED BY <1>3, <1>4, <1>5, <1>6 DEF Loop

LEMMA GatheredStep ==
  ASSUME ThreadsOK, CollectorTypeOK, Staged, Gathered, [Next]_vars
  PROVE  Gathered'
<1> USE DEF Gathered
<1>1. services' = services
  <2>1. [CollectorNext]_collectorVars
    BY CollectorSteps
  <2>2. QED BY <2>1 DEF CollectorNext, collectorVars, Loop, Skip, Push, Match,
                        MergeMethod, Collect
<1>2. ASSUME UNCHANGED output
      PROVE  \A m : Wanted(m)' = Wanted(m)
  BY <1>1, <1>2 DEF Wanted, Asked
<1>3. CASE Spawn \/ \E m \in Mechanism : EndThread(m)
  <2>1. turn' = 0 /\ phase' = "join"
    BY <1>3 DEF Spawn, EndThread, ThreadsOK
  <2>2. QED BY <2>1
<1>4. CASE CollectNext
  <2>1. /\ mode # "raw" /\ UNCHANGED <<output, taken, mode, phase>> /\ phase = "collect"
        /\ batch = <<>> /\ batch' = output[Priority[turn + 1]] /\ turn' = turn + 1
    BY <1>4 DEF CollectNext, Idle, Collect
  <2>2. ASSUME NEW k \in 1 .. turn', NEW c \in Wanted(Priority[k])
        PROVE  c \in Range(taken') \cup Range(batch')
    <3>1. CASE k = turn + 1
      BY <2>1, <2>2, <3>1 DEF Wanted
    <3>2. CASE k # turn + 1
      <4>1. k \in 1 .. turn
        BY <2>1, <2>2, <3>2 DEF ThreadsOK
      <4>2. c \in Range(taken) \cup Range(batch) /\ Range(batch) = {}
        BY <2>1, <2>2, <4>1 DEF Range
      <4>3. QED BY <2>1, <4>2
    <3>3. QED BY <3>1, <3>2
  <2>3. QED BY <1>2, <2>1, <2>2
<1>5. CASE Absorb
  <2>1. Loop /\ UNCHANGED <<mode, phase, turn, output, report>> /\ phase = "collect"
    BY <1>5 DEF Absorb, ownVars
  <2>2. ASSUME mode # "raw", NEW k \in 1 .. turn, NEW c \in Wanted(Priority[k])
        PROVE  c \in Range(taken') \cup Range(batch')
    <3>1. c \in Range(taken) \cup Range(batch) /\ Asked(services, c.service)
      BY <2>2 DEF Wanted
    <3>2. QED BY <2>1, <3>1, AbsorbKeeps
  <2>3. QED BY <1>2, <2>1, <2>2
<1>6. CASE FlattenNext
  <2> DEFINE list == output[Priority[turn + 1]]
             kept == {k \in DOMAIN list : Asked(services, list[k].service)}
  <2>1. /\ mode = "raw" /\ UNCHANGED <<output, mode, phase>> /\ phase = "collect"
        /\ report' = report \o OnlyAsked(list, services) /\ turn' = turn + 1
    BY <1>6 DEF FlattenNext
  <2>2. Priority[turn + 1] \in Mechanism
    BY <1>6, NextMechanism DEF FlattenNext
  <2>3. list \in Seq(Config)
    BY <2>2, BatchAssumption DEF ThreadsOK
  <2>4. Wanted(Priority[turn + 1]) = {list[k] : k \in kept}
    BY DEF Wanted, Range
  <2> HIDE DEF list
  <2>5. /\ OnlyAsked(list, services) \in Seq(Config)
        /\ Range(OnlyAsked(list, services)) = {list[k] : k \in kept}
    BY <2>3, KeepAtRange DEF OnlyAsked
  <2>6. Range(report') = Range(report) \cup Wanted(Priority[turn + 1])
    BY <2>1, <2>4, <2>5, RangeConcat DEF Staged
  <2>7. ASSUME NEW k \in 1 .. turn'
        PROVE  Wanted(Priority[k]) \subseteq Range(report')
    <3>1. k = turn + 1 \/ k \in 1 .. turn
      BY <2>1, <2>7 DEF ThreadsOK
    <3>2. QED BY <2>1, <2>6, <3>1
  <2>8. QED BY <1>2, <2>1, <2>7
<1>7. CASE Join
  <2>1. UNCHANGED <<output, turn>> /\ turn = 0
    BY <1>7 DEF Join
  <2>2. phase' = "collect"
    BY <1>7 DEF Join
  <2>3. QED BY <2>1, <2>2
<1>8. CASE ~(Spawn \/ (\E m \in Mechanism : EndThread(m)) \/ CollectNext \/ Absorb
             \/ FlattenNext \/ Join)
  <2>1. /\ UNCHANGED <<output, taken, batch, turn, mode>>
        /\ \/ UNCHANGED <<report, phase>>
           \/ phase' \in {"failed", "probe", "issuers", "done"}
    BY <1>8 DEF Next, vars, ownVars, collectorVars, Reject, FinishCollect, FinishRaw,
         ProbeUrl, Refine, FetchOauth, FetchOpenid, Replace, Returned
  <2>2. QED BY <1>2, <2>1
<1>9. QED BY <1>3, <1>4, <1>5, <1>6, <1>7, <1>8

LEMMA ReportedStep ==
  ASSUME ThreadsOK, CollectorTypeOK, Staged, Represented, Gathered, Reported,
         EveryFindingReported, [Next]_vars
  PROVE  Reported' /\ EveryFindingReported'
<1>1. services' = services
  <2>1. [CollectorNext]_collectorVars
    BY CollectorSteps
  <2>2. QED BY <2>1 DEF CollectorNext, collectorVars, Loop, Skip, Push, Match,
                        MergeMethod, Collect
<1>2. ASSUME UNCHANGED output
      PROVE  \A m : Wanted(m)' = Wanted(m)
  BY <1>1, <1>2 DEF Wanted, Asked
<1>3. CASE FinishCollect
  <2>1. /\ phase = "collect" /\ mode # "raw" /\ Idle /\ Stopped
        /\ report' = configs /\ phase' = "probe" /\ UNCHANGED <<output, mode>>
    BY <1>3 DEF FinishCollect
  <2>2. ASSUME mode # "first", NEW m \in Mechanism, NEW c \in Wanted(m)
        PROVE  ReportedIn(report', c, {})
    <3>1. PICK k \in 1 .. turn : Priority[k] = m
      BY <2>1, <2>2, EveryTurn DEF Stopped
    <3>2. c \in Range(taken) /\ merge = NoMerge
      BY <2>1, <2>2, <3>1 DEF Gathered, Idle, Range
    <3>3. PICK i \in DOMAIN configs : Represents(configs[i], c, {})
      BY <3>2 DEF Represented, Range
    <3>4. QED BY <2>1, <3>3 DEF Represents, ReportedIn
  <2>3. QED BY <1>2, <2>1, <2>2 DEF Reported, EveryFindingReported
<1>4. CASE FinishRaw
  <2>1. /\ phase = "collect" /\ mode = "raw" /\ turn = Len(Priority)
        /\ phase' = "issuers" /\ UNCHANGED <<output, mode, report>>
    BY <1>4 DEF FinishRaw
  <2>2. ASSUME NEW m \in Mechanism, NEW c \in Wanted(m)
        PROVE  ReportedIn(report', c, {})
    <3>1. PICK k \in 1 .. turn : Priority[k] = m
      BY <2>1, EveryTurn
    <3>2. PICK i \in DOMAIN report : report[i] = c
      BY <2>1, <2>2, <3>1 DEF Gathered, Range
    <3>3. QED BY <2>1, <3>2 DEF ReportedIn, SameLogin, Covers, Equivalent
  <2>3. QED BY <1>2, <2>1, <2>2 DEF Reported, EveryFindingReported
<1>5. CASE Refine
  <2>1. /\ phase = "probe" /\ mode # "raw" /\ report' = Refined /\ phase' = "issuers"
        /\ UNCHANGED <<output, mode>>
        /\ DOMAIN probes = DOMAIN report /\ \A i \in DOMAIN probes : probes[i] \in Probes
    BY <1>5 DEF Refine, Staged, ThreadsOK
  <2>2. ASSUME mode # "first", NEW m \in Mechanism, NEW c \in Wanted(m)
        PROVE  ReportedIn(report', c, {Password, Bearer})
    <3>1. PICK i \in DOMAIN report :
            /\ SameLogin(report[i], c) /\ Covers(report[i].endpoint, c.endpoint)
            /\ Range(c.auth) \subseteq Range(report[i].auth)
      BY <2>1, <2>2 DEF Reported, ReportedIn
    <3>2. /\ i \in DOMAIN report' /\ report[i] \in Config
          /\ report'[i] = RefineAuth(report[i], probes[i].schemes)
          /\ probes[i].schemes \in SchemeLists \cup {<<>>}
      BY <2>1, RefinedReport DEF Staged, Probes
    <3> DEFINE e == RefineAuth(report[i], probes[i].schemes)
    <3>3. /\ SameLogin(e, report[i]) /\ e.endpoint = report[i].endpoint
          /\ \A method \in Range(report[i].auth) : IsProbed(method) \/ method \in Range(e.auth)
      <4>1. PICK advertised : advertised = Range(AdvertisedMethods(probes[i].schemes))
        OBVIOUS
      <4>2. /\ SameLogin(e, report[i]) /\ e.endpoint = report[i].endpoint
            /\ Range(e.auth) = IF advertised = {} THEN Range(report[i].auth)
                               ELSE advertised \cup {m1 \in Range(report[i].auth) : ~IsProbed(m1)}
        BY <3>2, <4>1, RefineAuthRange
      <4> HIDE DEF e
      <4>3. QED BY <4>2
    <3>4. QED BY <3>1, <3>2, <3>3 DEF ReportedIn, SameLogin, IsProbed
  <2>3. QED BY <1>2, <2>1, <2>2 DEF Reported, EveryFindingReported
<1>6. CASE Replace
  <2> DEFINE grants == [i \in DOMAIN fetches |-> fetches[i].grants]
             dropped == IF mode = "raw" THEN {} ELSE {Password, Bearer}
  <2>1. /\ phase = "issuers" /\ report' = Resolved(report, grants) /\ phase' = "done"
        /\ UNCHANGED <<output, mode, fetches>>
    BY <1>6 DEF Replace
  <2>2. \A i \in DOMAIN grants : grants[i] \in Seq(AuthMethod) /\ i \in Issuer
    BY <2>1, GrantsType
  <2>3. /\ DOMAIN grants = DOMAIN fetches
        /\ \A m \in DOMAIN fetches : grants[m] = fetches[m].grants
    OBVIOUS
  <2> HIDE DEF grants
  <2>4. ASSUME mode # "first", NEW m \in Mechanism, NEW c \in Wanted(m)
        PROVE  \E i \in DOMAIN report' :
                 /\ SameLogin(report'[i], c) /\ Covers(report'[i].endpoint, c.endpoint)
                 /\ \A method \in Range(c.auth) : KeptIn(method, report'[i])
    <3>1. PICK i \in DOMAIN report :
            /\ SameLogin(report[i], c) /\ Covers(report[i].endpoint, c.endpoint)
            /\ Range(c.auth) \ dropped \subseteq Range(report[i].auth)
      BY <2>1, <2>4 DEF Reported, ReportedIn
    <3>2. /\ i \in DOMAIN report' /\ report[i] \in Config
          /\ report'[i] = ReplaceIssuers(report[i], grants)
      BY <2>1, <2>2, ResolvedReport DEF Staged
    <3>3. /\ SameLogin(report'[i], report[i]) /\ report'[i].endpoint = report[i].endpoint
          /\ Range(report'[i].auth) =
               UNION {IF n \in DOMAIN grants THEN Range(grants[n]) ELSE {n} :
                        n \in Range(report[i].auth)}
      BY <2>2, <3>2, ReplaceIssuersRange
    <3>4. ASSUME NEW method \in Range(c.auth)
          PROVE  KeptIn(method, report'[i])
      <4>1. CASE method \in dropped
        BY <4>1 DEF KeptIn, IsProbed
      <4>2. CASE method \notin dropped /\ method \notin DOMAIN grants
        BY <3>1, <3>3, <4>2 DEF KeptIn
      <4>3. CASE method \notin dropped /\ method \in DOMAIN grants
        <5>1. method \in Issuer /\ Range(grants[method]) \subseteq Range(report'[i].auth)
          BY <2>2, <3>1, <3>3, <4>3
        <5>2. QED BY <2>3, <4>3, <5>1 DEF KeptIn
      <4>4. QED BY <4>1, <4>2, <4>3
    <3>5. QED BY <3>1, <3>2, <3>3, <3>4 DEF SameLogin
  <2>5. \A method, e : KeptIn(method, e)' = KeptIn(method, e)
    BY <2>1 DEF KeptIn
  <2>6. EveryFindingReported'
    BY <1>2, <2>1, <2>4, <2>5 DEF EveryFindingReported
  <2>7. QED BY <2>1, <2>6 DEF Reported
<1>7. CASE ~(FinishCollect \/ FinishRaw \/ Refine \/ Replace)
  <2>1. \/ phase' \notin {"probe", "issuers", "done"}
        \/ UNCHANGED <<phase, mode, output, report>> /\ (phase = "done" => UNCHANGED fetches)
    BY <1>7 DEF Next, vars, ownVars, Reject, Spawn, Join, EndThread, CollectNext, Absorb,
         FlattenNext, ProbeUrl, FetchOauth, FetchOpenid, Returned, ThreadsOK
  <2>2. Reported'
    BY <1>2, <2>1 DEF Reported
  <2>3. CASE phase' # "done"
    BY <2>2, <2>3 DEF EveryFindingReported
  <2>4. CASE phase' = "done"
    <3>1. phase = "done" /\ UNCHANGED <<phase, mode, output, report, fetches>>
      BY <2>1, <2>4
    <3>2. \A method, e : KeptIn(method, e)' = KeptIn(method, e)
      BY <3>1 DEF KeptIn
    <3>3. EveryFindingReported'
      BY <1>2, <3>1, <3>2 DEF EveryFindingReported
    <3>4. QED BY <2>2, <3>3
  <2>5. QED BY <2>3, <2>4
<1>8. QED BY <1>3, <1>4, <1>5, <1>6, <1>7

(* The end-to-end promise, for any mechanisms, findings, answers and       *)
(* interleaving: what is found and asked for is in what compose_all and    *)
(* compose_raw return.                                                     *)
THEOREM FindingsAreReported == Spec => []EveryFindingReported
<1>1. Init => Gathered /\ Reported /\ EveryFindingReported
  BY DEF Init, Gathered, Reported, EveryFindingReported
<1>2. QED
  BY <1>1, ComposeStaged, ComposeLosesNothing, GatheredStep, ReportedStep, PTL DEF Spec
=============================================================================
