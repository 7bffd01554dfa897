------------------------ MODULE DiscoverCommandProofs ------------------------
(***************************************************************************)
(* Proofs about DiscoverCommand for any inputs and any published worlds:   *)
(* first what the mechanisms are called for and when, with the lists they  *)
(* yield left opaque; then what those lists are, down to the documents.    *)
(***************************************************************************)
EXTENDS DiscoverCommand, FiniteSetTheorems, SequenceTheorems, WellFoundedInduction, TLAPS

ProviderMechanism == {"provider", "google", "microsoft"}

Maybe(r, location) == Documents(r, location, location) \cup {<<>>}

(* What the running mechanism has found, by the exchange it is at.         *)
FoundInv ==
  /\ step = "mx" => found = <<>> /\ FromDomain(DomainOf(request)) = {}
  /\ step = "isp_main" => found = <<>>
  /\ step = "isp_fallback" =>
       \E a \in Maybe(request, "isp_main") : found = <<>> \o a
  /\ step = "ispdb" =>
       \E a \in Maybe(request, "isp_main"), b \in Maybe(request, "isp_fallback") :
         found = <<>> \o a \o b
  /\ step \in {"mailconf", "document"} =>
       \E a \in Maybe(request, "isp_main"), b \in Maybe(request, "isp_fallback"),
          c \in Maybe(request, "ispdb") : found = <<>> \o a \o b \o c
  /\ step = "end" => found \in Yields(Mechanism, request)

CommandInv == CommandTypeOK /\ FoundInv

LEMMA ChainIsFinite == ASSUME NEW r PROVE Len(Chain(r)) \in Nat
<1>1. \/ Chain(r) = FirstEmail \/ Chain(r) = FirstDav \/ Chain(r) = <<"pacc">>
      \/ Chain(r) = <<"oauth", "openid">> \/ Chain(r) = <<r.command[2]>>
  BY DEF Chain
<1>2. Len(FirstEmail) = 5 /\ Len(FirstDav) = 3
  BY DEF FirstEmail, FirstDav
<1>3. Len(<<"pacc">>) = 1 /\ Len(<<"oauth", "openid">>) = 2 /\ Len(<<r.command[2]>>) = 1
  OBVIOUS
<1>4. QED BY <1>1, <1>2, <1>3

LEMMA CommandInit == Init => CommandInv
<1> SUFFICES ASSUME Init PROVE CommandInv
  OBVIOUS
<1>1. 0 \in 0 .. Len(Chain(request))
  BY ChainIsFinite
<1>2. CommandTypeOK
  BY <1>1 DEF Init, CommandTypeOK, Step, Location
<1>3. FoundInv
  BY DEF Init, FoundInv
<1>4. QED BY <1>2, <1>3 DEF CommandInv

-----------------------------------------------------------------------------
(* An exchange that leaves the running mechanism at one of its steps.      *)
LEMMA Runs ==
  ASSUME CommandInv, ~done, ~Ended,
         step' \in Step \ {"start"},
         UNCHANGED <<request, turn, answer, done>>,
         step' = "mx" => Mechanism \in ProviderMechanism,
         step' \in Location \cup {"mailconf", "document"} => Mechanism = "autoconfig",
         FoundInv'
  PROVE  CommandInv'
<1>1. Ended' = Ended /\ Mechanism' = Mechanism
  BY DEF Ended, Mechanism
<1>2. CommandTypeOK'
  BY <1>1 DEF CommandInv, CommandTypeOK, ProviderMechanism
<1>3. QED BY <1>2 DEF CommandInv

(* What a provider mechanism, and a single lookup, may yield.              *)
LEMMA ProviderYields ==
  ASSUME NEW m \in ProviderMechanism, NEW r, NEW list,
         \/ FromDomain(DomainOf(r)) # {} /\ list \in ProviderReport(m, FromDomain(DomainOf(r)), r)
         \/ /\ FromDomain(DomainOf(r)) = {}
            /\ list \in ProviderReport(m, ProviderFromMx(r.world.mx), r) \cup {<<>>}
  PROVE  <<>> \o list \in Yields(m, r)
<1> DEFINE byDomain == FromDomain(DomainOf(r))
           found1 == IF byDomain # {} THEN ProviderReport(m, byDomain, r)
                     ELSE ProviderReport(m, ProviderFromMx(r.world.mx), r) \cup {<<>>}
<1>1. list \in found1
  OBVIOUS
<1>2. Yields(m, r) = {<<>> \o l : l \in found1}
  BY DEF Yields, ProviderMechanism
<1> HIDE DEF found1
<1>3. QED BY <1>1, <1>2

LEMMA LookupYields ==
  ASSUME NEW m \in {"pacc", "srv", "dav", "jmap", "http", "oauth", "openid", "resource"},
         NEW r, NEW list \in Lookup(m, r) \cup {<<>>}
  PROVE  <<>> \o list \in Yields(m, r)
<1>1. Yields(m, r) = {<<>> \o l : l \in Lookup(m, r) \cup {<<>>}}
  BY DEF Yields
<1>2. QED BY <1>1

LEMMA AutoconfigYields ==
  ASSUME NEW r, NEW a \in Maybe(r, "isp_main"), NEW b \in Maybe(r, "isp_fallback"),
         NEW c \in Maybe(r, "ispdb"), NEW d \in Redirected(r) \cup {<<>>}
  PROVE  <<>> \o a \o b \o c \o d \in Yields("autoconfig", r)
<1> DEFINE All == Maybe(r, "isp_main") \X Maybe(r, "isp_fallback") \X Maybe(r, "ispdb")
                    \X (Redirected(r) \cup {<<>>})
<1>1. Yields("autoconfig", r) = {<<>> \o l[1] \o l[2] \o l[3] \o l[4] : l \in All}
  BY DEF Yields, Maybe
<1> DEFINE l == <<a, b, c, d>>
<1>2. l \in All /\ l[1] = a /\ l[2] = b /\ l[3] = c /\ l[4] = d
  OBVIOUS
<1>3. <<>> \o l[1] \o l[2] \o l[3] \o l[4] \in Yields("autoconfig", r)
  <2> HIDE DEF All, l
  <2>1. QED BY <1>1, <1>2
<1>4. QED BY <1>2, <1>3

-----------------------------------------------------------------------------
LEMMA CommandStep == CommandInv /\ [Next]_vars => CommandInv'
<1> SUFFICES ASSUME CommandInv, [Next]_vars PROVE CommandInv'
  OBVIOUS
<1>t. /\ step = "start" => found = <<>>
      /\ step # "start" => ~done /\ ~Ended
      /\ step = "mx" => Mechanism \in ProviderMechanism
      /\ step \in Location \cup {"mailconf", "document"} => Mechanism = "autoconfig"
  BY DEF CommandInv, CommandTypeOK, ProviderMechanism
<1>f. FoundInv
  BY DEF CommandInv
<1>1. CASE MatchDomain
  <2> DEFINE matched == FromDomain(DomainOf(request))
  <2>1. /\ ~done /\ ~Ended /\ found = <<>> /\ Mechanism \in ProviderMechanism
        /\ \/ /\ matched # {}
              /\ \E list \in ProviderReport(Mechanism, matched, request) : Bring(list, "end")
           \/ matched = {} /\ Goto("mx")
    BY <1>1, <1>t DEF MatchDomain, Calls, ProviderMechanism
  <2>2. CASE matched # {}
    <3>1. PICK list \in ProviderReport(Mechanism, matched, request) : Bring(list, "end")
      BY <2>1, <2>2
    <3>2. /\ found' = <<>> \o list /\ step' = "end" /\ UNCHANGED <<request, turn, answer, done>>
      BY <2>1, <3>1 DEF Bring
    <3>3. <<>> \o list \in Yields(Mechanism, request)
      BY <2>1, <2>2, <3>1, ProviderYields
    <3>4. FoundInv'
      <4>1. Yields(Mechanism, request)' = Yields(Mechanism, request)
        BY <3>2 DEF Mechanism
      <4>2. QED BY <3>2, <3>3, <4>1 DEF FoundInv
    <3>5. QED BY <2>1, <3>2, <3>4, Runs DEF Step, Location
  <2>3. CASE matched = {}
    <3>1. step' = "mx" /\ UNCHANGED <<request, turn, found, answer, done>>
      BY <2>1, <2>3 DEF Goto
    <3>2. FoundInv'
      BY <2>1, <2>3, <3>1 DEF FoundInv
    <3>3. QED BY <2>1, <3>1, <3>2, Runs DEF Step, Location
  <2>4. QED BY <2>2, <2>3
<1>2. CASE LookupMx
  <2>1. /\ found = <<>> /\ FromDomain(DomainOf(request)) = {} /\ ~done /\ ~Ended
        /\ Mechanism \in ProviderMechanism
    BY <1>2, <1>t, <1>f DEF LookupMx, FoundInv
  <2>2. PICK list \in ProviderReport(Mechanism, ProviderFromMx(request.world.mx), request)
                        \cup {<<>>} : Bring(list, "end")
    BY <1>2 DEF LookupMx
  <2>3. /\ found' = <<>> \o list /\ step' = "end" /\ UNCHANGED <<request, turn, answer, done>>
    BY <2>1, <2>2 DEF Bring
  <2>4. <<>> \o list \in Yields(Mechanism, request)
    BY <2>1, <2>2, ProviderYields
  <2>5. FoundInv'
    <3>1. Yields(Mechanism, request)' = Yields(Mechanism, request)
      BY <2>3 DEF Mechanism
    <3>2. QED BY <2>3, <2>4, <3>1 DEF FoundInv
  <2>6. QED BY <2>1, <2>3, <2>5, Runs DEF Step, Location
<1>3. CASE StartAutoconfig
  <2>1. /\ ~done /\ ~Ended /\ found = <<>> /\ Mechanism = "autoconfig" /\ step' = "isp_main"
        /\ UNCHANGED <<request, turn, found, answer, done>>
    BY <1>3, <1>t DEF StartAutoconfig, Calls, Goto
  <2>2. FoundInv'
    BY <2>1 DEF FoundInv
  <2>3. QED BY <2>1, <2>2, Runs DEF Step, Location
<1>4. CASE FetchIsp
  <2>1. step \in Location /\ ~done /\ ~Ended /\ Mechanism = "autoconfig"
    BY <1>4, <1>t DEF FetchIsp, Location
  <2>2. PICK list \in Maybe(request, step) : Bring(list, NextLocation(step))
    BY <1>4 DEF FetchIsp, Maybe
  <2>3. found' = found \o list /\ step' = NextLocation(step)
        /\ UNCHANGED <<request, turn, answer, done>>
    BY <2>2 DEF Bring
  <2>4. FoundInv' /\ step' \in {"isp_fallback", "ispdb", "mailconf"}
    <3>1. CASE step = "isp_main"
      <4>1. found = <<>> /\ step' = "isp_fallback"
        BY <1>f, <2>3, <3>1 DEF FoundInv, NextLocation
      <4>2. Maybe(request, "isp_main")' = Maybe(request, "isp_main")
        BY <2>3
      <4>3. QED BY <2>2, <2>3, <3>1, <4>1, <4>2 DEF FoundInv
    <3>2. CASE step = "isp_fallback"
      <4>1. PICK a \in Maybe(request, "isp_main") : found = <<>> \o a
        BY <1>f, <3>2 DEF FoundInv
      <4>2. step' = "ispdb"
        BY <2>3, <3>2 DEF NextLocation
      <4>3. /\ Maybe(request, "isp_main")' = Maybe(request, "isp_main")
            /\ Maybe(request, "isp_fallback")' = Maybe(request, "isp_fallback")
        BY <2>3
      <4>4. QED BY <2>2, <2>3, <3>2, <4>1, <4>2, <4>3 DEF FoundInv
    <3>3. CASE step = "ispdb"
      <4>1. PICK a \in Maybe(request, "isp_main"), b \in Maybe(request, "isp_fallback") :
               found = <<>> \o a \o b
        BY <1>f, <3>3 DEF FoundInv
      <4>2. step' = "mailconf"
        BY <2>3, <3>3 DEF NextLocation
      <4>3. /\ Maybe(request, "isp_main")' = Maybe(request, "isp_main")
            /\ Maybe(request, "isp_fallback")' = Maybe(request, "isp_fallback")
            /\ Maybe(request, "ispdb")' = Maybe(request, "ispdb")
        BY <2>3
      <4>4. QED BY <2>2, <2>3, <3>3, <4>1, <4>2, <4>3 DEF FoundInv
    <3>4. QED BY <2>1, <3>1, <3>2, <3>3 DEF Location
  <2>5. QED BY <2>1, <2>3, <2>4, Runs DEF Step, Location
<1>5. CASE LookupMailconf \/ FetchMailconf
  <2>1. /\ step \in {"mailconf", "document"} /\ ~done /\ ~Ended /\ Mechanism = "autoconfig"
        /\ UNCHANGED <<request, turn, answer, done>>
        /\ \/ step' = "document" /\ UNCHANGED found
           \/ step' = "end" /\ \E list \in Redirected(request) \cup {<<>>} : found' = found \o list
    BY <1>5, <1>t DEF LookupMailconf, FetchMailconf, Goto, Bring
  <2>2. PICK a \in Maybe(request, "isp_main"), b \in Maybe(request, "isp_fallback"),
             c \in Maybe(request, "ispdb") : found = <<>> \o a \o b \o c
    BY <1>f, <2>1 DEF FoundInv
  <2>3. FoundInv'
    <3>1. CASE step' = "document" /\ UNCHANGED found
      <4>1. /\ Maybe(request, "isp_main")' = Maybe(request, "isp_main")
            /\ Maybe(request, "isp_fallback")' = Maybe(request, "isp_fallback")
            /\ Maybe(request, "ispdb")' = Maybe(request, "ispdb")
        BY <2>1
      <4>2. QED BY <2>2, <3>1, <4>1 DEF FoundInv
    <3>2. CASE step' = "end"
      <4>1. PICK d \in Redirected(request) \cup {<<>>} : found' = found \o d
        BY <2>1, <3>2
      <4>2. found' \in Yields("autoconfig", request)
        BY <2>2, <4>1, AutoconfigYields
      <4>3. Yields(Mechanism, request)' = Yields("autoconfig", request)
        BY <2>1 DEF Mechanism
      <4>4. QED BY <3>2, <4>2, <4>3 DEF FoundInv
    <3>3. QED BY <2>1, <3>1, <3>2
  <2>4. QED BY <2>1, <2>3, Runs DEF Step, Location
<1>6. ASSUME NEW m \in {"pacc", "srv", "dav", "jmap", "http", "oauth", "openid", "resource"},
             Run(m)
      PROVE  CommandInv'
  <2>1. ~done /\ ~Ended /\ Mechanism = m /\ found = <<>>
    BY <1>6, <1>t DEF Run, Calls
  <2>2. PICK list \in Lookup(m, request) \cup {<<>>} : Bring(list, "end")
    BY <1>6 DEF Run
  <2>3. found' = <<>> \o list /\ step' = "end" /\ UNCHANGED <<request, turn, answer, done>>
    BY <2>1, <2>2 DEF Bring
  <2>4. FoundInv'
    <3>1. <<>> \o list \in Yields(m, request)
      BY <2>2, LookupYields
    <3>2. Yields(Mechanism, request)' = Yields(m, request)
      BY <2>1, <2>3 DEF Mechanism
    <3>3. QED BY <2>3, <3>1, <3>2 DEF FoundInv
  <2>5. QED BY <2>1, <2>3, <2>4, Runs DEF Step, Location
<1>7. CASE EndMechanism
  <2>1. /\ step = "end" /\ ~done /\ turn' = turn + 1 /\ step' = "start" /\ found' = <<>>
        /\ UNCHANGED <<request, done>>
    BY <1>7 DEF EndMechanism, MoveOn
  <2>2. turn' \in 0 .. Len(Chain(request))
    <3>1. turn \in 0 .. Len(Chain(request)) /\ turn # Len(Chain(request))
      BY <1>t, <2>1 DEF CommandInv, CommandTypeOK, Ended
    <3>2. QED BY <2>1, <3>1, ChainIsFinite
  <2>3. Chain(request)' = Chain(request)
    BY <2>1
  <2>4. CommandTypeOK'
    BY <2>1, <2>2, <2>3 DEF CommandInv, CommandTypeOK, Step, Location
  <2>5. FoundInv'
    BY <2>1 DEF FoundInv
  <2>6. QED BY <2>4, <2>5 DEF CommandInv
<1>8. CASE Output
  <2>1. step = "start" /\ Ended /\ done' = TRUE /\ UNCHANGED <<request, turn, step, found, answer>>
    BY <1>8 DEF Output
  <2>2. Ended' = Ended /\ Mechanism' = Mechanism
    BY <2>1 DEF Ended, Mechanism
  <2>3. CommandTypeOK'
    BY <2>1, <2>2 DEF CommandInv, CommandTypeOK, Location
  <2>4. FoundInv'
    BY <2>1 DEF FoundInv
  <2>5. QED BY <2>3, <2>4 DEF CommandInv
<1>9. CASE UNCHANGED vars
  <2>1. UNCHANGED <<request, turn, step, found, answer, done>>
    BY <1>9 DEF vars
  <2>2. Ended' = Ended /\ Mechanism' = Mechanism /\ Chain(request)' = Chain(request)
    BY <2>1 DEF Ended, Mechanism
  <2>3. CommandTypeOK'
    BY <2>1, <2>2 DEF CommandInv, CommandTypeOK
  <2>4. FoundInv'
    <3>1. /\ Maybe(request, "isp_main")' = Maybe(request, "isp_main")
          /\ Maybe(request, "isp_fallback")' = Maybe(request, "isp_fallback")
          /\ Maybe(request, "ispdb")' = Maybe(request, "ispdb")
          /\ Yields(Mechanism, request)' = Yields(Mechanism, request)
          /\ FromDomain(DomainOf(request))' = FromDomain(DomainOf(request))
      BY <2>1, <2>2
    <3>2. QED BY <1>f, <2>1, <3>1 DEF FoundInv
  <2>5. QED BY <2>3, <2>4 DEF CommandInv
<1>10. QED
  BY <1>1, <1>2, <1>3, <1>4, <1>5, <1>6, <1>7, <1>8, <1>9
     DEF Next, RunPacc, RunSrv, RunDav, RunJmap, ProbeAuth, FetchServer, FetchResource

LEMMA CommandInvariant == Spec => []CommandInv
<1>1. QED BY CommandInit, CommandStep, PTL DEF Spec

(* Type correctness, and which exchange belongs to which mechanism.        *)
THEOREM CommandTypeCorrect == Spec => []CommandTypeOK
<1>1. CommandInv => CommandTypeOK
  BY DEF CommandInv
<1>2. QED BY <1>1, CommandInvariant, PTL

-----------------------------------------------------------------------------
(* The exchanges are stutters of the promise, the end of a mechanism its   *)
(* one step, the output its return.                                        *)
LEMMA StepsKeepPromise ==
  CommandInv /\ [Next]_vars => [Promise!Next]_(Promise!promiseVars)
<1> SUFFICES ASSUME CommandInv, Next
             PROVE  Promise!Next \/ UNCHANGED <<request, turn, answer, done>>
  BY DEF vars, Promise!promiseVars
<1>1. CASE EndMechanism
  <2>1. /\ step = "end" /\ ~done /\ turn' = turn + 1 /\ answer' = Asked(found, request)
        /\ UNCHANGED <<request, done>>
    BY <1>1 DEF EndMechanism, MoveOn
  <2>2. ~Ended /\ found \in Yields(Chain(request)[turn + 1], request)
    BY <2>1 DEF CommandInv, CommandTypeOK, FoundInv, Mechanism
  <2>3. Promise!TryNext
    BY <2>1, <2>2 DEF Promise!TryNext, Promise!Stopped, Ended
  <2>4. QED BY <2>3 DEF Promise!Next
<1>2. CASE Output
  <2>1. Promise!Return
    BY <1>2 DEF Output, Promise!Return, Promise!Stopped, Ended
  <2>2. QED BY <2>1 DEF Promise!Next
<1>3. CASE ~EndMechanism /\ ~Output
  <2>1. UNCHANGED <<request, turn, answer, done>>
    BY <1>3 DEF Next, MatchDomain, LookupMx, StartAutoconfig, FetchIsp, LookupMailconf,
       FetchMailconf, RunPacc, RunSrv, RunDav, RunJmap, ProbeAuth, FetchServer, FetchResource,
       Run, Goto, Bring
  <2>2. QED BY <2>1
<1>4. QED BY <1>1, <1>2, <1>3

(* A command implements its promise: for whatever is published and however *)
(* the exchanges end, its answer is that of the first mechanism to leave   *)
(* anything asked for, and nothing runs past it.                           *)
THEOREM CommandIsFirstHit == Spec => ImplementsFirstHit
<1>1. Init => Promise!Init
  BY DEF Init, Promise!Init
<1>2. QED
  BY <1>1, CommandInvariant, StepsKeepPromise, PTL DEF Spec, ImplementsFirstHit, Promise!Spec

-----------------------------------------------------------------------------
(* A set of numbers that is not empty has a least one.                     *)
LEMMA LeastNatural ==
  ASSUME NEW T \in SUBSET Nat, T # {}
  PROVE  \E k \in T : \A j \in T : k <= j
<1>1. PICK k \in T : \A j \in T : ~(<<j, k>> \in OpToRel(<, Nat))
  BY NatLessThanWellFounded, WFMin
<1>2. \A j \in T : ~(j < k)
  BY <1>1 DEF OpToRel
<1>3. QED BY <1>2

(* The places kept are numbered from 1 on, in their order.                 *)
LEMMA Ranks ==
  ASSUME NEW n \in Nat, NEW kept \in SUBSET (1 .. n)
  PROVE  /\ IsFiniteSet(kept) /\ Cardinality(kept) \in Nat
         /\ \A k \in kept : Rank(k, kept) \in 1 .. Cardinality(kept)
         /\ \A j, k \in kept : j < k => Rank(j, kept) < Rank(k, kept)
         /\ \A i \in 1 .. Cardinality(kept) : \E k \in kept : Rank(k, kept) = i
<1> DEFINE UpTo(k) == {j \in kept : j <= k}
<1>0. \A k \in kept : k \in Int
  OBVIOUS
<1>1. IsFiniteSet(kept) /\ Cardinality(kept) \in Nat
  <2>1. IsFiniteSet(1 .. n)
    BY FS_Interval
  <2>2. IsFiniteSet(kept)
    BY <2>1, FS_Subset
  <2>3. QED BY <2>2, FS_CardinalityType
<1>2. ASSUME NEW k \in kept
      PROVE  /\ IsFiniteSet(UpTo(k)) /\ Rank(k, kept) = Cardinality(UpTo(k))
             /\ Rank(k, kept) \in 1 .. Cardinality(kept)
  <2>1. UpTo(k) \in SUBSET kept
    OBVIOUS
  <2>2. IsFiniteSet(UpTo(k)) /\ Cardinality(UpTo(k)) <= Cardinality(kept)
    BY <1>1, <2>1, FS_Subset
  <2>3. Cardinality(UpTo(k)) \in Nat /\ UpTo(k) # {}
    BY <2>2, FS_CardinalityType
  <2>4. Cardinality(UpTo(k)) # 0
    BY <2>2, <2>3, FS_EmptySet
  <2>5. QED BY <1>1, <2>2, <2>3, <2>4 DEF Rank
<1>3. ASSUME NEW j \in kept, NEW k \in kept, j < k
      PROVE  Rank(j, kept) < Rank(k, kept)
  <2>1. UpTo(j) \in SUBSET UpTo(k) /\ k \in UpTo(k) /\ k \notin UpTo(j)
    <3>1. j \in Int /\ k \in Int /\ k <= k /\ ~(k <= j)
      BY <1>0, <1>3
    <3>2. \A i \in kept : i <= j => i <= k
      BY <1>0, <1>3, <3>1
    <3>3. QED BY <3>1, <3>2
  <2>2. Cardinality(UpTo(j)) <= Cardinality(UpTo(k)) /\ Cardinality(UpTo(j)) # Cardinality(UpTo(k))
    BY <1>2, <2>1, FS_Subset
  <2>3. Rank(j, kept) \in Int /\ Rank(k, kept) \in Int
    <3>1. 1 .. Cardinality(kept) \subseteq Int
      BY <1>1
    <3>2. QED BY <1>2, <3>1
  <2>4. QED BY <1>2, <2>2, <2>3
<1>4. \A i \in 1 .. Cardinality(kept) : \E k \in kept : Rank(k, kept) = i
  <2> DEFINE T == 1 .. Cardinality(kept)
             f == [k \in kept |-> Rank(k, kept)]
  <2>1. IsFiniteSet(T) /\ Cardinality(T) = Cardinality(kept)
    BY <1>1, FS_Interval
  <2>2. f \in [kept -> T]
    BY <1>2
  <2>3. ASSUME NEW a \in kept, NEW b \in kept, f[a] = f[b]
        PROVE  a = b
    <3>1. Rank(a, kept) = Rank(b, kept) /\ Rank(a, kept) \in Int
      BY <2>2, <2>3
    <3>2. ~(Rank(a, kept) < Rank(b, kept)) /\ ~(Rank(b, kept) < Rank(a, kept))
      BY <3>1
    <3>3. ~(a < b) /\ ~(b < a)
      BY <1>3, <3>2
    <3>4. QED BY <1>0, <3>3
  <2>4. f \in Injection(kept, T)
    BY <2>2, <2>3 DEF Injection, IsInjective
  <2>5. f \in Surjection(kept, T)
    BY <2>1, <2>4, FS_Injection
  <2>6. QED BY <2>2, <2>5 DEF Surjection
<1>5. QED BY <1>1, <1>2, <1>3, <1>4

(* What KeepAt returns: the item at each place kept, at its rank.          *)
LEMMA KeptItems ==
  ASSUME NEW S, NEW list \in Seq(S), NEW kept \in SUBSET (DOMAIN list)
  PROVE  /\ KeepAt(list, kept) \in Seq(S)
         /\ Len(KeepAt(list, kept)) = Cardinality(kept)
         /\ \A k \in kept : KeepAt(list, kept)[Rank(k, kept)] = list[k]
         /\ \A i \in DOMAIN KeepAt(list, kept) :
              \E k \in kept : Rank(k, kept) = i /\ KeepAt(list, kept)[i] = list[k]
<1>1. DOMAIN list = 1 .. Len(list) /\ Len(list) \in Nat
  OBVIOUS
<1>2. /\ Cardinality(kept) \in Nat
      /\ \A k \in kept : Rank(k, kept) \in 1 .. Cardinality(kept)
      /\ \A j, k \in kept : j < k => Rank(j, kept) < Rank(k, kept)
      /\ \A i \in 1 .. Cardinality(kept) : \E k \in kept : Rank(k, kept) = i
  BY <1>1, Ranks
<1> DEFINE at(i) == CHOOSE k \in kept : Rank(k, kept) = i
<1>3. ASSUME NEW i \in 1 .. Cardinality(kept)
      PROVE  at(i) \in kept /\ Rank(at(i), kept) = i
  BY <1>2
<1>4. ASSUME NEW k \in kept
      PROVE  at(Rank(k, kept)) = k
  <2>1. at(Rank(k, kept)) \in kept /\ Rank(at(Rank(k, kept)), kept) = Rank(k, kept)
    BY <1>2, <1>3
  <2> HIDE DEF at
  <2>2. ~(at(Rank(k, kept)) < k) /\ ~(k < at(Rank(k, kept))) /\ Rank(k, kept) \in Int
    BY <1>2, <2>1
  <2>3. QED BY <1>1, <2>1, <2>2
<1>5. KeepAt(list, kept) = [i \in 1 .. Cardinality(kept) |-> list[at(i)]]
  BY DEF KeepAt
<1> HIDE DEF at
<1>6. \A i \in 1 .. Cardinality(kept) : list[at(i)] \in S
  BY <1>1, <1>3
<1>7. KeepAt(list, kept) \in Seq(S) /\ Len(KeepAt(list, kept)) = Cardinality(kept)
      /\ DOMAIN KeepAt(list, kept) = 1 .. Cardinality(kept)
  BY <1>2, <1>5, <1>6
<1>8. QED BY <1>2, <1>3, <1>4, <1>5, <1>7

(* A filter that keeps what lies between two places.                       *)
LEMMA KeptRun ==
  ASSUME NEW S, NEW list \in Seq(S), NEW part \in Seq(S), NEW l \in Nat, NEW h \in Nat,
         h = l + Len(part), h <= Len(list), \A i \in 1 .. Len(part) : list[l + i] = part[i]
  PROVE  KeepAt(list, l + 1 .. h) = part
<1> DEFINE kept == l + 1 .. h
           n == Len(part)
<1>1. kept \in SUBSET (DOMAIN list) /\ Cardinality(kept) = n /\ n \in Nat
  <2>1. kept \subseteq 1 .. Len(list) /\ DOMAIN list = 1 .. Len(list) /\ Len(list) \in Nat
    OBVIOUS
  <2>2. \A a, b \in Int : Cardinality(a .. b) = IF a > b THEN 0 ELSE b - a + 1
    BY FS_Interval
  <2>3. Cardinality(kept) = IF l + 1 > h THEN 0 ELSE h - (l + 1) + 1
    <3>1. l + 1 \in Int /\ h \in Int
      OBVIOUS
    <3>2. QED BY <2>2, <3>1, Zenon
  <2>4. QED BY <2>1, <2>3
<1>2. ASSUME NEW i \in 1 .. n
      PROVE  l + i \in kept /\ Rank(l + i, kept) = i
  <2>1. {j \in kept : j <= l + i} = l + 1 .. l + i
    OBVIOUS
  <2>2. Cardinality(l + 1 .. l + i) = i
    <3>1. Cardinality(l + 1 .. l + i) = IF l + 1 > l + i THEN 0 ELSE l + i - (l + 1) + 1
      BY FS_Interval
    <3>2. QED BY <3>1
  <2>3. Rank(l + i, kept) = i
    BY <2>1, <2>2 DEF Rank
  <2>4. QED BY <2>3
<1> HIDE DEF kept
<1>3. DOMAIN KeepAt(list, kept) = 1 .. n
  BY <1>1 DEF KeepAt
<1>4. \A i \in 1 .. n : KeepAt(list, kept)[i] = part[i]
  BY <1>1, <1>2, KeptItems
<1>5. KeepAt(list, kept) = [i \in 1 .. n |-> KeepAt(list, kept)[i]]
  BY <1>1 DEF KeepAt
<1>6. part = [i \in 1 .. n |-> part[i]]
  OBVIOUS
<1>7. QED BY <1>4, <1>5, <1>6 DEF kept

-----------------------------------------------------------------------------
(* The documents WorldAssumption lets be published.                        *)
IsDocument(d) ==
  /\ d \in Autoconfig
  /\ Lone(d.oauth2) /\ "password" \notin d.oauth2
  /\ \A s \in Range(Servers(d)) : Lone(s.port) /\ Lone(s.socketType)

(* A type stands for no method, or for one.                                *)
LEMMA OneMethod ==
  ASSUME NEW d, IsDocument(d), NEW type, MethodsOf(type, d) # {}
  PROVE  MethodsOf(type, d) = {The(MethodsOf(type, d), "password")}
<1> DEFINE M == MethodsOf(type, d)
<1>1. \A x, y \in M : x = y
  BY DEF MethodsOf, IsDocument, Lone
<1> HIDE DEF M
<1>2. The(M, "password") = CHOOSE x \in M : TRUE
  BY DEF The, M
<1>3. (CHOOSE x \in M : TRUE) \in M
  BY DEF M
<1>4. M = {The(M, "password")}
  BY <1>1, <1>2, <1>3
<1>5. QED BY <1>4 DEF M

(* The methods of a server are those of its types, none of them twice.     *)
LEMMA MethodsOfServer ==
  ASSUME NEW d, IsDocument(d), NEW server \in Server
  PROVE  /\ Range(ServerMethods(server, d))
              = UNION {MethodsOf(type, d) : type \in Range(server.authentication)}
         /\ IsInjective(ServerMethods(server, d))
<1> DEFINE types == server.authentication
           M(type) == MethodsOf(type, d)
           new == NewTypes(types, d)
           kept == KeepAt(types, new)
           methods == ServerMethods(server, d)
           one(type) == The(M(type), "password")
<1>1. types \in Seq(Authentication) /\ DOMAIN types = 1 .. Len(types) /\ Len(types) \in Nat
  BY DEF Server
<1>2. new \in SUBSET (DOMAIN types)
  BY DEF NewTypes
<1>3. \A k \in new : M(types[k]) # {} /\ \A j \in 1 .. k - 1 : M(types[j]) # M(types[k])
  BY DEF NewTypes
<1>4. \A k \in DOMAIN types : M(types[k]) # {} => M(types[k]) = {one(types[k])}
  BY OneMethod
<1>5. methods = [i \in DOMAIN kept |-> one(kept[i])]
  BY DEF ServerMethods
<1>6. /\ \A k \in new : Rank(k, new) \in DOMAIN kept /\ kept[Rank(k, new)] = types[k]
      /\ \A i \in DOMAIN kept : \E k \in new : Rank(k, new) = i /\ kept[i] = types[k]
  <2>1. \A k \in new : Rank(k, new) \in 1 .. Cardinality(new)
    BY <1>1, <1>2, Ranks
  <2>2. DOMAIN kept = 1 .. Cardinality(new)
    BY DEF KeepAt
  <2>3. QED BY <1>1, <1>2, <2>1, <2>2, KeptItems
<1> HIDE DEF types, M, new, kept, methods, one
<1>7. ASSUME NEW x \in Range(methods)
      PROVE  \E type \in Range(types) : x \in M(type)
  <2>1. PICK i \in DOMAIN kept : x = one(kept[i])
    BY <1>5 DEF Range
  <2>2. PICK k \in new : kept[i] = types[k]
    BY <1>6
  <2>3. x \in M(types[k])
    BY <1>2, <1>3, <1>4, <2>1, <2>2
  <2>4. QED BY <1>2, <2>3 DEF Range
<1>8. ASSUME NEW j \in DOMAIN types, NEW x \in M(types[j])
      PROVE  x \in Range(methods)
  <2> DEFINE T == {i \in DOMAIN types : M(types[i]) = M(types[j])}
  <2>1. PICK k \in T : \A i \in T : k <= i
    <3>1. T \in SUBSET Nat /\ T # {}
      BY <1>1
    <3>2. QED BY <3>1, LeastNatural
  <2>2. \A i \in 1 .. k - 1 : i \in DOMAIN types /\ M(types[i]) # M(types[k])
    <3>1. k \in 1 .. Len(types)
      BY <1>1, <2>1
    <3>2. \A i \in 1 .. k - 1 : i \in DOMAIN types /\ ~(k <= i)
      BY <1>1, <3>1
    <3>3. QED BY <2>1, <3>2
  <2>3. k \in new
    BY <2>1, <2>2 DEF new, NewTypes, M
  <2>4. x = one(types[k])
    BY <1>4, <2>1
  <2>5. Rank(k, new) \in DOMAIN kept /\ methods[Rank(k, new)] = x
    BY <1>5, <1>6, <2>3, <2>4
  <2>6. QED BY <1>5, <2>5 DEF Range
<1>9. Range(methods) = UNION {M(type) : type \in Range(types)}
  <2>1. \A type \in Range(types) : \E j \in DOMAIN types : type = types[j]
    BY DEF Range
  <2>2. QED BY <1>7, <1>8, <2>1
<1>10. ASSUME NEW a \in DOMAIN methods, NEW b \in DOMAIN methods, methods[a] = methods[b]
       PROVE  a = b
  <2>1. PICK k \in new : Rank(k, new) = a /\ kept[a] = types[k]
    BY <1>5, <1>6
  <2>2. PICK l \in new : Rank(l, new) = b /\ kept[b] = types[l]
    BY <1>5, <1>6
  <2>3. M(types[k]) = M(types[l])
    BY <1>2, <1>3, <1>4, <1>5, <1>10, <2>1, <2>2
  <2>4. k \in 1 .. Len(types) /\ l \in 1 .. Len(types)
    BY <1>1, <1>2
  <2>5. ~(k \in 1 .. l - 1) /\ ~(l \in 1 .. k - 1)
    BY <1>3, <2>3
  <2>6. k = l
    BY <1>1, <2>4, <2>5
  <2>7. QED BY <2>1, <2>2, <2>6
<1>11. QED BY <1>9, <1>10 DEF IsInjective, methods, types, M

-----------------------------------------------------------------------------
MailService == {"imap", "pop3", "smtp"}

(* A document's list: one configuration for each named server, its own.    *)
LEMMA FlattenedDocument ==
  ASSUME NEW d, IsDocument(d), NEW source
  PROVE  LET list == FromAutoconfig(d, request.input, source)
         IN  /\ list \in Seq(Range(list))
             /\ \A c \in Range(list) : c.source = source /\ c.service \in MailService
             /\ Matches(list, d)
<1> DEFINE input == request.input
           servers == Servers(d)
           named == {k \in DOMAIN servers : servers[k].hostname # NoText}
           kept == KeepAt(servers, named)
           list == FromAutoconfig(d, input, source)
<1>1. servers \in Seq(Server) /\ DOMAIN servers = 1 .. Len(servers) /\ Len(servers) \in Nat
  BY DEF IsDocument, Autoconfig, Servers
<1>2. /\ kept \in Seq(Server) /\ Len(kept) = Cardinality(named) /\ Cardinality(named) \in Nat
      /\ \A k \in named : Rank(k, named) \in DOMAIN kept /\ kept[Rank(k, named)] = servers[k]
  <2>1. named \in SUBSET (1 .. Len(servers)) /\ named \in SUBSET (DOMAIN servers)
    BY <1>1
  <2>2. /\ Cardinality(named) \in Nat
        /\ \A k \in named : Rank(k, named) \in 1 .. Cardinality(named)
    BY <1>1, <2>1, Ranks
  <2>3. /\ kept \in Seq(Server) /\ Len(kept) = Cardinality(named)
        /\ \A k \in named : kept[Rank(k, named)] = servers[k]
    BY <1>1, <2>1, KeptItems
  <2> HIDE DEF kept, named
  <2>4. DOMAIN kept = 1 .. Cardinality(named)
    BY <2>3
  <2>5. QED BY <2>2, <2>3, <2>4
<1>3. list = [i \in DOMAIN kept |-> FromServer(kept[i], d, input, source)]
  BY DEF FromAutoconfig
<1> HIDE DEF kept, list
<1>4. list \in Seq(Range(list)) /\ Len(list) = Cardinality(named) /\ DOMAIN list = DOMAIN kept
  <2>1. DOMAIN list = 1 .. Cardinality(named) /\ DOMAIN kept = 1 .. Cardinality(named)
    BY <1>2, <1>3
  <2>2. \A i \in 1 .. Cardinality(named) : list[i] \in Range(list)
    BY <2>1 DEF Range
  <2>3. list = [i \in 1 .. Cardinality(named) |-> list[i]]
    BY <1>3, <2>1
  <2> HIDE DEF named
  <2>4. QED BY <1>2, <2>1, <2>2, <2>3
<1>5. ASSUME NEW i \in DOMAIN kept
      PROVE  list[i].source = source /\ list[i].service \in MailService
  <2>1. kept[i] \in Server
    <3> HIDE DEF named
    <3>1. QED BY <1>2
  <2>2. kept[i].type \in MailService
    BY <2>1 DEF Server, MailService
  <2>3. QED BY <1>3, <2>2 DEF FromServer, Reach
<1>6. \A i \in DOMAIN servers :
        Rank(i, named) = Cardinality({j \in 1 .. i : servers[j].hostname # NoText})
  <2>1. ASSUME NEW i \in DOMAIN servers
        PROVE  {j \in named : j <= i} = {j \in 1 .. i : servers[j].hostname # NoText}
    BY <1>1, <2>1
  <2>2. QED BY <2>1 DEF Rank
<1>7. Cardinality(named) = Cardinality({j \in 1 .. Len(servers) : servers[j].hostname # NoText})
  BY <1>1
<1>8. ASSUME NEW i \in DOMAIN servers, servers[i].hostname # NoText
      PROVE  LET c == list[Rank(i, named)]
                 types == Range(servers[i].authentication)
             IN  /\ c.service = servers[i].type
                 /\ c.endpoint.at = Substitute(servers[i].hostname, input)
                 /\ servers[i].port \subseteq {c.endpoint.port}
                 /\ "password" \in Range(c.auth)
                      <=> types \cap {"password-cleartext", "password-encrypted"} # {}
                 /\ Range(c.auth) \ {"password"}
                      = IF "OAuth2" \in types THEN d.oauth2 ELSE {}
                 /\ IsInjective(c.auth)
  <2> DEFINE server == servers[i]
             c == list[Rank(i, named)]
             types == Range(server.authentication)
  <2>1. c = FromServer(server, d, input, source)
    BY <1>2, <1>3, <1>8
  <2>2. server \in Server /\ server \in Range(servers)
    BY <1>1 DEF Range
  <2> HIDE DEF c, server
  <2>3. c.service = server.type /\ c.endpoint.at = Substitute(server.hostname, input)
        /\ c.auth = ServerMethods(server, d)
    BY <2>1 DEF FromServer, Reach, Tcp
  <2>4. server.port \subseteq {c.endpoint.port}
    <3>1. \A x, y \in server.port : x = y
      BY <2>2 DEF IsDocument, Lone, servers
    <3>2. \E default : c.endpoint.port = The(server.port, default)
      BY <2>1 DEF FromServer, Reach, Tcp
    <3>3. QED BY <3>1, <3>2 DEF The
  <2>5. Range(c.auth) = UNION {MethodsOf(type, d) : type \in types} /\ IsInjective(c.auth)
    BY <2>2, <2>3, MethodsOfServer
  <2>6. "password" \notin d.oauth2
    BY DEF IsDocument
  <2> HIDE DEF types
  <2>7. "password" \in Range(c.auth)
          <=> types \cap {"password-cleartext", "password-encrypted"} # {}
    BY <2>5, <2>6 DEF MethodsOf
  <2>8. Range(c.auth) \ {"password"} = IF "OAuth2" \in types THEN d.oauth2 ELSE {}
    BY <2>5, <2>6 DEF MethodsOf
  <2>9. QED BY <2>3, <2>4, <2>5, <2>7, <2>8 DEF c, server, types
<1>9. Matches(list, d)
  BY <1>4, <1>6, <1>7, <1>8 DEF Matches, Servers
<1>10. QED BY <1>4, <1>5, <1>9 DEF Range, list

-----------------------------------------------------------------------------
AutoconfigSource == Location \cup {"mailconf"}

FromSource(list, s) == KeepAt(list, {k \in DOMAIN list : list[k].source = s})

(* The items of a concatenation.                                           *)
LEMMA Concatenation ==
  ASSUME NEW T, NEW a \in Seq(T), NEW b \in Seq(T)
  PROVE  /\ a \o b \in Seq(T) /\ Len(a \o b) = Len(a) + Len(b)
         /\ \A i \in 1 .. Len(a) : (a \o b)[i] = a[i]
         /\ \A i \in 1 .. Len(b) : (a \o b)[Len(a) + i] = b[i]
OBVIOUS

(* One source's part of a list is found where it was put.                  *)
LEMMA Block ==
  ASSUME NEW U, NEW V, NEW W, NEW u \in Seq(U), NEW v \in Seq(V), NEW w \in Seq(W), NEW s,
         \A c \in U : c.source # s, \A c \in V : c.source = s, \A c \in W : c.source # s
  PROVE  FromSource((u \o v) \o w, s) = v
<1> DEFINE list == (u \o v) \o w
           l == Len(u)
           h == Len(u) + Len(v)
<1>1. /\ l \in Nat /\ h \in Nat /\ Len(w) \in Nat /\ Len(v) \in Nat /\ l <= h /\ h - l = Len(v)
      /\ \A i \in 1 .. l : u[i] \in U
      /\ \A i \in 1 .. Len(v) : v[i] \in V
      /\ \A i \in 1 .. Len(w) : w[i] \in W
  OBVIOUS
<1>2. /\ u \o v \in Seq(U \cup V) /\ Len(u \o v) = h
      /\ \A i \in 1 .. l : (u \o v)[i] = u[i]
      /\ \A i \in 1 .. Len(v) : (u \o v)[l + i] = v[i]
  <2>1. u \in Seq(U \cup V) /\ v \in Seq(U \cup V)
    OBVIOUS
  <2>2. QED BY <2>1
<1>3. /\ list \in Seq(U \cup V \cup W) /\ Len(list) = h + Len(w)
      /\ \A i \in 1 .. h : list[i] = (u \o v)[i]
      /\ \A i \in 1 .. Len(w) : list[h + i] = w[i]
  <2>1. u \o v \in Seq(U \cup V \cup W) /\ w \in Seq(U \cup V \cup W)
    BY <1>2
  <2> DEFINE T == U \cup V \cup W
             uv == u \o v
  <2> HIDE DEF T, uv
  <2>2. uv \in Seq(T) /\ w \in Seq(T)
    BY <2>1 DEF T, uv
  <2>3. /\ uv \o w \in Seq(T) /\ Len(uv \o w) = Len(uv) + Len(w)
        /\ \A i \in 1 .. Len(uv) : (uv \o w)[i] = uv[i]
        /\ \A i \in 1 .. Len(w) : (uv \o w)[Len(uv) + i] = w[i]
    BY <2>2, Concatenation
  <2>4. Len(uv) = h
    BY <1>2 DEF uv
  <2>5. QED BY <2>3, <2>4 DEF uv, T
<1> HIDE DEF list, l, h
<1>4. DOMAIN list = 1 .. h + Len(w)
  BY <1>1, <1>3
<1>5. \A i \in 1 .. l : list[i].source # s
  <2>1. \A i \in 1 .. l : i \in 1 .. h
    BY <1>1
  <2>2. QED BY <1>1, <1>2, <1>3, <2>1
<1>6. \A i \in 1 .. Len(v) : list[l + i] = v[i] /\ list[l + i].source = s
  <2>1. \A i \in 1 .. Len(v) : l + i \in 1 .. h
    BY <1>1
  <2>2. QED BY <1>1, <1>2, <1>3, <2>1
<1>7. \A i \in 1 .. Len(w) : list[h + i].source # s
  BY <1>1, <1>3
<1>8. {k \in DOMAIN list : list[k].source = s} = l + 1 .. h
  <2>1. ASSUME NEW k \in 1 .. h + Len(w)
        PROVE  list[k].source = s <=> k \in l + 1 .. h
    <3>1. CASE k \in 1 .. l
      BY <1>1, <1>5, <3>1
    <3>2. CASE k \in l + 1 .. h
      <4>1. k - l \in 1 .. Len(v) /\ l + (k - l) = k
        BY <1>1, <3>2
      <4>2. QED BY <1>6, <3>2, <4>1
    <3>3. CASE k \in h + 1 .. h + Len(w)
      <4>1. k - h \in 1 .. Len(w) /\ h + (k - h) = k /\ k \notin l + 1 .. h
        BY <1>1, <3>3
      <4>2. QED BY <1>7, <4>1
    <3>4. QED BY <1>1, <3>1, <3>2, <3>3
  <2>2. l + 1 .. h \subseteq 1 .. h + Len(w)
    BY <1>1
  <2>3. QED BY <1>4, <2>1, <2>2
<1>9. KeepAt(list, l + 1 .. h) = v
  <2> DEFINE T == U \cup V \cup W
  <2>1. list \in Seq(T) /\ v \in Seq(T)
    BY <1>3
  <2>2. h = l + Len(v) /\ h <= Len(list)
    BY <1>1, <1>3
  <2> HIDE DEF T
  <2>3. QED BY <1>1, <1>6, <2>1, <2>2, KeptRun
<1>10. QED BY <1>8, <1>9 DEF FromSource, list

(* What is of no autoconfig location.                                      *)
Foreign(list) == \E S : list \in Seq(S) /\ \A c \in S : c.source \notin AutoconfigSource

(* Such are the lists of what is of none.                                  *)
LEMMA ForeignSeq ==
  ASSUME NEW S, NEW list \in Seq(S), \A c \in S : c.source \notin AutoconfigSource
  PROVE  Foreign(list)
BY DEF Foreign

(* They stay so put together, empty or of one configuration.               *)
LEMMA ForeignConcat ==
  ASSUME NEW a, NEW b, Foreign(a), Foreign(b)
  PROVE  Foreign(a \o b)
<1>1. PICK S : a \in Seq(S) /\ \A c \in S : c.source \notin AutoconfigSource
  BY DEF Foreign
<1>2. PICK T : b \in Seq(T) /\ \A c \in T : c.source \notin AutoconfigSource
  BY DEF Foreign
<1>3. a \in Seq(S \cup T) /\ b \in Seq(S \cup T)
  BY <1>1, <1>2
<1>4. a \o b \in Seq(S \cup T) /\ \A c \in S \cup T : c.source \notin AutoconfigSource
  BY <1>1, <1>2, <1>3
<1>5. QED BY <1>4 DEF Foreign

LEMMA ForeignEmpty == Foreign(<<>>)
<1>1. <<>> \in Seq({}) /\ \A c \in {} : c.source \notin AutoconfigSource
  OBVIOUS
<1> DEFINE T == {}
           list == <<>>
<1>2. list \in Seq(T) /\ \A c \in T : c.source \notin AutoconfigSource
  BY <1>1
<1> HIDE DEF T, list
<1>3. Foreign(list)
  BY <1>2, ForeignSeq
<1>4. QED BY <1>3 DEF list

LEMMA ForeignOne ==
  ASSUME NEW service, NEW endpoint, NEW username, NEW auth, NEW source,
         source \notin AutoconfigSource
  PROVE  Foreign(<< Reach(service, endpoint, username, auth, source) >>)
<1> DEFINE c == Reach(service, endpoint, username, auth, source)
<1>1. c.source = source
  BY DEF Reach
<1> HIDE DEF c
<1>2. <<c>> \in Seq({c}) /\ \A x \in {c} : x.source \notin AutoconfigSource
  BY <1>1
<1> DEFINE T == {c}
           list == <<c>>
<1>3. list \in Seq(T) /\ \A x \in T : x.source \notin AutoconfigSource
  BY <1>2
<1> HIDE DEF T, list
<1>4. Foreign(list)
  BY <1>3, ForeignSeq
<1>5. QED BY <1>4 DEF c, list

(* A list whose places all hold the source.                                *)
LEMMA ForeignEach ==
  ASSUME NEW n \in Nat, NEW list, list = [k \in 1 .. n |-> list[k]],
         \A k \in 1 .. n : list[k].source \notin AutoconfigSource
  PROVE  Foreign(list)
<1> DEFINE S == {list[k] : k \in 1 .. n}
<1>1. list \in Seq(S)
  <2>1. \A k \in 1 .. n : list[k] \in S
    OBVIOUS
  <2> HIDE DEF S
  <2>2. QED BY <2>1
<1>2. \A c \in S : c.source \notin AutoconfigSource
  OBVIOUS
<1>3. QED BY <1>1, <1>2 DEF Foreign

(* What each of the other mechanisms brings is of no autoconfig location.  *)
LEMMA ForeignProvider ==
  ASSUME NEW provider, NEW input
  PROVE  Foreign(ProviderConfigs(provider, input))
<1>1. {"google", "microsoft"} \cap AutoconfigSource = {}
  BY DEF AutoconfigSource, Location
<1>2. Foreign(GoogleConfigs(input))
  <2> DEFINE Mail(s) == Reach(s[1], Tcp(s[2], DefaultPort(s[1], s[3]), s[3]), input,
                             <<"code grant", "password">>, "google")
             Dav(service, url) == Reach(service, Http(url), input, <<"code grant">>, "google")
             mail == [k \in 1 .. 3 |-> Mail(MailServers.google[k])]
             dav == << Dav("caldav", "google calendars"), Dav("carddav", "google contacts") >>
  <2>1. Foreign(mail)
    <3>1. \A k \in 1 .. 3 : mail[k].source = "google"
      BY DEF Reach
    <3>2. mail = [k \in 1 .. 3 |-> mail[k]]
      OBVIOUS
    <3> HIDE DEF mail
    <3>3. QED BY <1>1, <3>1, <3>2, ForeignEach
  <2>2. Foreign(dav)
    <3>1. Dav("caldav", "google calendars").source = "google"
          /\ Dav("carddav", "google contacts").source = "google"
      BY DEF Reach
    <3> HIDE DEF Dav
    <3>2. dav \in Seq({Dav("caldav", "google calendars"), Dav("carddav", "google contacts")})
      OBVIOUS
    <3>3. QED BY <1>1, <3>1, <3>2 DEF Foreign
  <2>3. GoogleConfigs(input) = mail \o dav
    BY DEF GoogleConfigs
  <2> HIDE DEF mail, dav
  <2>4. QED BY <2>1, <2>2, <2>3, ForeignConcat
<1>3. Foreign(MicrosoftConfigs(input))
  <2> DEFINE Mail(s) == Reach(s[1], Tcp(s[2], DefaultPort(s[1], s[3]), s[3]), input,
                             <<"code grant", "device grant">>, "microsoft")
             mail == [k \in 1 .. 3 |-> Mail(MailServers.microsoft[k])]
  <2>1. \A k \in 1 .. 3 : mail[k].source = "microsoft"
    BY DEF Reach
  <2>2. mail = [k \in 1 .. 3 |-> mail[k]]
    OBVIOUS
  <2>3. MicrosoftConfigs(input) = mail
    BY DEF MicrosoftConfigs
  <2> HIDE DEF mail
  <2>4. QED BY <1>1, <2>1, <2>2, <2>3, ForeignEach
<1>4. QED BY <1>2, <1>3 DEF ProviderConfigs

LEMMA ForeignPacc == ASSUME NEW d PROVE Foreign(FromPacc(d))
<1> DEFINE protocols == TcpProtocols \o HttpProtocols
           places == {k \in DOMAIN protocols : d.protocols[protocols[k]] # NoText}
           offered == KeepAt(protocols, places)
           list == FromPacc(d)
<1>1. DOMAIN offered = 1 .. Cardinality(places)
  BY DEF KeepAt
<1>2. Cardinality(places) \in Nat
  <2>1. protocols \in Seq(Service) /\ Len(protocols) \in Nat /\ DOMAIN protocols = 1 .. Len(protocols)
    BY DEF TcpProtocols, HttpProtocols, Service
  <2>2. places \in SUBSET (1 .. Len(protocols))
    BY <2>1
  <2>3. QED BY <2>1, <2>2, Ranks
<1>3. /\ \A k \in DOMAIN offered : list[k].source = "pacc"
      /\ list = [k \in DOMAIN offered |-> list[k]]
  BY DEF FromPacc, Reach
<1> HIDE DEF offered, list
<1>4. "pacc" \notin AutoconfigSource
  BY DEF AutoconfigSource, Location
<1>5. Foreign(list)
  <2> DEFINE n == Cardinality(places)
  <2>1. n \in Nat /\ list = [k \in 1 .. n |-> list[k]] /\ \A k \in 1 .. n : list[k].source = "pacc"
    BY <1>1, <1>2, <1>3
  <2> HIDE DEF n
  <2>2. QED BY <1>4, <2>1, ForeignEach
<1>6. QED BY <1>5 DEF list

LEMMA ForeignSrv == ASSUME NEW report PROVE Foreign(FromSrv(report))
<1> DEFINE One(record, service, security) ==
             IF record = {} \/ The(record, 0).host = NoText THEN <<>>
             ELSE << Reach(service, Tcp(The(record, 0).host, The(record, 0).port, security),
                           NoText, <<"password">>, "srv") >>
<1>1. "srv" \notin AutoconfigSource
  BY DEF AutoconfigSource, Location
<1>2. ASSUME NEW record, NEW service, NEW security
      PROVE  Foreign(One(record, service, security))
  BY <1>1, ForeignEmpty, ForeignOne
<1>3. FromSrv(report) = One(report.imaps, "imap", "TLS") \o One(report.imap, "imap", "STARTTLS")
                          \o One(report.submission, "smtp", "STARTTLS")
  BY DEF FromSrv
<1> HIDE DEF One
<1>4. QED BY <1>2, <1>3, ForeignConcat

LEMMA ForeignJmap == ASSUME NEW session PROVE Foreign(FromJmap(session))
<1>1. "jmap" \notin AutoconfigSource
  BY DEF AutoconfigSource, Location
<1>2. \E auth : FromJmap(session) = << Reach("jmap", Http(session.url), NoText, auth, "jmap") >>
  BY DEF FromJmap
<1>3. QED BY <1>1, <1>2, ForeignOne

OtherMechanism == {"provider", "google", "microsoft", "pacc", "srv", "jmap"}

(* So is what they may yield.                                              *)
LEMMA ForeignYields ==
  ASSUME NEW m \in OtherMechanism, NEW r, NEW list \in Yields(m, r)
  PROVE  Foreign(list)
<1>1. CASE m \in {"provider", "google", "microsoft"}
  <2>1. ASSUME NEW providers, NEW l \in ProviderReport(m, providers, r)
        PROVE  Foreign(l)
    BY ForeignEmpty, ForeignProvider DEF ProviderReport, ProviderLists
  <2>2. PICK l : Foreign(l) /\ list = <<>> \o l
    BY <1>1, <2>1, ForeignEmpty DEF Yields
  <2>3. QED BY <2>2, ForeignEmpty, ForeignConcat
<1>2. CASE m \in {"pacc", "srv", "jmap"}
  <2>1. PICK l \in Lookup(m, r) \cup {<<>>} : list = <<>> \o l
    BY <1>2 DEF Yields
  <2>2. Foreign(l)
    BY <1>2, <2>1, ForeignEmpty, ForeignPacc, ForeignSrv, ForeignJmap DEF Lookup
  <2>3. QED BY <2>1, <2>2, ForeignEmpty, ForeignConcat
<1>3. QED BY <1>1, <1>2 DEF OtherMechanism

-----------------------------------------------------------------------------
(* What is published at a URL is a document.                               *)
LEMMA Published ==
  ASSUME NEW r \in Request, NEW url \in Location \cup Url, NEW d \in r.world.autoconfig[url]
  PROVE  IsDocument(d)
<1>1. r.world \in Worlds /\ r.world \in World
  BY WorldAssumption DEF Request
<1>2. r.world.autoconfig \in [Location \cup Url -> SUBSET Autoconfig]
  BY <1>1 DEF World
<1>3. d \in Autoconfig
  BY <1>2
<1>4. QED BY <1>1, <1>3, WorldAssumption DEF IsDocument

(* The record whose URL is followed: no record before it has one.          *)
LEMMA FirstRecord ==
  ASSUME NEW records \in Seq(Url \cup {NoText}), NEW url \in MailconfUrl(records)
  PROVE  \E i \in DOMAIN records :
           /\ records[i] = url /\ records[i] # NoText
           /\ \A k \in 1 .. i - 1 : records[k] = NoText
<1> DEFINE kept == {k \in DOMAIN records : records[k] # NoText}
           urls == KeepAt(records, kept)
<1>1. urls # <<>> /\ url = urls[1]
  BY DEF MailconfUrl
<1>2. DOMAIN records = 1 .. Len(records) /\ Len(records) \in Nat
  OBVIOUS
<1>3. /\ Cardinality(kept) \in Nat
      /\ \A k \in kept : Rank(k, kept) \in 1 .. Cardinality(kept)
      /\ \A j, k \in kept : j < k => Rank(j, kept) < Rank(k, kept)
  <2>1. kept \in SUBSET (1 .. Len(records))
    BY <1>2
  <2> HIDE DEF kept
  <2>2. QED BY <1>2, <2>1, Ranks
<1>4. PICK i \in kept : Rank(i, kept) = 1 /\ urls[1] = records[i]
  <2>1. kept \in SUBSET (DOMAIN records)
    OBVIOUS
  <2> HIDE DEF kept
  <2>2. /\ urls \in Seq(Url \cup {NoText})
        /\ \A j \in DOMAIN urls : \E k \in kept : Rank(k, kept) = j /\ urls[j] = records[k]
    BY <2>1, KeptItems
  <2> HIDE DEF urls
  <2>3. 1 \in DOMAIN urls
    BY <1>1, <2>2
  <2>4. QED BY <2>2, <2>3
<1>5. ASSUME NEW k \in 1 .. i - 1
      PROVE  k \notin kept
  <2>1. i \in Int /\ k < i
    BY <1>2
  <2> HIDE DEF kept
  <2>2. SUFFICES ASSUME k \in kept PROVE FALSE
    OBVIOUS
  <2>3. Rank(k, kept) < 1 /\ Rank(k, kept) \in 1 .. Cardinality(kept)
    BY <1>3, <1>4, <2>1, <2>2
  <2>4. QED BY <1>3, <2>3
<1>6. \A k \in 1 .. i - 1 : k \in DOMAIN records
  BY <1>2
<1>7. QED BY <1>1, <1>4, <1>5, <1>6

(* What a source brings: mail configurations of its own.                   *)
OfSource(list, s) ==
  \E S : list \in Seq(S) /\ \A c \in S : c.source = s /\ c.service \in MailService

Brought(s) ==
  (IF s = "mailconf" THEN Redirected(request) ELSE Documents(request, s, s)) \cup {<<>>}

(* A source brings nothing, or the flattening of one of its documents.     *)
LEMMA SourceBrings ==
  ASSUME request \in Request, NEW s \in AutoconfigSource, NEW list \in Brought(s)
  PROVE  /\ OfSource(list, s)
         /\ list = <<>> \/ \E d \in DocumentsOf(s) : Matches(list, d)
<1>1. ASSUME list # <<>>
      PROVE  \E d \in DocumentsOf(s) : IsDocument(d) /\ list = FromAutoconfig(d, request.input, s)
  <2>1. CASE s = "mailconf"
    <3>1. PICK url \in MailconfUrl(request.world.mailconf) : list \in Documents(request, url, s)
      BY <1>1, <2>1 DEF Brought, Redirected
    <3>2. request.world.mailconf \in Seq(Url \cup {NoText})
      BY WorldAssumption DEF Request, World
    <3>3. PICK i \in DOMAIN request.world.mailconf :
             /\ request.world.mailconf[i] = url /\ request.world.mailconf[i] # NoText
             /\ \A k \in 1 .. i - 1 : request.world.mailconf[k] = NoText
      BY <3>1, <3>2, FirstRecord
    <3>4. PICK d \in request.world.autoconfig[url] : list = FromAutoconfig(d, request.input, s)
      BY <3>1 DEF Documents
    <3>5. url \in Url
      BY <3>2, <3>3
    <3>6. IsDocument(d)
      BY <3>4, <3>5, Published
    <3>7. d \in DocumentsOf(s)
      BY <2>1, <3>3, <3>4 DEF DocumentsOf, Location
    <3>8. QED BY <3>4, <3>6, <3>7
  <2>2. CASE s # "mailconf"
    <3>1. s \in Location
      BY <2>2 DEF AutoconfigSource
    <3>2. PICK d \in request.world.autoconfig[s] : list = FromAutoconfig(d, request.input, s)
      BY <1>1, <2>2 DEF Brought, Documents
    <3>3. IsDocument(d)
      BY <3>1, <3>2, Published
    <3>4. QED BY <3>1, <3>2, <3>3 DEF DocumentsOf
  <2>3. QED BY <2>1, <2>2
<1>2. CASE list = <<>>
  <2> DEFINE S == {}
  <2>1. list \in Seq(S) /\ \A c \in S : c.source = s /\ c.service \in MailService
    BY <1>2
  <2> HIDE DEF S
  <2>2. QED BY <1>2, <2>1 DEF OfSource
<1>3. CASE list # <<>>
  <2>1. PICK d \in DocumentsOf(s) : IsDocument(d) /\ list = FromAutoconfig(d, request.input, s)
    BY <1>1, <1>3
  <2> DEFINE S == Range(list)
  <2>2. /\ list \in Seq(S) /\ Matches(list, d)
        /\ \A c \in S : c.source = s /\ c.service \in MailService
    BY <2>1, FlattenedDocument
  <2> HIDE DEF S
  <2>3. QED BY <2>1, <2>2 DEF OfSource
<1>4. QED BY <1>2, <1>3

-----------------------------------------------------------------------------
(* Filters that leave nothing, and that leave all.                         *)
LEMMA KeptNone == ASSUME NEW list PROVE KeepAt(list, {}) = <<>>
<1>1. Cardinality({}) = 0
  BY FS_EmptySet
<1>2. 1 .. 0 = {}
  OBVIOUS
<1>3. QED BY <1>1, <1>2 DEF KeepAt

LEMMA OnlyMail ==
  ASSUME NEW S, NEW list \in Seq(S), \A c \in S : c.service \in MailService
  PROVE  Only(list, EMAIL) = list
<1>1. Len(list) \in Nat /\ DOMAIN list = 1 .. Len(list) /\ \A k \in DOMAIN list : list[k] \in S
  OBVIOUS
<1>2. {k \in DOMAIN list : list[k].service \in EMAIL} = 0 + 1 .. Len(list)
  <2>1. \A k \in DOMAIN list : list[k].service \in EMAIL
    BY <1>1 DEF MailService, EMAIL
  <2>2. QED BY <1>1, <2>1
<1>3. Len(list) = 0 + Len(list) /\ Len(list) <= Len(list) /\ 0 \in Nat
      /\ \A i \in 1 .. Len(list) : list[0 + i] = list[i]
  BY <1>1
<1>4. KeepAt(list, 0 + 1 .. Len(list)) = list
  BY <1>1, <1>3, KeptRun
<1>5. QED BY <1>2, <1>4 DEF Only

(* The lists of the four locations, put one after the other: each source   *)
(* has its own part, and there is nothing else.                            *)
LEMMA FourParts ==
  ASSUME NEW a, NEW b, NEW c, NEW d, OfSource(a, "isp_main"), OfSource(b, "isp_fallback"),
         OfSource(c, "ispdb"), OfSource(d, "mailconf")
  PROVE  LET list == <<>> \o a \o b \o c \o d
         IN  /\ Only(list, EMAIL) = list
             /\ FromSource(list, "isp_main") = a /\ FromSource(list, "isp_fallback") = b
             /\ FromSource(list, "ispdb") = c /\ FromSource(list, "mailconf") = d
             /\ list = a \o b \o c \o d
<1>1. PICK A : a \in Seq(A) /\ \A x \in A : x.source = "isp_main" /\ x.service \in MailService
  BY DEF OfSource
<1>2. PICK B : b \in Seq(B) /\ \A x \in B : x.source = "isp_fallback" /\ x.service \in MailService
  BY DEF OfSource
<1>3. PICK C : c \in Seq(C) /\ \A x \in C : x.source = "ispdb" /\ x.service \in MailService
  BY DEF OfSource
<1>4. PICK D : d \in Seq(D) /\ \A x \in D : x.source = "mailconf" /\ x.service \in MailService
  BY DEF OfSource
<1> DEFINE T == A \cup B \cup C \cup D
           none == {}
           list == ((a \o b) \o c) \o d
<1>5. a \in Seq(T) /\ b \in Seq(T) /\ c \in Seq(T) /\ d \in Seq(T)
  BY <1>1, <1>2, <1>3, <1>4
<1>6. /\ \A x \in T : x.service \in MailService
      /\ a \o b \in Seq(A \cup B) /\ c \o d \in Seq(C \cup D)
      /\ <<>> \in Seq(none) /\ \A x \in none : FALSE
      /\ \A x \in A \cup B : x.source \in {"isp_main", "isp_fallback"}
      /\ \A x \in C \cup D : x.source \in {"ispdb", "mailconf"}
  BY <1>1, <1>2, <1>3, <1>4
<1>7. (a \o b) \o c \in Seq(A \cup B \cup C) /\ b \o (c \o d) \in Seq(B \cup (C \cup D))
  BY <1>2, <1>3, <1>6
<1> HIDE DEF T, none
<1>8. a \o b \in Seq(T) /\ c \o d \in Seq(T) /\ (a \o b) \o c \in Seq(T) /\ list \in Seq(T)
      /\ b \o (c \o d) \in Seq(T)
  BY <1>5, Concatenation
<1>9. list = (a \o b) \o (c \o d) /\ (a \o b) \o (c \o d) = a \o (b \o (c \o d))
  <2>1. ((a \o b) \o c) \o d = (a \o b) \o (c \o d)
    <3> DEFINE ab == a \o b
    <3>1. ab \in Seq(T)
      BY <1>8
    <3> HIDE DEF ab
    <3>2. (ab \o c) \o d = ab \o (c \o d)
      BY <1>5, <3>1, ConcatAssociative
    <3>3. QED BY <3>2 DEF ab
  <2>2. (a \o b) \o (c \o d) = a \o (b \o (c \o d))
    <3> DEFINE cd == c \o d
    <3>1. cd \in Seq(T)
      BY <1>8
    <3> HIDE DEF cd
    <3>2. (a \o b) \o cd = a \o (b \o cd)
      BY <1>5, <3>1, ConcatAssociative
    <3>3. QED BY <3>2 DEF cd
  <2>3. QED BY <2>1, <2>2
<1>10. <<>> \o a = a /\ list \o <<>> = list
  BY <1>5, <1>8, ConcatEmptySeq
<1>11. Only(list, EMAIL) = list
  BY <1>6, <1>8, OnlyMail
<1>12. FromSource(list, "isp_main") = a
  <2> DEFINE W == B \cup (C \cup D)
             w == b \o (c \o d)
             e == <<>>
  <2>1. w \in Seq(W) /\ \A x \in W : x.source # "isp_main"
    BY <1>2, <1>6, <1>7
  <2>2. list = (e \o a) \o w /\ e \in Seq(none) /\ \A x \in none : x.source # "isp_main"
    BY <1>6, <1>9, <1>10
  <2> HIDE DEF W, w, e, list
  <2>3. a \in Seq(A) /\ \A x \in A : x.source = "isp_main"
    BY <1>1
  <2>4. FromSource((e \o a) \o w, "isp_main") = a
    BY <2>1, <2>2, <2>3, Block
  <2>5. QED BY <2>2, <2>4
<1>13. FromSource(list, "isp_fallback") = b
  <2> DEFINE W == C \cup D
             w == c \o d
  <2>1. w \in Seq(W) /\ \A x \in W : x.source # "isp_fallback"
    BY <1>6
  <2>2. list = (a \o b) \o w
    BY <1>9
  <2> HIDE DEF W, w, list
  <2>3. \A x \in A : x.source # "isp_fallback"
    BY <1>1
  <2>4. FromSource((a \o b) \o w, "isp_fallback") = b
    BY <1>1, <1>2, <2>1, <2>3, Block
  <2>5. QED BY <2>2, <2>4
<1>14. FromSource(list, "ispdb") = c
  <2> DEFINE U == A \cup B
             u == a \o b
  <2>1. u \in Seq(U) /\ \A x \in U : x.source # "ispdb"
    BY <1>6
  <2>2. list = (u \o c) \o d
    OBVIOUS
  <2> HIDE DEF U, u, list
  <2>3. \A x \in D : x.source # "ispdb"
    BY <1>4
  <2>4. FromSource((u \o c) \o d, "ispdb") = c
    BY <1>3, <1>4, <2>1, <2>3, Block
  <2>5. QED BY <2>2, <2>4
<1>15. FromSource(list, "mailconf") = d
  <2> DEFINE U == A \cup B \cup C
             u == (a \o b) \o c
             e == <<>>
  <2>1. u \in Seq(U) /\ \A x \in U : x.source # "mailconf"
    BY <1>3, <1>6, <1>7
  <2>2. list = (u \o d) \o e /\ e \in Seq(none) /\ \A x \in none : x.source # "mailconf"
    BY <1>6, <1>10
  <2> HIDE DEF U, u, e, list
  <2>3. FromSource((u \o d) \o e, "mailconf") = d
    BY <1>4, <2>1, <2>2, Block
  <2>4. QED BY <2>2, <2>3
<1>16. <<>> \o a \o b \o c \o d = list
  BY <1>10
<1>17. QED BY <1>11, <1>12, <1>13, <1>14, <1>15, <1>16

-----------------------------------------------------------------------------
(* What the answer has of a source.                                        *)
LEMMA WholeMeans ==
  ASSUME request.command[1] = "email" =>
           /\ \A s \in AutoconfigSource :
                \/ FromSource(answer, s) = <<>>
                \/ \E d \in DocumentsOf(s) : Matches(FromSource(answer, s), d)
           /\ (\E i \in DOMAIN answer : answer[i].source \in AutoconfigSource) =>
                answer = FromSource(answer, "isp_main") \o FromSource(answer, "isp_fallback")
                           \o FromSource(answer, "ispdb") \o FromSource(answer, "mailconf")
  PROVE  WholeDocuments
BY DEF WholeDocuments, FromSource, AutoconfigSource

(* A mechanism that fetches no autoconfig document reports none.           *)
LEMMA ForeignAnswer ==
  ASSUME Foreign(answer)
  PROVE  WholeDocuments
<1>1. PICK S : answer \in Seq(S) /\ \A c \in S : c.source \notin AutoconfigSource
  BY DEF Foreign
<1>2. \A i \in DOMAIN answer : answer[i].source \notin AutoconfigSource
  BY <1>1
<1>3. ASSUME NEW s \in AutoconfigSource
      PROVE  FromSource(answer, s) = <<>>
  <2>1. {k \in DOMAIN answer : answer[k].source = s} = {}
    BY <1>2
  <2>2. QED BY <2>1, KeptNone DEF FromSource
<1>4. QED BY <1>2, <1>3, WholeMeans

(* The autoconfig mechanism reports whole documents, in order.             *)
LEMMA AutoconfigAnswer ==
  ASSUME request \in Request, request.command[1] = "email",
         NEW list \in Yields("autoconfig", request), answer = Asked(list, request)
  PROVE  WholeDocuments
<1>1. PICK a \in Brought("isp_main"), b \in Brought("isp_fallback"), c \in Brought("ispdb"),
          d \in Brought("mailconf") : list = <<>> \o a \o b \o c \o d
  <2> DEFINE All == Brought("isp_main") \X Brought("isp_fallback") \X Brought("ispdb")
                      \X Brought("mailconf")
  <2>1. Yields("autoconfig", request) = {<<>> \o l[1] \o l[2] \o l[3] \o l[4] : l \in All}
    BY DEF Yields, Brought
  <2>2. PICK l \in All : list = <<>> \o l[1] \o l[2] \o l[3] \o l[4]
    BY <2>1
  <2>3. l[1] \in Brought("isp_main") /\ l[2] \in Brought("isp_fallback")
        /\ l[3] \in Brought("ispdb") /\ l[4] \in Brought("mailconf")
    OBVIOUS
  <2>4. QED BY <2>2, <2>3
<1>2. {"isp_main", "isp_fallback", "ispdb", "mailconf"} = AutoconfigSource
  BY DEF AutoconfigSource, Location
<1>3. /\ OfSource(a, "isp_main") /\ OfSource(b, "isp_fallback")
      /\ OfSource(c, "ispdb") /\ OfSource(d, "mailconf")
  BY <1>1, <1>2, SourceBrings
<1>4. /\ a = <<>> \/ \E x \in DocumentsOf("isp_main") : Matches(a, x)
      /\ b = <<>> \/ \E x \in DocumentsOf("isp_fallback") : Matches(b, x)
      /\ c = <<>> \/ \E x \in DocumentsOf("ispdb") : Matches(c, x)
      /\ d = <<>> \/ \E x \in DocumentsOf("mailconf") : Matches(d, x)
  BY <1>1, <1>2, SourceBrings
<1>5. answer = Only(list, EMAIL)
  BY DEF Asked, Services
<1>6. /\ FromSource(answer, "isp_main") = a /\ FromSource(answer, "isp_fallback") = b
      /\ FromSource(answer, "ispdb") = c /\ FromSource(answer, "mailconf") = d
      /\ answer = a \o b \o c \o d
  <2> DEFINE parts == <<>> \o a \o b \o c \o d
  <2>1. /\ Only(parts, EMAIL) = parts
        /\ FromSource(parts, "isp_main") = a /\ FromSource(parts, "isp_fallback") = b
        /\ FromSource(parts, "ispdb") = c /\ FromSource(parts, "mailconf") = d
        /\ parts = a \o b \o c \o d
    BY <1>3, FourParts
  <2>2. list = parts
    BY <1>1
  <2> HIDE DEF parts
  <2>3. answer = parts
    BY <1>5, <2>1, <2>2
  <2>4. QED BY <2>1, <2>3
<1>7. QED BY <1>2, <1>4, <1>6, WholeMeans

(* What the end of any mechanism leaves of what it may yield.              *)
LEMMA WholeAnswer ==
  ASSUME request \in Request, NEW m \in OtherMechanism \cup {"autoconfig"},
         request.command[1] = "email",
         NEW list \in Yields(m, request), answer = Asked(list, request)
  PROVE  WholeDocuments
<1>1. CASE m = "autoconfig"
  BY <1>1, AutoconfigAnswer
<1>2. CASE m \in OtherMechanism
  <2>1. PICK S : list \in Seq(S) /\ \A c \in S : c.source \notin AutoconfigSource
    BY <1>2, ForeignYields DEF Foreign
  <2> DEFINE kept == {k \in DOMAIN list : list[k].service \in EMAIL}
  <2>2. answer = KeepAt(list, kept)
    BY DEF Asked, Services, Only
  <2>3. kept \in SUBSET (DOMAIN list)
    OBVIOUS
  <2> HIDE DEF kept
  <2>4. answer \in Seq(S)
    BY <2>1, <2>2, <2>3, KeptItems
  <2>5. QED BY <2>1, <2>4, ForeignAnswer DEF Foreign
<1>3. QED BY <1>1, <1>2

(* The mechanisms of the email commands.                                   *)
LEMMA EmailMechanism ==
  ASSUME CommandTypeOK, request.command[1] = "email", ~Ended
  PROVE  Mechanism \in OtherMechanism \cup {"autoconfig"}
<1>1. request.command \in Command
  BY DEF CommandTypeOK, Request
<1>2. request.command[2] \in {"first", "google", "microsoft", "autoconfig", "srv", "pacc", "jmap"}
  BY <1>1 DEF Command, EmailCommand, FileCommand, CalendarCommand, ContactCommand, AuthCommand
<1>3. request.command = <<"email", request.command[2]>>
  BY <1>1 DEF Command, EmailCommand, FileCommand, CalendarCommand, ContactCommand, AuthCommand
<1>4. turn \in 0 .. Len(Chain(request)) /\ turn # Len(Chain(request)) /\ Len(Chain(request)) \in Nat
  BY ChainIsFinite DEF CommandTypeOK, Ended
<1>5. CASE request.command[2] = "first"
  <2>1. Chain(request) = FirstEmail
    BY <1>3, <1>5 DEF Chain
  <2>2. turn \in 0 .. 4
    BY <1>4, <2>1 DEF FirstEmail
  <2>3. QED BY <2>1, <2>2 DEF Mechanism, FirstEmail, OtherMechanism
<1>6. CASE request.command[2] # "first"
  <2>1. Chain(request) = <<request.command[2]>>
    BY <1>3, <1>6 DEF Chain
  <2>2. turn = 0
    BY <1>4, <2>1
  <2>3. QED BY <1>2, <1>6, <2>1, <2>2 DEF Mechanism, OtherMechanism
<1>7. QED BY <1>5, <1>6

-----------------------------------------------------------------------------
(* The answer is nothing yet, or what a mechanism yields, reduced to what  *)
(* is asked for.                                                           *)
AnswerInv ==
  request.command[1] = "email" =>
    \/ answer = <<>>
    \/ \E m \in OtherMechanism \cup {"autoconfig"} :
         \E list \in Yields(m, request) : answer = Asked(list, request)

(* Only the end of a mechanism changes the answer.                         *)
LEMMA AnswerStep ==
  ASSUME CommandInv, AnswerInv, [Next]_vars
  PROVE  AnswerInv'
<1>1. CASE EndMechanism
  <2>1. step = "end" /\ answer' = Asked(found, request) /\ request' = request
    BY <1>1 DEF EndMechanism
  <2>2. found \in Yields(Mechanism, request) /\ ~Ended /\ CommandTypeOK
    BY <2>1 DEF CommandInv, CommandTypeOK, FoundInv
  <2> DEFINE m == Mechanism
  <2>3. request.command[1] = "email" => m \in OtherMechanism \cup {"autoconfig"}
    BY <2>2, EmailMechanism
  <2>4. found \in Yields(m, request') /\ answer' = Asked(found, request')
    BY <2>1, <2>2
  <2> HIDE DEF m
  <2>5. QED BY <2>1, <2>3, <2>4 DEF AnswerInv
<1>2. CASE ~EndMechanism
  <2>1. UNCHANGED <<request, answer>>
    BY <1>2 DEF Next, vars, MatchDomain, LookupMx, StartAutoconfig, FetchIsp, LookupMailconf,
       FetchMailconf, RunPacc, RunSrv, RunDav, RunJmap, ProbeAuth, FetchServer, FetchResource,
       Run, Goto, Bring, Output
  <2>2. QED BY <2>1 DEF AnswerInv
<1>3. QED BY <1>1, <1>2

(* So the answer is whole.                                                 *)
LEMMA AnswersAreWhole == CommandTypeOK /\ AnswerInv => WholeDocuments
<1> SUFFICES ASSUME CommandTypeOK, AnswerInv PROVE WholeDocuments
  OBVIOUS
<1>1. CASE request.command[1] # "email"
  BY <1>1 DEF WholeDocuments
<1>2. CASE answer = <<>>
  <2>1. Foreign(answer)
    BY <1>2, ForeignEmpty
  <2>2. QED BY <2>1, ForeignAnswer
<1>3. CASE request.command[1] = "email" /\ answer # <<>>
  <2>1. PICK m \in OtherMechanism \cup {"autoconfig"} :
           \E list \in Yields(m, request) : answer = Asked(list, request)
    BY <1>3 DEF AnswerInv
  <2>2. request \in Request
    BY DEF CommandTypeOK
  <2>3. QED BY <1>3, <2>1, <2>2, WholeAnswer
<1>4. QED BY <1>1, <1>2, <1>3

(* For whatever is published and however the exchanges end, what an answer *)
(* of the email commands has of an autoconfig location is the flattening   *)
(* of its whole document, and the locations come in their order.           *)
THEOREM DocumentsStayWhole == Spec => []WholeDocuments
<1>1. Init => AnswerInv
  BY DEF Init, AnswerInv
<1>2. CommandInv /\ AnswerInv /\ [Next]_vars => AnswerInv'
  BY AnswerStep
<1>3. CommandInv => CommandTypeOK
  BY DEF CommandInv
<1>4. QED BY <1>1, <1>2, <1>3, CommandInvariant, AnswersAreWhole, PTL DEF Spec
=============================================================================
