-------------------------- MODULE CollectorProofs --------------------------
(***************************************************************************)
(* Proofs about Collector for every value of its constants.                *)
(***************************************************************************)
EXTENDS Collector, SequenceTheorems, WellFoundedInduction, TLAPS

-----------------------------------------------------------------------------
(* Prefixes, element by element.                                           *)
LEMMA PrefixElements ==
  ASSUME NEW S, NEW s \in Seq(S), NEW t \in Seq(S)
  PROVE  IsPrefix(s, t) <=> /\ Len(s) <= Len(t)
                            /\ \A i \in 1 .. Len(s) : s[i] = t[i]
<1>1. ASSUME Len(s) <= Len(t)
      PROVE  SubSeq(s, 1, Len(s)) = SubSeq(t, 1, Len(s))
               <=> \A i \in 1 .. Len(s) : s[i] = t[i]
  <2>1. /\ SubSeq(s, 1, Len(s)) = [i \in 1 .. Len(s) |-> s[i]]
        /\ SubSeq(t, 1, Len(s)) = [i \in 1 .. Len(s) |-> t[i]]
    BY <1>1
  <2>2. QED BY <2>1
<1>2. QED BY <1>1 DEF IsPrefix

LEMMA StrictPrefixElements ==
  ASSUME NEW S, NEW s \in Seq(S), NEW t \in Seq(S)
  PROVE  IsStrictPrefix(s, t) <=> /\ Len(s) < Len(t)
                                  /\ \A i \in 1 .. Len(s) : s[i] = t[i]
<1>1. ASSUME IsPrefix(s, t)
      PROVE  s # t <=> Len(s) < Len(t)
  <2>1. Len(s) <= Len(t) /\ \A i \in 1 .. Len(s) : s[i] = t[i]
    BY <1>1, PrefixElements
  <2>2. CASE Len(s) = Len(t)
    BY <2>1, <2>2, SeqEqual
  <2>3. CASE Len(s) < Len(t)
    BY <2>3
  <2>4. QED BY <2>1, <2>2, <2>3
<1>2. QED BY <1>1, PrefixElements DEF IsStrictPrefix

(* SubdomainOf is a strict order on endpoints, and respects Equivalent.    *)
LEMMA SubdomainElements ==
  ASSUME NEW a \in Endpoint, NEW b \in Endpoint
  PROVE  SubdomainOf(a, b) <=> /\ Len(Host[b]) # 0
                               /\ Len(Host[b]) < Len(Host[a])
                               /\ \A i \in 1 .. Len(Host[b]) : Host[b][i] = Host[a][i]
<1>1. Host[a] \in Seq(Label) /\ Host[b] \in Seq(Label)
  BY EndpointAssumption
<1>2. Host[b] # <<>> <=> Len(Host[b]) # 0
  BY <1>1
<1>3. QED BY <1>1, <1>2, StrictPrefixElements DEF SubdomainOf

LEMMA SubdomainStrict ==
  ASSUME NEW a \in Endpoint, NEW b \in Endpoint, SubdomainOf(a, b)
  PROVE  ~Equivalent(a, b) /\ ~SubdomainOf(b, a)
<1>1. Host[a] \in Seq(Label) /\ Host[b] \in Seq(Label)
  BY EndpointAssumption
<1>2. Len(Host[b]) < Len(Host[a])
  BY SubdomainElements
<1>3. Host[a] # Host[b]
  BY <1>1, <1>2
<1>4. QED BY <1>1, <1>2, <1>3, SubdomainElements, EndpointAssumption DEF Equivalent

LEMMA SubdomainTransitive ==
  ASSUME NEW a \in Endpoint, NEW b \in Endpoint, NEW c \in Endpoint,
         SubdomainOf(a, b), SubdomainOf(b, c)
  PROVE  SubdomainOf(a, c)
<1>1. /\ Host[a] \in Seq(Label)
      /\ Host[b] \in Seq(Label)
      /\ Host[c] \in Seq(Label)
  BY EndpointAssumption
<1>2. /\ Len(Host[c]) # 0
      /\ Len(Host[c]) < Len(Host[b])
      /\ Len(Host[b]) < Len(Host[a])
      /\ \A i \in 1 .. Len(Host[b]) : Host[b][i] = Host[a][i]
      /\ \A i \in 1 .. Len(Host[c]) : Host[c][i] = Host[b][i]
  BY SubdomainElements
<1>3. \A i \in 1 .. Len(Host[c]) : Host[c][i] = Host[a][i]
  BY <1>1, <1>2
<1>4. Len(Host[c]) < Len(Host[a])
  BY <1>1, <1>2
<1>5. QED BY <1>2, <1>3, <1>4, SubdomainElements

LEMMA CoversTransitive ==
  ASSUME NEW a \in Endpoint, NEW b \in Endpoint, NEW c \in Endpoint,
         Covers(a, b), Covers(b, c)
  PROVE  Covers(a, c)
<1>1. CASE Equivalent(a, b)
  BY <1>1, EndpointAssumption DEF Covers, Equivalent, SubdomainOf
<1>2. CASE Equivalent(b, c)
  BY <1>2, EndpointAssumption DEF Covers, Equivalent, SubdomainOf
<1>3. CASE SubdomainOf(b, a) /\ SubdomainOf(c, b)
  BY <1>3, SubdomainTransitive DEF Covers
<1>4. QED BY <1>1, <1>2, <1>3 DEF Covers

-----------------------------------------------------------------------------
(* `find` finds an entry whenever one can be merged with: Push is taken    *)
(* only when no entry can.                                                 *)
LEMMA FirstMatchExists ==
  ASSUME configs \in Seq(Config), NEW c,
         NEW i \in DOMAIN configs, Mergeable(configs[i], c)
  PROVE  \E k \in DOMAIN configs : FirstMatch(k, c)
<1> DEFINE T == {k \in DOMAIN configs : Mergeable(configs[k], c)}
<1>1. T \subseteq Nat /\ T # {} /\ DOMAIN configs = 1 .. Len(configs)
  OBVIOUS
<1>2. PICK k \in T : \A j \in T : ~(<<j, k>> \in OpToRel(<, Nat))
  BY <1>1, NatLessThanWellFounded, WFMin
<1>3. \A j \in T : ~(j < k)
  BY <1>1, <1>2 DEF OpToRel
<1>4. \A j \in 1 .. k - 1 : ~Mergeable(configs[j], c)
  BY <1>1, <1>3
<1>5. QED BY <1>4 DEF FirstMatch

(* What the steps of the loops do to the ranges of sequences.              *)
LEMMA RangeAppend ==
  ASSUME NEW S, NEW s \in Seq(S), NEW x
  PROVE  Range(Append(s, x)) = Range(s) \cup {x}
<1>1. /\ DOMAIN Append(s, x) = 1 .. Len(s) + 1
      /\ Append(s, x)[Len(s) + 1] = x
      /\ \A i \in 1 .. Len(s) : Append(s, x)[i] = s[i]
      /\ DOMAIN s = 1 .. Len(s)
      /\ Len(s) \in Nat
  OBVIOUS
<1>2. Range(Append(s, x)) \subseteq Range(s) \cup {x}
  BY <1>1 DEF Range
<1>3. ASSUME NEW y \in Range(s) \cup {x}
      PROVE  y \in Range(Append(s, x))
  <2>1. CASE y = x
    BY <1>1, <2>1 DEF Range
  <2>2. CASE y \in Range(s)
    BY <1>1, <2>2 DEF Range
  <2>3. QED BY <2>1, <2>2
<1>4. QED BY <1>2, <1>3

LEMMA RangeHeadTail ==
  ASSUME NEW S, NEW s \in Seq(S), s # <<>>
  PROVE  Range(s) = {Head(s)} \cup Range(Tail(s))
<1>1. /\ DOMAIN s = 1 .. Len(s)
      /\ DOMAIN Tail(s) = 1 .. Len(s) - 1
      /\ Head(s) = s[1]
      /\ \A i \in 1 .. Len(s) - 1 : Tail(s)[i] = s[i + 1]
      /\ Len(s) \in Nat \ {0}
  OBVIOUS
<1>2. ASSUME NEW i \in DOMAIN s
      PROVE  s[i] \in {Head(s)} \cup Range(Tail(s))
  <2>1. CASE i = 1
    BY <1>1, <2>1
  <2>2. CASE i > 1
    <3>1. i - 1 \in DOMAIN Tail(s) /\ Tail(s)[i - 1] = s[i]
      BY <1>1, <2>2
    <3>2. QED BY <3>1 DEF Range
  <2>3. QED BY <1>1, <2>1, <2>2
<1>3. ASSUME NEW i \in DOMAIN Tail(s)
      PROVE  Tail(s)[i] \in Range(s)
  BY <1>1 DEF Range
<1>4. Head(s) \in Range(s)
  BY <1>1 DEF Range
<1>5. QED BY <1>2, <1>3, <1>4 DEF Range

-----------------------------------------------------------------------------
(* The pieces of a configuration keep their type through the loops.        *)
LEMMA RehostType ==
  ASSUME NEW e \in Config, NEW c \in Config
  PROVE  /\ Rehost(e, c) \in Config
         /\ SameLogin(e, Rehost(e, c))
         /\ Rehost(e, c).auth = e.auth
         /\ \/ /\ SubdomainOf(e.endpoint, c.endpoint)
               /\ Rehost(e, c).endpoint = c.endpoint
               /\ Rehost(e, c).source = c.source
            \/ /\ ~SubdomainOf(e.endpoint, c.endpoint)
               /\ Rehost(e, c) = e
  BY DEF Rehost, Config, SameLogin

LEMMA PushMethodType ==
  ASSUME NEW auth \in Seq(AuthMethod), NEW m \in AuthMethod
  PROVE  /\ PushMethod(auth, m) \in Seq(AuthMethod)
         /\ Range(PushMethod(auth, m)) = Range(auth) \cup {m}
         /\ IsPrefix(auth, PushMethod(auth, m))
         /\ IsInjective(auth) => IsInjective(PushMethod(auth, m))
<1>1. CASE m \in Range(auth)
  BY <1>1, PrefixElements DEF PushMethod
<1>2. CASE m \notin Range(auth)
  <2>1. PushMethod(auth, m) = Append(auth, m)
    BY <1>2 DEF PushMethod
  <2>2. Append(auth, m) \in Seq(AuthMethod)
    OBVIOUS
  <2>3. IsPrefix(auth, Append(auth, m))
    <3>1. Len(auth) <= Len(Append(auth, m)) /\ \A i \in 1 .. Len(auth) : auth[i] = Append(auth, m)[i]
      OBVIOUS
    <3>2. QED BY <2>2, <3>1, PrefixElements
  <2>4. ASSUME IsInjective(auth)
        PROVE  IsInjective(Append(auth, m))
    <3>1. /\ DOMAIN Append(auth, m) = 1 .. Len(auth) + 1
          /\ DOMAIN auth = 1 .. Len(auth)
          /\ Append(auth, m)[Len(auth) + 1] = m
          /\ \A i \in 1 .. Len(auth) : Append(auth, m)[i] = auth[i]
          /\ \A i \in 1 .. Len(auth) : auth[i] # m
          /\ Len(auth) \in Nat
      BY <1>2 DEF Range
    <3>2. \A i, j \in 1 .. Len(auth) : auth[i] = auth[j] => i = j
      BY <2>4, <3>1 DEF IsInjective
    <3>3. QED BY <3>1, <3>2 DEF IsInjective
  <2>5. QED BY <2>1, <2>2, <2>3, <2>4, RangeAppend
<1>3. QED BY <1>1, <1>2

LEMMA MergeLoopType ==
  ASSUME NEW i \in DOMAIN configs, configs \in Seq(Config),
         NEW methods \in Seq(AuthMethod)
  PROVE  /\ MergeLoop(i, methods) \in [at : Nat, auth : Seq(AuthMethod)]
         /\ MergeLoop(i, methods).auth = methods
         /\ MergeLoop(i, methods) = NoMerge
              \/ (MergeLoop(i, methods).at = i /\ methods # <<>>)
  BY DEF MergeLoop, NoMerge

(* The entries after each step, each told from the entry before it.        *)
LEMMA PushStep ==
  ASSUME CollectorTypeOK, Push
  PROVE  LET c == Head(batch) IN
         /\ c \in Config
         /\ batch' \in Seq(Config)
         /\ configs' \in Seq(Config)
         /\ DOMAIN configs' = DOMAIN configs \cup {Len(configs) + 1}
         /\ \A i \in DOMAIN configs : configs'[i] = configs[i]
         /\ configs'[Len(configs) + 1] = c
         /\ \A i \in DOMAIN configs : ~Mergeable(configs[i], c)
<1>1. Head(batch) \in Config /\ Tail(batch) \in Seq(Config)
  BY DEF CollectorTypeOK, Push
<1>2. \A i \in DOMAIN configs : ~Mergeable(configs[i], Head(batch))
  BY FirstMatchExists DEF CollectorTypeOK, Push
<1>3. QED BY <1>1, <1>2 DEF CollectorTypeOK, Push

LEMMA TakenStep ==
  ASSUME CollectorTypeOK, Push \/ Match
  PROVE  LET c == Head(batch) IN
         /\ taken' \in Seq(Config)
         /\ DOMAIN taken' = DOMAIN taken \cup {Len(taken) + 1}
         /\ \A k \in DOMAIN taken : taken'[k] = taken[k]
         /\ taken'[Len(taken) + 1] = c
         /\ Len(taken') = Len(taken) + 1
<1>1. Head(batch) \in Config
  BY DEF CollectorTypeOK, Push, Match
<1>2. taken' = Append(taken, Head(batch)) /\ taken \in Seq(Config)
  BY DEF CollectorTypeOK, Push, Match
<1>3. QED BY <1>1, <1>2

LEMMA MatchStep ==
  ASSUME CollectorTypeOK, Match
  PROVE  LET c == Head(batch) IN
         /\ c \in Config
         /\ batch' \in Seq(Config)
         /\ configs' \in Seq(Config)
         /\ DOMAIN configs' = DOMAIN configs
         /\ \E i \in DOMAIN configs :
              /\ FirstMatch(i, c)
              /\ configs'[i] = Rehost(configs[i], c)
              /\ \A j \in DOMAIN configs \ {i} : configs'[j] = configs[j]
              /\ merge' = MergeLoop(i, c.auth)
<1>1. Head(batch) \in Config /\ Tail(batch) \in Seq(Config)
  BY DEF CollectorTypeOK, Match
<1>2. PICK i \in DOMAIN configs :
        /\ FirstMatch(i, Head(batch))
        /\ configs' = [configs EXCEPT ![i] = Rehost(@, Head(batch))]
        /\ merge' = MergeLoop(i, Head(batch).auth)
  BY DEF Match
<1>3. configs[i] \in Config /\ configs \in Seq(Config)
  BY DEF CollectorTypeOK
<1>4. Rehost(configs[i], Head(batch)) \in Config
  BY <1>1, <1>3, RehostType
<1>5. configs' \in Seq(Config) /\ DOMAIN configs' = DOMAIN configs
  BY <1>2, <1>3, <1>4
<1>6. QED BY <1>1, <1>2, <1>5 DEF Match

LEMMA MergeMethodStep ==
  ASSUME CollectorTypeOK, MergeMethod
  PROVE  LET i == merge.at
             m == Head(merge.auth)
         IN
         /\ i \in DOMAIN configs
         /\ m \in AuthMethod
         /\ merge.auth # <<>>
         /\ configs' \in Seq(Config)
         /\ DOMAIN configs' = DOMAIN configs
         /\ configs'[i] = [configs[i] EXCEPT !.auth = PushMethod(configs[i].auth, m)]
         /\ \A j \in DOMAIN configs \ {i} : configs'[j] = configs[j]
         /\ Tail(merge.auth) \in Seq(AuthMethod)
<1> DEFINE i == merge.at
           m == Head(merge.auth)
<1>1. i \in DOMAIN configs /\ merge.auth # <<>> /\ merge.auth \in Seq(AuthMethod)
  BY DEF CollectorTypeOK, MergeMethod
<1>2. m \in AuthMethod /\ Tail(merge.auth) \in Seq(AuthMethod)
  BY <1>1
<1>3. configs \in Seq(Config) /\ configs[i] \in Config /\ configs[i].auth \in Seq(AuthMethod)
  <2>1. configs \in Seq(Config)
    BY DEF CollectorTypeOK
  <2>2. configs[i] \in Config
    BY <1>1, <2>1
  <2>3. QED BY <2>1, <2>2 DEF Config
<1>4. PushMethod(configs[i].auth, m) \in Seq(AuthMethod)
  BY <1>2, <1>3, PushMethodType
<1>5. configs' = [configs EXCEPT ![merge.at].auth = PushMethod(@, Head(merge.auth))]
  BY DEF MergeMethod
<1>6. [configs[i] EXCEPT !.auth = PushMethod(configs[i].auth, m)] \in Config
  BY <1>3, <1>4 DEF Config
<1>7. QED BY <1>1, <1>2, <1>3, <1>5, <1>6

-----------------------------------------------------------------------------
(* Every reachable state is well typed; in particular the inner loop never *)
(* outlives the entry it merges into.                                      *)
THEOREM TypeCorrect == CollectorSpec => []CollectorTypeOK
<1>1. CollectorInit => CollectorTypeOK
  BY DEF CollectorInit, CollectorTypeOK, NoMerge
<1>2. CollectorTypeOK /\ [CollectorNext]_collectorVars => CollectorTypeOK'
  <2> SUFFICES ASSUME CollectorTypeOK, [CollectorNext]_collectorVars
               PROVE  CollectorTypeOK'
    OBVIOUS
  <2>1. ASSUME NEW b \in Batch, Collect(b)
        PROVE  CollectorTypeOK'
    BY <2>1, BatchAssumption DEF Collect, CollectorTypeOK
  <2>2. CASE Skip
    BY <2>2 DEF Skip, CollectorTypeOK
  <2>3. CASE Push
    BY <2>3, PushStep, TakenStep DEF Push, CollectorTypeOK, NoMerge
  <2>4. CASE Match
    <3>1. PICK i \in DOMAIN configs : merge' = MergeLoop(i, Head(batch).auth)
      BY <2>4 DEF Match
    <3>2. Head(batch).auth \in Seq(AuthMethod)
      BY <2>4, MatchStep DEF Config
    <3>3. /\ merge' \in [at : Nat, auth : Seq(AuthMethod)]
          /\ merge' = NoMerge \/ (merge'.at \in DOMAIN configs /\ merge'.auth # <<>>)
      <4>1. configs \in Seq(Config)
        BY DEF CollectorTypeOK
      <4>2. QED BY <3>1, <3>2, <4>1, MergeLoopType
    <3>4. QED BY <2>4, <3>3, MatchStep, TakenStep DEF CollectorTypeOK, Match
  <2>5. CASE MergeMethod
    <3>1. merge' = MergeLoop(merge.at, Tail(merge.auth))
      BY <2>5 DEF MergeMethod
    <3>2. /\ merge.at \in DOMAIN configs /\ configs \in Seq(Config)
          /\ Tail(merge.auth) \in Seq(AuthMethod)
      BY <2>5, MergeMethodStep DEF CollectorTypeOK
    <3>3. /\ merge' \in [at : Nat, auth : Seq(AuthMethod)]
          /\ merge' = NoMerge \/ (merge'.at = merge.at /\ merge'.auth = Tail(merge.auth)
                                  /\ merge'.auth # <<>>)
      BY <3>1, <3>2, MergeLoopType
    <3>4. QED BY <2>5, <3>2, <3>3, MergeMethodStep DEF CollectorTypeOK, MergeMethod
  <2>6. CASE UNCHANGED collectorVars
    BY <2>6 DEF collectorVars, CollectorTypeOK
  <2>7. QED BY <2>1, <2>2, <2>3, <2>4, <2>5, <2>6 DEF CollectorNext, Loop
<1>3. QED BY <1>1, <1>2, PTL DEF CollectorSpec

-----------------------------------------------------------------------------
(* The methods the running inner loop still has to add to entry i.         *)
Pending(i) == IF i = merge.at THEN Range(merge.auth) ELSE {}

(* What one step may do to entry i: it keeps its login, its endpoint moves *)
(* only up, and no method of it, nor one it is owed, is dropped.           *)
Grows(i) ==
  /\ StableEntry(i)
  /\ Range(configs[i].auth) \cup Pending(i) \subseteq Range(configs'[i].auth) \cup Pending(i)'

LEMMA EntryType ==
  ASSUME CollectorTypeOK, NEW i \in DOMAIN configs
  PROVE  /\ configs[i] \in Config
         /\ configs[i].endpoint \in Endpoint
         /\ configs[i].auth \in Seq(AuthMethod)
<1>1. configs[i] \in Config
  BY DEF CollectorTypeOK
<1>2. QED BY <1>1 DEF Config

LEMMA TakenType ==
  ASSUME CollectorTypeOK, NEW k \in DOMAIN taken
  PROVE  /\ taken[k] \in Config
         /\ taken[k].endpoint \in Endpoint
         /\ taken[k].auth \in Seq(AuthMethod)
<1>1. taken[k] \in Config
  BY DEF CollectorTypeOK
<1>2. QED BY <1>1 DEF Config

LEMMA PrefixRefl ==
  ASSUME NEW S, NEW s \in Seq(S)
  PROVE  IsPrefix(s, s)
BY PrefixElements

LEMMA NoPending ==
  ASSUME CollectorTypeOK, merge = NoMerge, NEW i \in DOMAIN configs
  PROVE  Pending(i) = {}
BY DEF CollectorTypeOK, NoMerge, Pending, Range

LEMMA MergeMethodPending ==
  ASSUME CollectorTypeOK, MergeMethod, NEW i \in DOMAIN configs
  PROVE  Grows(i)
<1>1. configs[i] \in Config /\ configs[i].auth \in Seq(AuthMethod)
  BY EntryType
<1>2. CASE i # merge.at
  <2>1. configs'[i] = configs[i] /\ i \in DOMAIN configs' /\ Pending(i) = {}
    BY <1>2, MergeMethodStep DEF Pending
  <2>2. QED BY <1>1, <2>1, PrefixRefl DEF Grows, StableEntry, SameLogin
<1>3. CASE i = merge.at
  <2> DEFINE m == Head(merge.auth)
  <2>1. /\ m \in AuthMethod /\ merge.auth \in Seq(AuthMethod) /\ merge.auth # <<>>
        /\ Tail(merge.auth) \in Seq(AuthMethod)
    BY MergeMethodStep DEF CollectorTypeOK
  <2>2. /\ i \in DOMAIN configs'
        /\ configs'[i] = [configs[i] EXCEPT !.auth = PushMethod(configs[i].auth, m)]
    BY <1>3, MergeMethodStep
  <2>3. /\ configs'[i].auth = PushMethod(configs[i].auth, m)
        /\ configs'[i].endpoint = configs[i].endpoint
        /\ configs'[i].source = configs[i].source
        /\ SameLogin(configs[i], configs'[i])
    BY <1>1, <2>2 DEF Config, SameLogin
  <2>4. /\ IsPrefix(configs[i].auth, configs'[i].auth)
        /\ Range(configs'[i].auth) = Range(configs[i].auth) \cup {m}
    BY <1>1, <2>1, <2>3, PushMethodType
  <2>5. Pending(i) = {m} \cup Range(Tail(merge.auth))
    BY <1>3, <2>1, RangeHeadTail DEF Pending
  <2>6. Pending(i)' = Range(Tail(merge.auth))
    <3>1. merge' = MergeLoop(i, Tail(merge.auth))
      BY <1>3 DEF MergeMethod
    <3>2. CASE Tail(merge.auth) = <<>>
      <4>1. merge' = NoMerge /\ Range(Tail(merge.auth)) = {}
        BY <3>1, <3>2 DEF MergeLoop, Range
      <4>2. i # 0
        BY DEF CollectorTypeOK
      <4>3. QED BY <4>1, <4>2 DEF Pending, NoMerge
    <3>3. CASE Tail(merge.auth) # <<>>
      BY <3>1, <3>3 DEF MergeLoop, Pending
    <3>4. QED BY <3>2, <3>3
  <2>7. QED BY <2>2, <2>3, <2>4, <2>5, <2>6 DEF Grows, StableEntry
<1>4. QED BY <1>2, <1>3

LEMMA MatchGrows ==
  ASSUME CollectorTypeOK, Match, NEW i \in DOMAIN configs
  PROVE  Grows(i)
<1>1. configs[i] \in Config /\ configs[i].auth \in Seq(AuthMethod)
  BY EntryType
<1>2. Pending(i) = {} /\ i \in DOMAIN configs'
  BY NoPending, MatchStep DEF Match
<1>3. configs'[i] = configs[i] \/ configs'[i] = Rehost(configs[i], Head(batch))
  BY MatchStep
<1>4. /\ SameLogin(configs[i], configs'[i])
      /\ configs'[i].auth = configs[i].auth
      /\ \/ configs'[i].endpoint = configs[i].endpoint /\ configs'[i].source = configs[i].source
         \/ SubdomainOf(configs[i].endpoint, configs'[i].endpoint)
  BY <1>1, <1>3, MatchStep, RehostType DEF SameLogin
<1>5. QED BY <1>1, <1>2, <1>4, PrefixRefl DEF Grows, StableEntry

LEMMA PushGrows ==
  ASSUME CollectorTypeOK, Push, NEW i \in DOMAIN configs
  PROVE  Grows(i)
<1>1. configs[i].auth \in Seq(AuthMethod)
  BY EntryType
<1>2. configs'[i] = configs[i] /\ i \in DOMAIN configs' /\ Pending(i) = {}
  BY NoPending, PushStep DEF Push
<1>3. QED BY <1>1, <1>2, PrefixRefl DEF Grows, StableEntry, SameLogin

LEMMA EveryEntryGrows ==
  ASSUME CollectorTypeOK, [CollectorNext]_collectorVars, NEW i \in DOMAIN configs
  PROVE  Grows(i)
<1>1. configs[i].auth \in Seq(AuthMethod)
  BY EntryType
<1>2. ASSUME configs' = configs, merge' = merge
      PROVE  Grows(i)
  <2>1. Pending(i)' = Pending(i)
    BY <1>2 DEF Pending
  <2>2. QED BY <1>1, <1>2, <2>1, PrefixRefl DEF Grows, StableEntry, SameLogin
<1>3. ASSUME NEW b \in Batch, Collect(b)
      PROVE  Grows(i)
  BY <1>2, <1>3 DEF Collect
<1>4. CASE Skip
  BY <1>2, <1>4 DEF Skip
<1>5. CASE UNCHANGED collectorVars
  BY <1>2, <1>5 DEF collectorVars
<1>6. QED
  BY <1>3, <1>4, <1>5, PushGrows, MatchGrows, MergeMethodPending DEF CollectorNext, Loop

(* Entries are stable under every step, for any endpoints and batches.     *)
THEOREM EntriesAreStable == CollectorSpec => EntriesStable
<1>1. CollectorTypeOK /\ [CollectorNext]_collectorVars
        => [\A i \in DOMAIN configs : StableEntry(i)]_collectorVars
  BY EveryEntryGrows DEF Grows
<1>2. QED BY <1>1, TypeCorrect, PTL DEF CollectorSpec, EntriesStable

-----------------------------------------------------------------------------
(* What Match leaves of the configuration it takes: an entry of its login  *)
(* on its endpoint or a parent's, owed all its methods.                    *)
LEMMA MatchTakes ==
  ASSUME CollectorTypeOK, Match, NEW i \in DOMAIN configs, FirstMatch(i, Head(batch)),
         configs'[i] = Rehost(configs[i], Head(batch)),
         merge' = MergeLoop(i, Head(batch).auth)
  PROVE  Represents(configs'[i], Head(batch), Pending(i)')
<1> DEFINE c == Head(batch)
<1>1. /\ c \in Config /\ c.endpoint \in Endpoint /\ c.auth \in Seq(AuthMethod)
      /\ configs[i] \in Config
  BY MatchStep, EntryType DEF Config
<1>2. SameLogin(configs'[i], c)
  BY <1>1, RehostType DEF FirstMatch, Mergeable, SameLogin
<1>3. Covers(configs'[i].endpoint, c.endpoint)
  BY <1>1, RehostType DEF FirstMatch, Mergeable, Covers, Equivalent
<1>4. Range(c.auth) \subseteq Pending(i)'
  <2>1. CASE c.auth = <<>>
    BY <2>1 DEF Range
  <2>2. CASE c.auth # <<>>
    BY <2>2 DEF MergeLoop, Pending
  <2>3. QED BY <2>1, <2>2
<1>5. QED BY <1>2, <1>3, <1>4 DEF Represents

(* The inductive form of Represented: what an entry is owed counts.        *)
Owed ==
  \A k \in DOMAIN taken :
    \E i \in DOMAIN configs : Represents(configs[i], taken[k], Pending(i))

LEMMA OwedStep ==
  ASSUME CollectorTypeOK, CollectorTypeOK', Owed, [CollectorNext]_collectorVars
  PROVE  Owed'
<1>1. ASSUME NEW k \in DOMAIN taken, taken'[k] = taken[k]
      PROVE  \E i \in DOMAIN configs' : Represents(configs'[i], taken'[k], Pending(i)')
  <2>1. PICK i \in DOMAIN configs : Represents(configs[i], taken[k], Pending(i))
    BY DEF Owed
  <2>2. Grows(i) /\ i \in DOMAIN configs'
    BY EveryEntryGrows DEF Grows, StableEntry
  <2>3. /\ configs[i].endpoint \in Endpoint /\ configs'[i].endpoint \in Endpoint
        /\ taken[k].endpoint \in Endpoint
    <3>1. configs'[i] \in Config
      BY <2>2 DEF CollectorTypeOK
    <3>2. QED BY <3>1, EntryType, TakenType DEF Config
  <2>4. Covers(configs'[i].endpoint, configs[i].endpoint)
    BY <2>2 DEF Grows, StableEntry, Covers, Equivalent
  <2>5. Covers(configs'[i].endpoint, taken[k].endpoint)
    BY <2>1, <2>3, <2>4, CoversTransitive DEF Represents
  <2>6. QED BY <1>1, <2>1, <2>2, <2>5 DEF Represents, Grows, StableEntry, SameLogin
<1>2. ASSUME taken' = taken
      PROVE  Owed'
  BY <1>1, <1>2 DEF Owed
<1>3. CASE Push
  <2>1. PICK n \in DOMAIN configs' : configs'[n] = Head(batch)
    BY <1>3, PushStep
  <2>2. Represents(configs'[n], Head(batch), Pending(n)')
    BY <2>1 DEF Represents, SameLogin, Covers, Equivalent
  <2>3. ASSUME NEW k \in DOMAIN taken'
        PROVE  \E i \in DOMAIN configs' : Represents(configs'[i], taken'[k], Pending(i)')
    <3>1. CASE k \in DOMAIN taken
      BY <1>1, <1>3, <3>1, TakenStep
    <3>2. CASE k = Len(taken) + 1
      BY <1>3, <2>1, <2>2, <3>2, TakenStep
    <3>3. QED BY <1>3, <3>1, <3>2, TakenStep
  <2>4. QED BY <2>3 DEF Owed
<1>4. CASE Match
  <2>1. PICK i \in DOMAIN configs :
          /\ FirstMatch(i, Head(batch))
          /\ configs'[i] = Rehost(configs[i], Head(batch))
          /\ merge' = MergeLoop(i, Head(batch).auth)
    BY <1>4, MatchStep
  <2>2. Represents(configs'[i], Head(batch), Pending(i)') /\ i \in DOMAIN configs'
    BY <1>4, <2>1, MatchTakes, MatchStep
  <2>3. QED BY <1>1, <1>4, <2>2, TakenStep DEF Owed
<1>5. CASE taken' = taken
  BY <1>2, <1>5
<1>6. QED BY <1>3, <1>4, <1>5 DEF CollectorNext, Loop, Collect, Skip, MergeMethod, collectorVars

(* No wanted configuration is lost by the merging, whatever is fed.        *)
THEOREM NothingLost == CollectorSpec => []Represented
<1>1. CollectorInit => Owed
  BY DEF CollectorInit, Owed
<1>2. CollectorTypeOK /\ CollectorTypeOK' /\ Owed /\ [CollectorNext]_collectorVars => Owed'
  BY OwedStep
<1>3. CollectorTypeOK /\ Owed => Represented
  BY NoPending DEF Owed, Represented
<1>4. QED BY <1>1, <1>2, <1>3, TypeCorrect, PTL DEF CollectorSpec

-----------------------------------------------------------------------------
LEMMA NoLaterAncestorStep ==
  ASSUME CollectorTypeOK, CollectorTypeOK', NoLaterAncestor, [CollectorNext]_collectorVars
  PROVE  NoLaterAncestor'
<1>1. ASSUME \A i \in DOMAIN configs :
               /\ SameLogin(configs[i], configs'[i])
               /\ configs'[i].endpoint = configs[i].endpoint,
             DOMAIN configs' = DOMAIN configs
      PROVE  NoLaterAncestor'
  BY <1>1 DEF NoLaterAncestor, SameLogin
<1>2. ASSUME configs' = configs
      PROVE  NoLaterAncestor'
  BY <1>1, <1>2 DEF SameLogin
<1>3. CASE Push
  <2> SUFFICES ASSUME NEW i \in DOMAIN configs', NEW j \in DOMAIN configs',
                      i < j, SameLogin(configs'[i], configs'[j]),
                      Covers(configs'[j].endpoint, configs'[i].endpoint)
               PROVE  FALSE
    BY DEF NoLaterAncestor
  <2>1. DOMAIN configs = 1 .. Len(configs) /\ Len(configs) \in Nat
    BY DEF CollectorTypeOK
  <2>2. i \in DOMAIN configs /\ configs'[i] = configs[i]
    BY <1>3, <2>1, PushStep
  <2>3. CASE j \in DOMAIN configs
    BY <1>3, <2>2, <2>3, PushStep DEF NoLaterAncestor
  <2>4. CASE j = Len(configs) + 1
    BY <1>3, <2>2, <2>4, PushStep DEF Mergeable, Covers, Equivalent
  <2>5. QED BY <1>3, <2>3, <2>4, PushStep
<1>4. CASE Match
  <2> DEFINE c == Head(batch)
  <2>1. PICK m \in DOMAIN configs :
          /\ FirstMatch(m, c)
          /\ configs'[m] = Rehost(configs[m], c)
          /\ \A j \in DOMAIN configs \ {m} : configs'[j] = configs[j]
    BY <1>4, MatchStep
  <2>2. DOMAIN configs' = DOMAIN configs /\ c \in Config /\ c.endpoint \in Endpoint
    BY <1>4, MatchStep DEF Config
  <2>3. CASE ~SubdomainOf(configs[m].endpoint, c.endpoint)
    <3>1. configs'[m] = configs[m]
      BY <2>1, <2>3 DEF Rehost
    <3>2. QED BY <1>1, <2>1, <2>2, <3>1 DEF SameLogin
  <2>4. CASE SubdomainOf(configs[m].endpoint, c.endpoint)
    <3>1. /\ configs'[m].endpoint = c.endpoint
          /\ SameLogin(configs[m], configs'[m])
      BY <2>1, <2>2, <2>4, EntryType, RehostType
    <3> SUFFICES ASSUME NEW i \in DOMAIN configs, NEW j \in DOMAIN configs,
                        i < j, SameLogin(configs'[i], configs'[j]),
                        Covers(configs'[j].endpoint, configs'[i].endpoint)
                 PROVE  FALSE
      BY <2>2 DEF NoLaterAncestor
    <3> i # j
      BY DEF CollectorTypeOK
    <3>2. CASE i = m
      <4>1. configs'[j] = configs[j]
        BY <2>1, <3>2
      <4>2. Covers(c.endpoint, configs[m].endpoint)
        BY <2>4 DEF Covers
      <4>3. Covers(configs[j].endpoint, configs[m].endpoint)
        BY <2>2, <3>1, <3>2, <4>1, <4>2, EntryType, CoversTransitive
      <4>4. QED BY <3>1, <3>2, <4>1, <4>3 DEF NoLaterAncestor, SameLogin
    <3>3. CASE j = m
      <4>1. configs'[i] = configs[i]
        BY <2>1, <3>3
      <4>2. Mergeable(configs[i], c)
        BY <2>1, <3>1, <3>3, <4>1 DEF FirstMatch, Mergeable, Covers, Equivalent, SameLogin
      <4>3. i \in 1 .. m - 1
        BY <3>3 DEF CollectorTypeOK
      <4>4. QED BY <2>1, <4>2, <4>3 DEF FirstMatch
    <3>4. CASE i # m /\ j # m
      BY <2>1, <3>4 DEF NoLaterAncestor
    <3>5. QED BY <3>2, <3>3, <3>4
  <2>5. QED BY <2>3, <2>4
<1>5. CASE MergeMethod
  <2>1. ASSUME NEW i \in DOMAIN configs
        PROVE  /\ SameLogin(configs[i], configs'[i])
               /\ configs'[i].endpoint = configs[i].endpoint
    BY <1>5, EntryType, MergeMethodStep DEF SameLogin, Config
  <2>2. QED BY <1>1, <1>5, <2>1, MergeMethodStep
<1>6. QED BY <1>2, <1>3, <1>4, <1>5 DEF CollectorNext, Loop, Collect, Skip, collectorVars

(* An endpoint never follows itself or a shard of it in the list.          *)
THEOREM ParentsComeFirst == CollectorSpec => []NoLaterAncestor
<1>1. CollectorInit => NoLaterAncestor
  BY DEF CollectorInit, NoLaterAncestor
<1>2. CollectorTypeOK /\ CollectorTypeOK' /\ NoLaterAncestor /\ [CollectorNext]_collectorVars => NoLaterAncestor'
  BY NoLaterAncestorStep
<1>3. QED BY <1>1, <1>2, TypeCorrect, PTL DEF CollectorSpec

-----------------------------------------------------------------------------
(* A configuration about to be taken that no earlier entry merges with up  *)
(* to n is the first report of its endpoint if the entry n, should there   *)
(* be one, is strictly below it.                                           *)
LEMMA FirstReport ==
  ASSUME CollectorTypeOK, Owed, NoLaterAncestor, NEW c \in Config,
         NEW n \in Nat, merge = NoMerge,
         \A i \in DOMAIN configs : i < n => ~Mergeable(configs[i], c),
         n \in DOMAIN configs => /\ SameLogin(configs[n], c)
                                 /\ SubdomainOf(configs[n].endpoint, c.endpoint),
         n \notin DOMAIN configs => \A i \in DOMAIN configs : i < n,
         NEW j \in DOMAIN taken,
         SameLogin(taken[j], c), Equivalent(taken[j].endpoint, c.endpoint)
  PROVE  FALSE
<1>1. c.endpoint \in Endpoint
  BY DEF Config
<1>2. PICK i \in DOMAIN configs : Represents(configs[i], taken[j], Pending(i))
  BY DEF Owed
<1>3. Covers(configs[i].endpoint, c.endpoint) /\ SameLogin(configs[i], c)
  <2>1. Covers(taken[j].endpoint, c.endpoint)
    BY DEF Covers
  <2>2. Covers(configs[i].endpoint, c.endpoint)
    BY <1>1, <1>2, <2>1, EntryType, TakenType, CoversTransitive DEF Represents
  <2>3. QED BY <1>2, <2>2 DEF Represents, SameLogin
<1>4. Mergeable(configs[i], c)
  BY <1>3 DEF Mergeable, Covers, Equivalent
<1>5. i \in Nat /\ ~(i < n) /\ n \in DOMAIN configs
  BY <1>4 DEF CollectorTypeOK
<1>6. CASE i = n
  BY <1>1, <1>3, <1>5, <1>6, EntryType, SubdomainStrict DEF Covers, Equivalent
<1>7. CASE n < i
  <2>1. Covers(c.endpoint, configs[n].endpoint)
    BY <1>5 DEF Covers
  <2>2. Covers(configs[i].endpoint, configs[n].endpoint)
    BY <1>1, <1>3, <1>5, <2>1, EntryType, CoversTransitive
  <2>3. SameLogin(configs[n], configs[i])
    BY <1>3, <1>5 DEF SameLogin
  <2>4. QED BY <1>5, <1>7, <2>2, <2>3 DEF NoLaterAncestor
<1>8. QED BY <1>5, <1>6, <1>7

(* Entries that keep their login, endpoint and source keep their reporter. *)
LEMMA SameReporter ==
  ASSUME CollectorTypeOK, FirstReporterWins, NEW i \in DOMAIN configs, NEW e,
         SameLogin(configs[i], e),
         e.endpoint = configs[i].endpoint, e.source = configs[i].source,
         taken' = taken \/ Push \/ Match
  PROVE  \E k \in DOMAIN taken' : ReportsFirst(k, e)'
<1>1. PICK k \in DOMAIN taken : ReportsFirst(k, configs[i])
  BY DEF FirstReporterWins
<1>2. /\ k \in DOMAIN taken'
      /\ \A j \in 1 .. k : taken'[j] = taken[j]
      /\ k \in 1 .. k
  <2>1. \A j \in 1 .. k : j \in DOMAIN taken
    BY DEF CollectorTypeOK
  <2>2. k \in Nat \ {0}
    BY DEF CollectorTypeOK
  <2>3. QED BY <2>1, <2>2, TakenStep
<1>3. QED BY <1>1, <1>2 DEF ReportsFirst, SameLogin

(* An entry on the endpoint of the configuration just taken, reported for  *)
(* the first time.                                                         *)
LEMMA NewReporter ==
  ASSUME CollectorTypeOK, Push \/ Match, NEW e,
         SameLogin(Head(batch), e),
         e.endpoint = Head(batch).endpoint, e.source = Head(batch).source,
         \A j \in DOMAIN taken :
           ~(SameLogin(taken[j], Head(batch))
               /\ Equivalent(taken[j].endpoint, Head(batch).endpoint))
  PROVE  \E k \in DOMAIN taken' : ReportsFirst(k, e)'
<1>1. Len(taken) + 1 \in DOMAIN taken' /\ Len(taken) \in Nat /\ DOMAIN taken = 1 .. Len(taken)
  BY TakenStep DEF CollectorTypeOK
<1>2. PICK k \in DOMAIN taken' : k = Len(taken) + 1
  BY <1>1
<1>3. taken'[k] = Head(batch) /\ \A j \in 1 .. k - 1 : taken'[j] = taken[j] /\ j \in DOMAIN taken
  BY <1>1, <1>2, TakenStep
<1>4. QED BY <1>3 DEF ReportsFirst, SameLogin

LEMMA FirstReporterStep ==
  ASSUME CollectorTypeOK, Owed, NoLaterAncestor, FirstReporterWins, [CollectorNext]_collectorVars
  PROVE  FirstReporterWins'
<1> SUFFICES ASSUME NEW i \in DOMAIN configs'
             PROVE  \E k \in DOMAIN taken' : ReportsFirst(k, configs[i])'
  BY DEF FirstReporterWins
<1>1. ASSUME i \in DOMAIN configs, taken' = taken \/ Push \/ Match,
             SameLogin(configs[i], configs'[i]),
             configs'[i].endpoint = configs[i].endpoint,
             configs'[i].source = configs[i].source
      PROVE  \E k \in DOMAIN taken' : ReportsFirst(k, configs[i])'
  BY <1>1, SameReporter
<1>2. ASSUME configs' = configs, taken' = taken
      PROVE  \E k \in DOMAIN taken' : ReportsFirst(k, configs[i])'
  BY <1>1, <1>2 DEF SameLogin
<1>3. CASE Push
  <2>1. CASE i \in DOMAIN configs
    BY <1>1, <1>3, <2>1, PushStep DEF SameLogin
  <2>2. CASE i = Len(configs) + 1
    <3>1. configs'[i] = Head(batch) /\ Head(batch) \in Config
      BY <1>3, <2>2, PushStep
    <3>2. \A j \in DOMAIN taken :
            ~(SameLogin(taken[j], Head(batch))
                /\ Equivalent(taken[j].endpoint, Head(batch).endpoint))
      <4>1. /\ i \in Nat /\ i \notin DOMAIN configs
            /\ \A k \in DOMAIN configs : k < i
        BY <2>2 DEF CollectorTypeOK
      <4>2. \A k \in DOMAIN configs : ~Mergeable(configs[k], Head(batch))
        BY <1>3, PushStep
      <4>3. merge = NoMerge
        BY <1>3 DEF Push
      <4>4. QED BY <3>1, <4>1, <4>2, <4>3, FirstReport
    <3>3. QED BY <1>3, <3>1, <3>2, NewReporter DEF SameLogin
  <2>3. QED BY <1>3, <2>1, <2>2, PushStep
<1>4. CASE Match
  <2> DEFINE c == Head(batch)
  <2>1. PICK m \in DOMAIN configs :
          /\ FirstMatch(m, c)
          /\ configs'[m] = Rehost(configs[m], c)
          /\ \A j \in DOMAIN configs \ {m} : configs'[j] = configs[j]
    BY <1>4, MatchStep
  <2>2. i \in DOMAIN configs /\ c \in Config
    BY <1>4, MatchStep
  <2>3. CASE configs'[i] = configs[i]
    BY <1>1, <1>4, <2>2, <2>3 DEF SameLogin
  <2>4. CASE configs'[i] # configs[i]
    <3>1. i = m
      BY <2>1, <2>2, <2>4
    <3>2. /\ SubdomainOf(configs[i].endpoint, c.endpoint)
          /\ SameLogin(configs[i], configs'[i])
          /\ configs'[i].endpoint = c.endpoint
          /\ configs'[i].source = c.source
      BY <2>1, <2>2, <2>4, <3>1, EntryType, RehostType
    <3>3. SameLogin(configs[i], c)
      BY <2>1, <3>1 DEF FirstMatch, Mergeable
    <3>4. \A j \in DOMAIN taken :
            ~(SameLogin(taken[j], c) /\ Equivalent(taken[j].endpoint, c.endpoint))
      <4>1. i \in Nat /\ \A k \in DOMAIN configs : k < i => k \in 1 .. i - 1
        BY <2>2 DEF CollectorTypeOK
      <4>2. \A k \in DOMAIN configs : k < i => ~Mergeable(configs[k], c)
        BY <2>1, <3>1, <4>1 DEF FirstMatch
      <4>3. merge = NoMerge
        BY <1>4 DEF Match
      <4>4. QED BY <2>2, <3>2, <3>3, <4>1, <4>2, <4>3, FirstReport
    <3>5. SameLogin(c, configs'[i])
      BY <3>2, <3>3 DEF SameLogin
    <3>6. QED BY <1>4, <3>2, <3>4, <3>5, NewReporter
  <2>5. QED BY <2>3, <2>4
<1>5. CASE MergeMethod
  <2>1. i \in DOMAIN configs
    BY <1>5, MergeMethodStep
  <2>2. /\ SameLogin(configs[i], configs'[i])
        /\ configs'[i].endpoint = configs[i].endpoint
        /\ configs'[i].source = configs[i].source
    BY <1>5, <2>1, EntryType, MergeMethodStep DEF SameLogin, Config
  <2>3. QED BY <1>1, <1>5, <2>1, <2>2 DEF MergeMethod
<1>6. QED BY <1>2, <1>3, <1>4, <1>5 DEF CollectorNext, Loop, Collect, Skip, collectorVars

(* Priority is respected for any sequence of mechanism outputs.            *)
THEOREM PriorityRespected == CollectorSpec => []FirstReporterWins
<1>1. CollectorInit => Owed /\ NoLaterAncestor /\ FirstReporterWins
  BY DEF CollectorInit, Owed, NoLaterAncestor, FirstReporterWins
<1>2. CollectorTypeOK /\ CollectorTypeOK' /\ Owed /\ [CollectorNext]_collectorVars => Owed'
  BY OwedStep
<1>3. CollectorTypeOK /\ Owed /\ NoLaterAncestor /\ FirstReporterWins /\ [CollectorNext]_collectorVars
        => FirstReporterWins'
  BY FirstReporterStep
<1>4. QED BY <1>1, <1>2, <1>3, TypeCorrect, ParentsComeFirst, PTL DEF CollectorSpec

-----------------------------------------------------------------------------
TakenDistinct == \A k \in DOMAIN taken : IsInjective(taken[k].auth)

LEMMA AuthDistinctStep ==
  ASSUME CollectorTypeOK, AuthDistinct, [CollectorNext]_collectorVars
  PROVE  AuthDistinct'
<1> SUFFICES ASSUME TakenDistinct', NEW i \in DOMAIN configs'
             PROVE  IsInjective(configs'[i].auth)
  BY DEF AuthDistinct, TakenDistinct
<1>1. ASSUME i \in DOMAIN configs, configs'[i].auth = configs[i].auth,
             taken' = taken \/ Push \/ Match
      PROVE  IsInjective(configs'[i].auth)
  <2>1. TakenDistinct
    BY <1>1, TakenStep DEF TakenDistinct
  <2>2. QED BY <1>1, <2>1 DEF AuthDistinct, TakenDistinct
<1>2. CASE Push
  <2>1. CASE i \in DOMAIN configs
    BY <1>1, <1>2, <2>1, PushStep
  <2>2. CASE i = Len(configs) + 1
    BY <1>2, <2>2, PushStep, TakenStep DEF TakenDistinct
  <2>3. QED BY <1>2, <2>1, <2>2, PushStep
<1>3. CASE Match
  <2>1. i \in DOMAIN configs
    BY <1>3, MatchStep
  <2>2. configs'[i].auth = configs[i].auth
    BY <1>3, <2>1, MatchStep, EntryType, RehostType
  <2>3. QED BY <1>1, <1>3, <2>1, <2>2
<1>4. CASE MergeMethod
  <2>1. i \in DOMAIN configs /\ TakenDistinct
    BY <1>4, MergeMethodStep DEF MergeMethod, TakenDistinct
  <2>2. IsInjective(configs[i].auth)
    BY <2>1 DEF AuthDistinct, TakenDistinct
  <2>3. CASE i # merge.at
    BY <1>4, <2>1, <2>2, <2>3, MergeMethodStep
  <2>4. CASE i = merge.at
    <3>1. configs'[i].auth = PushMethod(configs[i].auth, Head(merge.auth))
      BY <1>4, <2>1, <2>4, EntryType, MergeMethodStep DEF Config
    <3>2. configs[i].auth \in Seq(AuthMethod) /\ Head(merge.auth) \in AuthMethod
      BY <1>4, <2>1, EntryType, MergeMethodStep
    <3>3. IsInjective(PushMethod(configs[i].auth, Head(merge.auth)))
      BY <2>2, <3>2, PushMethodType
    <3>4. QED BY <3>1, <3>3
  <2>5. QED BY <2>3, <2>4
<1>5. CASE configs' = configs /\ taken' = taken
  BY <1>1, <1>5
<1>6. QED BY <1>2, <1>3, <1>4, <1>5 DEF CollectorNext, Loop, Collect, Skip, collectorVars

(* Merging never lists a method twice, for any mechanism that does not.    *)
THEOREM MethodsStayDistinct == CollectorSpec => []AuthDistinct
<1>1. CollectorInit => AuthDistinct
  BY DEF CollectorInit, AuthDistinct
<1>2. CollectorTypeOK /\ AuthDistinct /\ [CollectorNext]_collectorVars => AuthDistinct'
  BY AuthDistinctStep
<1>3. QED BY <1>1, <1>2, TypeCorrect, PTL DEF CollectorSpec
=============================================================================
