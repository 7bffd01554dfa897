----------------------------- MODULE PaccProofs -----------------------------
(***************************************************************************)
(* Proofs about Pacc for any domains, bodies, hosts and zones, and any     *)
(* number of calls.                                                        *)
(***************************************************************************)
EXTENDS Pacc, SequenceTheorems, TLAPS

(* A web host is only ever asked for its own document.                     *)
OwnHost == \A d \in Domain : \A i \in 1 .. Len(pending[d]) : pending[d][i] = d

(* While no read from the resolver failed, it owes at most the answer the  *)
(* running call waits for.                                                 *)
ResolverInStep ==
  ~late =>
    \/ pending[Resolver] = <<>>
    \/ pending[Resolver] = <<domain>> /\ ~Idle /\ state = "Verify" /\ reading

(* A domain without a URL is never asked about.                            *)
Named == ~Idle /\ (state = "Verify" \/ reading) => domain \notin BadUrl

(* The body to verify is what the host of the domain served.               *)
Served ==
  ~Idle /\ state = "Verify" => [kind |-> "success", body |-> body] \in Site[domain]

Untroubled == ~trouble => ~late /\ \A k \in Key : pool[k] # "closed"

StreamsInv == OwnHost /\ ResolverInStep /\ Named

PaccInv ==
  PaccTypeOK /\ StreamsInv /\ Served /\ Untroubled /\ VouchedFor /\ PublishedIsFound

LEMMA PaccInit == Init => PaccInv
<1> SUFFICES ASSUME Init PROVE PaccInv
  OBVIOUS
<1>1. Resolver \in Key /\ Domain \subseteq Key
  BY DEF Key
<1>2. PaccTypeOK
  <2>1. 0 \in 0 .. MaxCalls /\ NothingPending \in [Key -> Seq(Domain)]
        /\ EmptyPool \in [Key -> {"absent", "open", "closed"}] /\ NoOutcome \in Outcome
    BY CallsAssumption DEF EmptyPool, NothingPending, NoOutcome, Outcome, Kind
  <2>2. QED BY <2>1 DEF Init, PaccTypeOK
<1>3. StreamsInv
  BY <1>1 DEF Init, StreamsInv, OwnHost, ResolverInStep, Named, NothingPending, Idle
<1>4. Served /\ Untroubled
  BY DEF Init, Served, Untroubled, Idle, EmptyPool
<1>5. VouchedFor /\ PublishedIsFound
  BY DEF Init, VouchedFor, PublishedIsFound, NoOutcome
<1>6. QED BY <1>2, <1>3, <1>4, <1>5 DEF PaccInv

-----------------------------------------------------------------------------
(* What is taken from a stream leaves a tail of it there, and the others   *)
(* as they were.                                                           *)
LEMMA TakenTail ==
  ASSUME PaccTypeOK, OwnHost, NEW k \in Key, NEW n \in 1 .. Len(pending[k]), Take(k, n)
  PROVE  /\ pending' \in [Key -> Seq(Domain)]
         /\ OwnHost'
         /\ pending[k] # <<>> /\ Head(pending[k]) \in Domain /\ Head(pending[k]) = pending[k][1]
         /\ \A j \in Key : j # k => pending'[j] = pending[j]
         /\ Len(pending[k]) = 1 => pending'[k] = <<>>
<1> DEFINE s == pending[k]
           t == SubSeq(s, n + 1, Len(s))
<1>1. s \in Seq(Domain) /\ Len(s) \in Nat /\ n \in Nat \ {0} /\ n <= Len(s)
  BY DEF PaccTypeOK
<1>2. \A i \in n + 1 .. Len(s) : s[i] \in Domain
  BY <1>1
<1> HIDE DEF s
<1>3. /\ t \in Seq(Domain)
      /\ Len(t) = IF n + 1 <= Len(s) THEN Len(s) - (n + 1) + 1 ELSE 0
      /\ \A i \in 1 .. Len(s) - (n + 1) + 1 : t[i] = s[n + 1 + i - 1]
  BY <1>1, <1>2, SubSeqProperties
<1> HIDE DEF t
<1>4. pending' = [pending EXCEPT ![k] = t] /\ pending \in [Key -> Seq(Domain)]
  BY DEF Take, PaccTypeOK, s, t
<1>5. \A j \in Key : pending'[j] = IF j = k THEN t ELSE pending[j]
  BY <1>4
<1>6. pending' \in [Key -> Seq(Domain)]
  BY <1>3, <1>4
<1>7. \A i \in 1 .. Len(t) : n + i \in 1 .. Len(s) /\ t[i] = s[n + i]
  <2> SUFFICES ASSUME NEW i \in 1 .. Len(t) PROVE n + i \in 1 .. Len(s) /\ t[i] = s[n + i]
    OBVIOUS
  <2>1. n + 1 + i - 1 = n + i /\ i \in 1 .. Len(s) - (n + 1) + 1 /\ n + i \in 1 .. Len(s)
    BY <1>1, <1>3
  <2>2. QED BY <1>3, <2>1
<1>8. OwnHost'
  <2> SUFFICES ASSUME NEW d \in Domain, NEW i \in 1 .. Len(pending'[d])
               PROVE  pending'[d][i] = d
    BY DEF OwnHost
  <2>1. CASE d = k
    BY <1>5, <1>7, <2>1 DEF OwnHost, s
  <2>2. CASE d # k
    BY <1>5, <2>2 DEF OwnHost, Key
  <2>3. QED BY <2>1, <2>2
<1>9. s # <<>> /\ Head(s) \in Domain /\ Head(s) = s[1]
  BY <1>1
<1>10. Len(s) = 1 => t = <<>>
  BY <1>1, <1>3, EmptySeq
<1>11. QED BY <1>5, <1>6, <1>8, <1>9, <1>10 DEF s

(* What an exchange with the resolver reads while it is in step.           *)
LEMMA ResolverAnswersNow ==
  ASSUME PaccInv, ~late, ~Idle, NEW n \in 1 .. Len(pending[Resolver]), Take(Resolver, n)
  PROVE  Head(pending[Resolver]) = domain /\ pending'[Resolver] = <<>>
<1>1. pending[Resolver] # <<>> /\ (Len(pending[Resolver]) = 1 => pending'[Resolver] = <<>>)
  BY TakenTail DEF PaccInv, StreamsInv, Key
<1>2. pending[Resolver] = <<domain>>
  BY <1>1 DEF PaccInv, StreamsInv, ResolverInStep
<1>3. Len(<<domain>>) = 1 /\ Head(<<domain>>) = domain
  OBVIOUS
<1>4. QED BY <1>1, <1>2, <1>3

LEMMA PeerIsKey == ASSUME PaccTypeOK, ~Idle PROVE Peer \in Key /\ domain \in Domain
<1>1. QED BY DEF PaccTypeOK, Idle, Peer, Key

-----------------------------------------------------------------------------
(* A call that ends without a document, with the streams left in step.     *)
LEMMA Failed ==
  ASSUME PaccInv, ~Idle, NEW kind \in Kind \ {"none", "ok"}, Fail(kind),
         pool' \in [Key -> {"absent", "open", "closed"}],
         pending' \in [Key -> Seq(Domain)], OwnHost',
         late' \in BOOLEAN, trouble' \in BOOLEAN,
         ~late' => pending'[Resolver] = <<>>,
         ~trouble' => ~late' /\ (\A k \in Key : pool'[k] # "closed") /\ ~Consistent(domain)
  PROVE  PaccInv'
<1>1. /\ outcome' = [kind |-> kind, domain |-> domain, document |-> NoBody]
      /\ domain' = NoDomain /\ Idle' /\ outcome'.kind = kind /\ outcome'.domain = domain
      /\ UNCHANGED <<driver, state, reading, body, calls>>
  BY DEF Fail, Return, Idle
<1>2. PaccTypeOK'
  BY <1>1 DEF PaccInv, PaccTypeOK, Outcome
<1>3. StreamsInv' /\ Served' /\ Untroubled'
  BY <1>1 DEF StreamsInv, ResolverInStep, Named, Served, Untroubled
<1>4. VouchedFor'
  BY <1>1 DEF VouchedFor
<1>5. PublishedIsFound'
  BY <1>1 DEF PublishedIsFound, Consistent
<1>6. QED BY <1>2, <1>3, <1>4, <1>5 DEF PaccInv

LEMMA PaccStep == PaccInv /\ [Next]_vars => PaccInv'
<1> SUFFICES ASSUME PaccInv, [Next]_vars PROVE PaccInv'
  OBVIOUS
<1> USE DEF netVars, histVars
<1>t. PaccTypeOK /\ OwnHost /\ ResolverInStep /\ Named /\ Served /\ Untroubled
  BY DEF PaccInv, StreamsInv
<1>k. Resolver \in Key /\ Domain \subseteq Key /\ Resolver \notin Domain
  BY DomainAssumption DEF Key
<1>p. pool \in [Key -> {"absent", "open", "closed"}] /\ pending \in [Key -> Seq(Domain)]
      /\ late \in BOOLEAN /\ trouble \in BOOLEAN
  BY <1>t DEF PaccTypeOK
<1>1. ASSUME NEW d \in Domain, Discover(d)
      PROVE  PaccInv'
  <2>1. /\ domain' = d /\ ~Idle' /\ state' = "Get" /\ reading' = FALSE /\ outcome' = NoOutcome
        /\ \/ pool' = EmptyPool /\ pending' = NothingPending /\ late' = FALSE /\ trouble' = FALSE
           \/ UNCHANGED <<netVars, histVars>>
    BY <1>1, DomainAssumption DEF Discover, Idle
  <2>2. PaccTypeOK'
    <3>1. /\ EmptyPool \in [Key -> {"absent", "open", "closed"}]
          /\ NothingPending \in [Key -> Seq(Domain)] /\ NoOutcome \in Outcome
      BY DEF EmptyPool, NothingPending, NoOutcome, Outcome, Kind
    <3>2. calls' \in 0 .. MaxCalls
      BY <1>1, <1>t, CallsAssumption DEF Discover, PaccTypeOK
    <3>3. QED BY <1>1, <1>t, <2>1, <3>1, <3>2 DEF Discover, PaccTypeOK
  <2>3. OwnHost'
    BY <1>t, <1>k, <2>1 DEF OwnHost, NothingPending
  <2>4. ResolverInStep' /\ Named' /\ Untroubled'
    BY <1>1, <1>t, <1>k, <2>1
       DEF Discover, ResolverInStep, Named, Untroubled, NothingPending, EmptyPool
  <2>5. Served' /\ VouchedFor' /\ PublishedIsFound'
    BY <2>1 DEF Served, VouchedFor, PublishedIsFound, NoOutcome
  <2>6. QED BY <2>2, <2>3, <2>4, <2>5 DEF PaccInv, StreamsInv
<1>2. CASE RejectUrl
  <2>1. domain \in BadUrl /\ ~Idle /\ Fail("url") /\ UNCHANGED <<netVars, histVars>>
    BY <1>2 DEF RejectUrl
  <2>2. ~late => pending[Resolver] = <<>>
    BY <1>t, <2>1 DEF ResolverInStep, Named
  <2>3. ~Consistent(domain)
    BY <2>1 DEF Consistent
  <2>4. OwnHost'
    BY <1>t, <2>1 DEF OwnHost
  <2>5. QED BY <1>t, <1>p, <2>1, <2>2, <2>3, <2>4, Failed DEF Kind, Untroubled
<1>3. CASE RejectQuery
  <2>1. domain \in BadName /\ ~Idle /\ ~reading /\ Fail("dns") /\ UNCHANGED <<netVars, histVars>>
    BY <1>3 DEF RejectQuery
  <2>2. ~late => pending[Resolver] = <<>>
    BY <1>t, <2>1 DEF ResolverInStep
  <2>3. ~Consistent(domain)
    BY <2>1 DEF Consistent
  <2>4. OwnHost'
    BY <1>t, <2>1 DEF OwnHost
  <2>5. QED BY <1>t, <1>p, <2>1, <2>2, <2>3, <2>4, Failed DEF Kind, Untroubled
<1>b. Broken \in Kind \ {"none", "ok"}
  BY DEF Broken, Kind
<1>4. CASE OpenFails
  <2>1. ~Idle /\ ~reading /\ Fail(Broken) /\ trouble' = TRUE /\ UNCHANGED <<netVars, late>>
    BY <1>4 DEF OpenFails, MayAsk
  <2>2. ~late => pending[Resolver] = <<>>
    BY <1>t, <2>1 DEF ResolverInStep
  <2>3. OwnHost'
    BY <1>t, <2>1 DEF OwnHost
  <2>4. QED BY <1>b, <1>p, <2>1, <2>2, <2>3, Failed
<1>5. CASE Ask
  <2>1. /\ ~Idle /\ ~reading /\ domain \notin (IF state = "Get" THEN BadUrl ELSE BadName)
        /\ pool' = [pool EXCEPT ![Peer] = Pooled(Peer)] /\ reading' = TRUE
        /\ pending' = IF Pooled(Peer) = "open"
                      THEN [pending EXCEPT ![Peer] = Append(@, domain)] ELSE pending
        /\ UNCHANGED <<driver, domain, state, body, outcome, histVars, calls>>
    BY <1>5 DEF Ask, MayAsk
  <2>2. Peer \in Key /\ domain \in Domain
    BY <1>t, <2>1, PeerIsKey
  <2>3. Append(pending[Peer], domain) \in Seq(Domain) /\ pending[Peer] \in Seq(Domain)
    BY <1>p, <2>2
  <2>4. Pooled(Peer) \in {"open", "closed"} /\ (pool[Peer] # "closed" => Pooled(Peer) # "closed")
    BY <1>p, <2>2 DEF Pooled
  <2>5. pool' \in [Key -> {"absent", "open", "closed"}] /\ pending' \in [Key -> Seq(Domain)]
    BY <1>p, <2>1, <2>3, <2>4
  <2>6. PaccTypeOK'
    BY <1>t, <2>1, <2>5 DEF PaccTypeOK
  <2>7. OwnHost'
    <3> SUFFICES ASSUME NEW d \in Domain, NEW i \in 1 .. Len(pending'[d])
                 PROVE  pending'[d][i] = d
      BY DEF OwnHost
    <3>1. CASE pending'[d] = pending[d]
      BY <1>t, <3>1 DEF OwnHost
    <3>2. CASE pending'[d] # pending[d]
      <4>1. Peer = d /\ pending'[d] = Append(pending[d], domain)
        BY <1>k, <1>p, <2>1, <2>2, <3>2
      <4>2. domain = d
        BY <1>k, <4>1 DEF Peer
      <4>3. pending[d] \in Seq(Domain) /\ \A j \in 1 .. Len(pending[d]) : pending[d][j] = d
        BY <1>t, <1>k, <1>p DEF OwnHost
      <4>4. QED BY <4>1, <4>2, <4>3
    <3>3. QED BY <3>1, <3>2
  <2>8. ResolverInStep'
    <3> SUFFICES ASSUME ~late
                 PROVE  \/ pending'[Resolver] = <<>>
                        \/ pending'[Resolver] = <<domain>> /\ ~Idle /\ state = "Verify"
      BY <2>1 DEF ResolverInStep, Idle
    <3>1. pending[Resolver] = <<>>
      BY <1>t, <2>1 DEF ResolverInStep
    <3>2. CASE state = "Get"
      <4>1. Peer # Resolver
        BY <1>k, <2>2, <3>2 DEF Peer
      <4>2. QED BY <1>k, <1>p, <2>1, <2>2, <3>1, <4>1
    <3>3. CASE state = "Verify"
      <4>1. Peer = Resolver
        BY <3>3 DEF Peer
      <4>2. Append(<<>>, domain) = <<domain>>
        OBVIOUS
      <4>3. pending'[Resolver] \in {pending[Resolver], Append(pending[Resolver], domain)}
        BY <1>k, <1>p, <2>1, <4>1
      <4>4. QED BY <2>1, <3>1, <3>3, <4>2, <4>3
    <3>4. QED BY <1>t, <3>2, <3>3 DEF PaccTypeOK
  <2>9. Named'
    BY <1>t, <2>1 DEF Named, Idle, PaccTypeOK
  <2>10. Served'
    BY <1>t, <2>1 DEF Served, Idle
  <2>11. Untroubled'
    BY <1>t, <1>p, <2>1, <2>2, <2>4 DEF Untroubled
  <2>12. VouchedFor' /\ PublishedIsFound'
    BY <2>1 DEF PaccInv, VouchedFor, PublishedIsFound, Idle, Consistent
  <2>13. QED BY <2>6, <2>7, <2>8, <2>9, <2>10, <2>11, <2>12 DEF PaccInv, StreamsInv
<1>6. CASE WriteFails
  <2>1. /\ ~Idle /\ ~reading /\ Fail(Broken) /\ trouble' = TRUE /\ late' = late
        /\ pool' \in {[pool EXCEPT ![Peer] = c] : c \in {Pooled(Peer), "closed"}}
        /\ pending' = IF pool'[Peer] = "open" THEN pending ELSE [pending EXCEPT ![Peer] = <<>>]
    BY <1>6 DEF WriteFails, MayAsk
  <2>2. Peer \in Key
    BY <1>t, <2>1, PeerIsKey
  <2>3. Pooled(Peer) \in {"absent", "open", "closed"}
    BY <1>p, <2>2 DEF Pooled
  <2>4. pool' \in [Key -> {"absent", "open", "closed"}]
    BY <1>p, <2>1, <2>2, <2>3
  <2>5. /\ pending' \in [Key -> Seq(Domain)]
        /\ \A k \in Key : pending'[k] \in {pending[k], <<>>}
    BY <1>p, <2>1, <2>2
  <2>6. OwnHost'
    BY <1>t, <1>k, <2>5 DEF OwnHost
  <2>7. ~late => pending'[Resolver] = <<>>
    BY <1>t, <1>k, <2>1, <2>5 DEF ResolverInStep
  <2>8. QED BY <1>b, <1>p, <2>1, <2>4, <2>5, <2>6, <2>7, Failed
<1>7. CASE ReadDocument
  <2>1. /\ state = "Get" /\ ~Idle /\ reading /\ Peer = domain /\ UNCHANGED <<pool, histVars>>
        /\ domain \in Domain
    BY <1>7, <1>t, PeerIsKey DEF ReadDocument, Read
  <2>2. PICK n \in 1 .. Len(pending[domain]) : Take(domain, n)
    BY <1>7 DEF ReadDocument, Read
  <2>3. /\ pending' \in [Key -> Seq(Domain)] /\ OwnHost' /\ Head(pending[domain]) = domain
        /\ pending'[Resolver] = pending[Resolver]
    <3>1. /\ pending' \in [Key -> Seq(Domain)] /\ OwnHost'
          /\ Head(pending[domain]) = pending[domain][1]
          /\ \A j \in Key : j # domain => pending'[j] = pending[j]
      BY <1>t, <1>k, <2>1, <2>2, TakenTail
    <3>2. 1 \in 1 .. Len(pending[domain])
      <4>1. Len(pending[domain]) \in Nat
        BY <1>p, <1>k, <2>1
      <4>2. QED BY <2>2, <4>1
    <3>3. QED BY <1>t, <1>k, <2>1, <3>1, <3>2 DEF OwnHost
  <2>4. ~late => pending[Resolver] = <<>>
    BY <1>t, <2>1 DEF ResolverInStep
  <2>5. PICK r \in Site[domain] :
          \/ /\ r.kind = "success"
             /\ body' = KeptBody(r.body) /\ state' = "Verify" /\ reading' = FALSE
             /\ UNCHANGED <<driver, domain, outcome, calls>>
          \/ /\ r.kind # "success"
             /\ Fail("http")
    BY <1>7, <2>3 DEF ReadDocument
  <2>6. r \in Response
    BY <2>1, ServerAssumption
  <2>7. CASE r.kind = "success"
    <3>1. /\ body' = r.body /\ state' = "Verify" /\ reading' = FALSE /\ r.body \in Body
          /\ UNCHANGED <<driver, domain, outcome, calls>>
      BY <2>5, <2>6, <2>7 DEF KeptBody, Response
    <3>2. r = [kind |-> "success", body |-> r.body]
      BY <2>6, <2>7 DEF Response
    <3>3. PaccTypeOK'
      BY <1>t, <2>1, <2>3, <3>1 DEF PaccTypeOK
    <3>4. ResolverInStep' /\ Untroubled'
      BY <1>t, <2>1, <2>3, <2>4, <3>1 DEF ResolverInStep, Untroubled
    <3>5. Named'
      BY <1>t, <2>1, <3>1 DEF Named, Idle
    <3>6. Served'
      BY <3>1, <3>2 DEF Served
    <3>7. VouchedFor' /\ PublishedIsFound'
      BY <2>1, <3>1 DEF PaccInv, VouchedFor, PublishedIsFound, Idle, Consistent
    <3>8. QED BY <2>3, <3>3, <3>4, <3>5, <3>6, <3>7 DEF PaccInv, StreamsInv
  <2>8. CASE r.kind # "success"
    <3>1. Fail("http") /\ ~Consistent(domain)
      BY <2>5, <2>8 DEF Consistent
    <3>2. QED BY <1>t, <1>p, <2>1, <2>3, <2>4, <3>1, Failed DEF Kind, Untroubled
  <2>9. QED BY <2>7, <2>8
<1>8. CASE ReadRecords
  <2>1. /\ state = "Verify" /\ ~Idle /\ reading /\ UNCHANGED <<pool, histVars>>
        /\ domain \in Domain /\ body \in Body
    BY <1>8, <1>t, PeerIsKey DEF ReadRecords, Read, PaccTypeOK, Idle
  <2>2. PICK n \in 1 .. Len(pending[Resolver]) : Take(Resolver, n)
    BY <1>8 DEF ReadRecords, Read
  <2>3. pending' \in [Key -> Seq(Domain)] /\ OwnHost'
    BY <1>t, <1>k, <2>2, TakenTail
  <2>4. ~late => Head(pending[Resolver]) = domain /\ pending'[Resolver] = <<>>
    BY <2>1, <2>2, ResolverAnswersNow
  <2>5. PICK records \in Zone[Head(pending[Resolver])] :
          \/ Verified(records) /\ body \in Json /\ Return("ok", body)
          \/ Verified(records) /\ body \notin Json /\ Fail("json")
          \/ ~Verified(records) /\ Fail("no_record")
    BY <1>8 DEF ReadRecords
  <2>6. [kind |-> "success", body |-> body] \in Site[domain]
    BY <1>t, <2>1 DEF Served
  <2>7. CASE Verified(records) /\ body \in Json
    <3>1. /\ outcome' = [kind |-> "ok", domain |-> domain, document |-> body]
          /\ domain' = NoDomain /\ Idle'
          /\ UNCHANGED <<driver, state, reading, body, calls>>
      BY <2>5, <2>7 DEF Return, Fail, Idle
    <3>2. PaccTypeOK'
      BY <1>t, <2>1, <2>3, <3>1 DEF PaccTypeOK, Outcome, Kind
    <3>3. ResolverInStep' /\ Named' /\ Served' /\ Untroubled'
      BY <1>t, <2>1, <2>4, <3>1 DEF ResolverInStep, Named, Served, Untroubled
    <3>4. VouchedFor'
      BY <2>1, <2>4, <2>6, <2>7, <3>1 DEF VouchedFor, Verified
    <3>5. PublishedIsFound'
      BY <3>1 DEF PublishedIsFound
    <3>6. QED BY <2>3, <3>2, <3>3, <3>4, <3>5 DEF PaccInv, StreamsInv
  <2>8. CASE ~(Verified(records) /\ body \in Json)
    <3>1. PICK kind \in {"json", "no_record"} : Fail(kind)
      BY <2>5, <2>8
    <3>2. ASSUME ~trouble PROVE ~Consistent(domain)
      <4>1. records \in Zone[domain]
        BY <1>t, <2>4, <2>5, <3>2 DEF Untroubled
      <4>2. SUFFICES ASSUME Consistent(domain) PROVE FALSE
        OBVIOUS
      <4>3. body \in Json /\ \E i \in DOMAIN records : Vouches(records[i], body)
        BY <2>6, <4>1, <4>2 DEF Consistent
      <4>4. QED BY <2>8, <4>3 DEF Verified
    <3>3. kind \in Kind \ {"none", "ok"}
      BY <3>1 DEF Kind
    <3>4. ~trouble' => ~late' /\ (\A k \in Key : pool'[k] # "closed") /\ ~Consistent(domain)
      BY <1>t, <2>1, <3>2 DEF Untroubled
    <3>5. QED BY <1>p, <2>1, <2>3, <2>4, <3>1, <3>3, <3>4, Failed
  <2>9. QED BY <2>7, <2>8
<1>9. CASE ReadGarbage
  <2>1. /\ ~Idle /\ Fail("dns") /\ trouble' = TRUE /\ UNCHANGED <<pool, late>>
        /\ \E n \in 1 .. Len(pending[Resolver]) : Take(Resolver, n)
    BY <1>9 DEF ReadGarbage, Read
  <2>2. pending' \in [Key -> Seq(Domain)] /\ OwnHost'
    BY <1>t, <1>k, <2>1, TakenTail
  <2>3. ~late => pending'[Resolver] = <<>>
    BY <2>1, ResolverAnswersNow
  <2>4. QED BY <1>p, <2>1, <2>2, <2>3, Failed DEF Kind
<1>10. CASE ReadEnd
  <2>1. /\ ~Idle /\ reading /\ pool[Peer] = "closed" /\ pending[Peer] = <<>>
        /\ UNCHANGED <<netVars, histVars>>
        /\ Fail(IF state = "Get" THEN "http" ELSE "dns")
    BY <1>10 DEF ReadEnd
  <2>2. Peer \in Key
    BY <1>t, <2>1, PeerIsKey
  <2>3. trouble
    BY <1>t, <1>p, <2>1, <2>2 DEF Untroubled
  <2>4. ~late => pending[Resolver] = <<>>
    BY <1>t, <2>1 DEF ResolverInStep, Peer
  <2>5. OwnHost'
    BY <1>t, <2>1 DEF OwnHost
  <2>6. (IF state = "Get" THEN "http" ELSE "dns") \in Kind \ {"none", "ok"}
    BY DEF Kind
  <2>7. QED BY <1>p, <2>1, <2>3, <2>4, <2>5, <2>6, Failed
<1>11. CASE ReadFails
  <2>1. /\ ~Idle /\ reading /\ Fail(Broken) /\ UNCHANGED netVars
        /\ late' = (late \/ Peer = Resolver) /\ trouble' = TRUE
    BY <1>11 DEF ReadFails
  <2>2. ~late' => pending[Resolver] = <<>>
    BY <1>t, <2>1 DEF ResolverInStep, Peer
  <2>3. OwnHost'
    BY <1>t, <2>1 DEF OwnHost
  <2>4. late' \in BOOLEAN
    BY <1>p, <2>1
  <2>5. QED BY <1>b, <1>p, <2>1, <2>2, <2>3, <2>4, Failed
<1>12. ASSUME NEW k \in Key, Close(k)
       PROVE  PaccInv'
  <2>1. /\ pool' = [pool EXCEPT ![k] = "closed"]
        /\ pending' \in {pending, [pending EXCEPT ![k] = <<>>]}
        /\ trouble' = TRUE
        /\ UNCHANGED <<driver, domain, state, reading, body, outcome, late, calls>>
    BY <1>12 DEF Close
  <2>2. pool' \in [Key -> {"absent", "open", "closed"}] /\ pending' \in [Key -> Seq(Domain)]
        /\ \A j \in Key : pending'[j] = pending[j] \/ pending'[j] = <<>>
    <3>1. pool' \in [Key -> {"absent", "open", "closed"}]
      BY <1>p, <2>1
    <3>2. CASE pending' = pending
      BY <1>p, <3>1, <3>2
    <3>3. CASE pending' = [pending EXCEPT ![k] = <<>>]
      <4>1. <<>> \in Seq(Domain)
        OBVIOUS
      <4>2. QED BY <1>p, <3>1, <3>3, <4>1
    <3>4. QED BY <2>1, <3>2, <3>3
  <2>3. PaccTypeOK'
    BY <1>t, <2>1, <2>2 DEF PaccTypeOK
  <2>4. OwnHost'
    BY <1>t, <1>k, <2>2 DEF OwnHost
  <2>5. ResolverInStep'
    BY <1>t, <1>k, <2>1, <2>2 DEF ResolverInStep, Idle
  <2>6. Named' /\ Served' /\ Untroubled'
    BY <1>t, <2>1 DEF Named, Served, Untroubled, Idle
  <2>7. VouchedFor' /\ PublishedIsFound'
    BY <2>1 DEF PaccInv, VouchedFor, PublishedIsFound
  <2>8. QED BY <2>3, <2>4, <2>5, <2>6, <2>7 DEF PaccInv, StreamsInv
<1>13. CASE NoMoreCalls \/ UNCHANGED vars
  <2>1. UNCHANGED vars
    BY <1>13 DEF NoMoreCalls
  <2>2. PaccTypeOK'
    BY <1>t, <2>1 DEF vars, PaccTypeOK
  <2>3. StreamsInv' /\ Served' /\ Untroubled'
    BY <1>t, <2>1
       DEF vars, StreamsInv, OwnHost, ResolverInStep, Named, Served, Untroubled, Idle
  <2>4. VouchedFor' /\ PublishedIsFound'
    BY <2>1 DEF vars, PaccInv, VouchedFor, PublishedIsFound, Idle, Consistent
  <2>5. QED BY <2>2, <2>3, <2>4 DEF PaccInv
<1>14. QED
  BY <1>1, <1>2, <1>3, <1>4, <1>5, <1>6, <1>7, <1>8, <1>9, <1>10, <1>11, <1>12, <1>13 DEF Next

LEMMA PaccInvariant == Spec => []PaccInv
<1>1. QED BY PaccInit, PaccStep, PTL DEF Spec

-----------------------------------------------------------------------------
(* Type correctness: a digest is looked up only for a body that was        *)
(* fetched.                                                                *)
THEOREM PaccTypeCorrect == Spec => []PaccTypeOK
<1>1. PaccInv => PaccTypeOK
  BY DEF PaccInv
<1>2. QED BY <1>1, PaccInvariant, PTL

(* A document is returned only if its own host serves it and, while no read*)
(* from the resolver failed, only if its own zone vouches for it.          *)
THEOREM DocumentsAreVouched == Spec => []VouchedFor
<1>1. PaccInv => VouchedFor
  BY DEF PaccInv
<1>2. QED BY <1>1, PaccInvariant, PTL

(* A domain that publishes consistently is found, but for trouble on the   *)
(* way.                                                                    *)
THEOREM ConsistentAreFound == Spec => []PublishedIsFound
<1>1. PaccInv => PublishedIsFound
  BY DEF PaccInv
<1>2. QED BY <1>1, PaccInvariant, PTL
=============================================================================
