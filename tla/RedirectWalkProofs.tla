------------------------- MODULE RedirectWalkProofs -------------------------
(***************************************************************************)
(* Proofs about RedirectWalk for any URLs, any answers of their servers,   *)
(* loops included, and any MAX_HOPS.                                       *)
(***************************************************************************)
EXTENDS RedirectWalk, SequenceTheorems, TLAPS

(* Between two exchanges the walk has asked as many URLs as it has         *)
(* followed redirects; before the walk nothing was asked.                  *)
Progress ==
  /\ state = "Srv" => coroutine = "jmap" /\ path = <<>> /\ hops = 0 /\ ~noSrv
  /\ state = "Walk" =>
       /\ Len(path) = hops
       /\ path = <<>> => target = start
       /\ coroutine = "jmap" => start = WellKnown[Due]
  /\ state # "Done" => outcome.kind = "none"

WalkInv == WalkTypeOK /\ Progress /\ FollowsRedirects /\ OutcomeIsTerminal

Kinds == {"none", "session", "schemes", "notFound", "url", "http"}
Outcomes == [kind : Kinds, url : Url \cup {"none"}, schemes : Schemes]

LEMMA SiteType ==
  ASSUME WalkTypeOK
  PROVE  Site.srv \in Origin \cup {"none"} /\ Site.answer \in [Url -> Response]
<1>1. Site \in World
  BY WorldsAssumption DEF WalkTypeOK, Site
<1>2. QED BY <1>1 DEF World

LEMMA OutcomeType ==
  ASSUME NEW kind \in Kinds, NEW url \in Url \cup {"none"}, NEW schemes \in Schemes
  PROVE  /\ Outcome(kind, url, schemes) \in Outcomes
         /\ Outcome(kind, url, schemes).kind = kind
         /\ Outcome(kind, url, schemes).url = url
         /\ Outcome(kind, url, schemes).schemes = schemes
BY DEF Outcome, Outcomes

LEMMA WalkInit == Init => WalkInv
<1> SUFFICES ASSUME Init PROVE WalkInv
  OBVIOUS
<1>1. Outcome("none", "none", "none") \in Outcomes /\ Outcome("none", "none", "none").kind = "none"
  BY OutcomeType, UrlAssumption DEF Kinds
<1>2. WellKnown[Domain] \in Url
  BY UrlAssumption
<1>3. path = <<>> /\ path \in Seq(Url) /\ Len(path) = 0 /\ hops = 0 /\ outcome.kind = "none"
      /\ outcome \in Outcomes
  BY <1>1 DEF Init
<1>4. noSrv \in BOOLEAN /\ 0 \in 0 .. MaxHops
  <2>1. 0 \in 0 .. MaxHops
    BY HopsAssumption
  <2>2. QED BY <2>1, Zenon DEF Init
<1>5. WalkTypeOK
  BY <1>2, <1>3, <1>4 DEF Init, WalkTypeOK, Outcomes, Kinds
<1>6. Progress
  BY <1>3 DEF Init, Progress
<1>7. FollowsRedirects
  BY <1>3, HopsAssumption DEF Init, FollowsRedirects
<1>8. OutcomeIsTerminal
  BY <1>3 DEF OutcomeIsTerminal
<1>9. QED BY <1>5, <1>6, <1>7, <1>8 DEF WalkInv

-----------------------------------------------------------------------------
(* The walk starts, or there is no URL to start on.                        *)
LEMMA ProbeStep ==
  ASSUME WalkInv, state = "Srv", NEW o \in Origin, Probe(o),
         UNCHANGED <<inputs, hops, pool, path>>, noSrv' \in BOOLEAN, o = Due'
  PROVE  WalkInv'
<1> USE DEF WalkInv
<1>1. /\ coroutine = "jmap" /\ path' = <<>> /\ hops' = 0 /\ outcome.kind = "none"
      /\ UNCHANGED <<world, coroutine>>
  BY DEF Progress, inputs
<1>2. CASE End(Outcome("url", "none", "none")) /\ UNCHANGED <<target, start>>
  <2>1. outcome' \in Outcomes /\ outcome'.kind = "url" /\ state' = "Done"
    BY <1>2, OutcomeType, UrlAssumption DEF End, Kinds
  <2>2. WalkTypeOK'
    BY <1>1, <1>2, <2>1 DEF WalkTypeOK, Outcomes, Kinds
  <2>3. Progress'
    BY <2>1 DEF Progress
  <2>4. FollowsRedirects'
    BY <1>1, <2>1, HopsAssumption DEF FollowsRedirects
  <2>5. OutcomeIsTerminal'
    BY <2>1 DEF OutcomeIsTerminal
  <2>6. QED BY <2>2, <2>3, <2>4, <2>5
<1>3. CASE state' = "Walk" /\ target' = WellKnown[o] /\ start' = target' /\ UNCHANGED outcome
  <2>1. WellKnown[o] \in Url
    BY UrlAssumption
  <2>2. WalkTypeOK'
    BY <1>1, <1>3, <2>1 DEF WalkTypeOK
  <2>3. Progress'
    BY <1>1, <1>3 DEF Progress
  <2>4. FollowsRedirects'
    BY <1>1, <1>3, HopsAssumption DEF FollowsRedirects
  <2>5. OutcomeIsTerminal'
    BY <1>1, <1>3 DEF OutcomeIsTerminal
  <2>6. QED BY <2>2, <2>3, <2>4, <2>5
<1>4. QED BY <1>2, <1>3 DEF Probe

LEMMA SrvStep ==
  ASSUME WalkInv, SrvAnswer \/ SrvFails
  PROVE  WalkInv'
<1>1. WalkTypeOK /\ state = "Srv" /\ ~noSrv /\ Domain \in Origin
  BY UrlAssumption DEF WalkInv, SrvAnswer, SrvFails, Progress
<1>2. Site.srv \in Origin \cup {"none"}
  BY <1>1, SiteType
<1>3. CASE SrvAnswer
  <2>1. Site' = Site /\ ~noSrv' /\ UNCHANGED <<inputs, hops, pool, path>>
    BY <1>1, <1>3 DEF SrvAnswer, Site, inputs
  <2>2. RecordOrDomain(Site.srv) = Due' /\ RecordOrDomain(Site.srv) \in Origin
    BY <1>1, <1>2, <2>1 DEF RecordOrDomain, Due
  <2>3. noSrv' \in BOOLEAN
    BY <1>3, <1>1 DEF SrvAnswer, WalkTypeOK
  <2>4. QED BY <1>1, <1>3, <2>1, <2>2, <2>3, ProbeStep DEF SrvAnswer
<1>4. CASE SrvFails
  <2>1. RecordOrDomain("none") = Due' /\ RecordOrDomain("none") \in Origin
    BY <1>1, <1>4 DEF RecordOrDomain, Due, SrvFails
  <2>2. UNCHANGED <<inputs, hops, pool, path>> /\ Probe(RecordOrDomain("none"))
    BY <1>4 DEF SrvFails
  <2>3. noSrv' \in BOOLEAN
    BY <1>4, Zenon DEF SrvFails
  <2>4. QED BY <1>1, <2>1, <2>2, <2>3, ProbeStep
<1>5. QED BY <1>3, <1>4

-----------------------------------------------------------------------------
(* What an exchange adds to the URLs asked for.                            *)
LEMMA Exchange ==
  ASSUME WalkInv, Answered \/ Fails
  PROVE  /\ state = "Walk" /\ target \in Url /\ hops \in 0 .. MaxHops
         /\ path' \in Seq(Url) /\ Len(path') = hops + 1
         /\ path' # <<>> /\ path'[Len(path')] = target
         /\ path'[1] = start
         /\ \A i \in 1 .. Len(path') - 1 : path'[i + 1] = NextOf(path'[i])
         /\ coroutine = "jmap" => start = WellKnown[Due]
         /\ UNCHANGED <<world, coroutine, start, noSrv>>
         /\ pool' \in [Origin -> {"absent", "open", "closed"}]
<1> USE DEF WalkInv
<1>1. state = "Walk" /\ UNCHANGED <<world, coroutine, start, noSrv>> /\ path' = Asked
  BY DEF Answered, Fails, inputs
<1>2. target \in Url /\ hops \in 0 .. MaxHops /\ path \in Seq(Url) /\ Len(path) = hops /\ start \in Url
  BY <1>1 DEF WalkTypeOK, Progress
<1>3. path' = Append(path, target)
  BY <1>1, <1>2, HopsAssumption DEF Asked
<1>4. /\ path' \in Seq(Url) /\ Len(path') = Len(path) + 1 /\ path'[Len(path) + 1] = target
      /\ \A i \in 1 .. Len(path) : path'[i] = path[i]
  BY <1>2, <1>3, AppendProperties
<1>5. path'[1] = start
  <2>1. CASE path = <<>>
    BY <1>1, <1>4, <2>1 DEF Progress
  <2>2. CASE path # <<>>
    <3>1. Len(path) >= 1
      BY <1>2, <2>2, EmptySeq
    <3>2. QED BY <1>4, <2>2, <3>1 DEF FollowsRedirects
  <2>3. QED BY <2>1, <2>2
<1>6. ASSUME NEW i \in 1 .. Len(path') - 1 PROVE path'[i + 1] = NextOf(path'[i])
  <2>1. CASE i = Len(path)
    BY <1>1, <1>2, <1>4, <2>1 DEF FollowsRedirects
  <2>2. CASE i # Len(path)
    BY <1>2, <1>4, <2>2 DEF FollowsRedirects
  <2>3. QED BY <2>1, <2>2
<1>7. pool' \in [Origin -> {"absent", "open", "closed"}]
  <2>1. pool \in [Origin -> {"absent", "open", "closed"}] /\ Key \in Origin
    BY <1>2, UrlAssumption DEF WalkTypeOK, Key
  <2>2. QED BY <2>1 DEF Answered, Fails
<1>8. path' # <<>>
  BY <1>2, <1>4
<1>9. QED BY <1>1, <1>2, <1>4, <1>5, <1>6, <1>7, <1>8 DEF Progress

LEMMA AnswerType ==
  ASSUME WalkInv, Answered
  PROVE  Answer \in Response /\ Answer.next = NextOf(target)
<1>1. target \in Url
  BY DEF WalkInv, WalkTypeOK
<1>2. QED BY <1>1, SiteType DEF WalkInv, Answer, NextOf

LEMMA RedirectedStep ==
  ASSUME WalkInv, Redirected
  PROVE  WalkInv'
<1>1. Answered /\ Answer.next # "none" /\ hops < MaxHops /\ target' = Answer.next
      /\ hops' = hops + 1 /\ UNCHANGED <<state, outcome>>
  BY DEF Redirected, MayFollow, NextHop, Location
<1>2. target' \in Url /\ target' = NextOf(target)
  BY <1>1, AnswerType DEF Response
<1>3. state' = "Walk" /\ hops' \in 0 .. MaxHops /\ Len(path') = hops'
  BY <1>1, Exchange, HopsAssumption
<1>4. Site' = Site /\ Due' = Due
  BY <1>1, Exchange DEF Site, Due
<1>5. WalkTypeOK'
  BY <1>1, <1>2, <1>3, Exchange DEF WalkInv, WalkTypeOK
<1>6. Progress'
  BY <1>1, <1>3, <1>4, Exchange DEF WalkInv, Progress
<1>7. FollowsRedirects'
  <2>1. path' # <<>> => path'[1] = start' /\ (coroutine' = "jmap" => start' = (WellKnown[Due])')
    BY <1>1, <1>4, Exchange
  <2>2. \A i \in 1 .. Len(path') - 1 : path'[i + 1] = (NextOf(path[i]))'
    BY <1>1, <1>4, Exchange DEF NextOf
  <2>3. target' = (NextOf(path[Len(path)]))'
    BY <1>1, <1>2, <1>4, Exchange DEF NextOf
  <2>4. Len(path') <= MaxHops + 1
    BY <1>3, HopsAssumption
  <2>5. QED BY <2>1, <2>2, <2>3, <2>4 DEF FollowsRedirects
<1>8. OutcomeIsTerminal'
  BY <1>1, Exchange DEF WalkInv, Progress, OutcomeIsTerminal
<1>9. QED BY <1>5, <1>6, <1>7, <1>8 DEF WalkInv

(* A step that ends the walk leaves what it asked as it should be.         *)
LEMMA EndStep ==
  ASSUME WalkInv, Answered \/ Fails, UNCHANGED <<target, hops>>,
         state' = "Done", outcome' \in Outcomes, OutcomeIsTerminal'
  PROVE  WalkInv'
<1>1. Site' = Site /\ Due' = Due
  BY Exchange DEF Site, Due
<1>2. WalkTypeOK'
  BY Exchange DEF WalkInv, WalkTypeOK, Outcomes, Kinds
<1>3. Progress'
  BY DEF Progress
<1>4. FollowsRedirects'
  BY <1>1, Exchange, HopsAssumption DEF FollowsRedirects, NextOf
<1>5. QED BY <1>2, <1>3, <1>4 DEF WalkInv

LEMMA NothingFoundType ==
  /\ NothingFound \in Outcomes /\ NothingFound.schemes = "none"
  /\ NothingFound.kind = IF coroutine = "jmap" THEN "notFound" ELSE "schemes"
<1>1. "none" \in Url \cup {"none"} /\ "none" \in Schemes /\ "notFound" \in Kinds /\ "schemes" \in Kinds
  BY UrlAssumption DEF Kinds
<1>2. QED BY <1>1, OutcomeType DEF NothingFound

LEMMA GivenUpStep ==
  ASSUME WalkInv, GivenUp
  PROVE  WalkInv'
<1>1. Answered /\ Answer.next # "none" /\ ~(hops < MaxHops) /\ outcome' = NothingFound
      /\ state' = "Done" /\ UNCHANGED <<target, hops>>
  BY DEF GivenUp, MayFollow, End
<1>2. hops = MaxHops /\ Len(path') = MaxHops + 1 /\ Last' = target /\ Site' = Site
  BY <1>1, Exchange, HopsAssumption DEF Last, Site
<1>3. TooLong'
  BY <1>1, <1>2, AnswerType DEF TooLong, NextOf
<1>4. outcome' \in Outcomes /\ outcome'.kind \in {"notFound", "schemes"} /\ outcome'.schemes = "none"
  BY <1>1, NothingFoundType
<1>5. path' # <<>>
  BY <1>1, Exchange
<1>6. OutcomeIsTerminal'
  BY <1>3, <1>4, <1>5 DEF OutcomeIsTerminal
<1>7. QED BY <1>1, <1>4, <1>6, EndStep

LEMMA EndedStep ==
  ASSUME WalkInv, Ended
  PROVE  WalkInv'
<1>1. Answered /\ Answer.next = "none" /\ state' = "Done" /\ UNCHANGED <<target, hops>>
  BY DEF Ended, End
<1>2. Answer \in Response /\ target \in Url
  BY <1>1, AnswerType, Exchange
<1>3. Last' = target /\ Site' = Site /\ path' # <<>>
  BY <1>1, Exchange DEF Last, Site
<1>4. Ends' /\ Site'.answer[Last'] = Answer
  BY <1>1, <1>3, AnswerType DEF Ends, NextOf, Answer
<1>5. CASE coroutine = "jmap" /\ IsSession(Answer) /\ outcome' = AtTarget
  <2>1. outcome' \in Outcomes /\ outcome'.kind = "session" /\ outcome'.url = target
        /\ outcome'.schemes = Answer.schemes
    BY <1>2, <1>5, OutcomeType DEF AtTarget, Kinds, Response
  <2>2. OutcomeIsTerminal'
    BY <1>3, <1>4, <1>5, <2>1 DEF OutcomeIsTerminal, IsSession
  <2>3. QED BY <1>1, <2>1, <2>2, EndStep
<1>6. CASE coroutine = "jmap" /\ ~IsSession(Answer) /\ outcome' = NothingFound
  <2>1. outcome' \in Outcomes /\ outcome'.kind = "notFound"
    BY <1>6, NothingFoundType
  <2>2. OutcomeIsTerminal'
    BY <1>3, <1>4, <1>6, <2>1 DEF OutcomeIsTerminal, IsSession
  <2>3. QED BY <1>1, <2>1, <2>2, EndStep
<1>7. CASE outcome' = Outcome("schemes", "none", Answer.schemes)
  <2>1. outcome' \in Outcomes /\ outcome'.kind = "schemes" /\ outcome'.schemes = Answer.schemes
    BY <1>2, <1>7, OutcomeType DEF Kinds, Response
  <2>2. OutcomeIsTerminal'
    BY <1>3, <1>4, <2>1 DEF OutcomeIsTerminal
  <2>3. QED BY <1>1, <2>1, <2>2, EndStep
<1>8. QED BY <1>5, <1>6, <1>7 DEF Ended, End

LEMMA FailsStep ==
  ASSUME WalkInv, Fails
  PROVE  WalkInv'
<1>1. state' = "Done" /\ UNCHANGED <<target, hops>> /\ outcome' = Outcome("http", "none", "none")
  BY DEF Fails, End
<1>2. outcome' \in Outcomes /\ outcome'.kind = "http"
  BY <1>1, OutcomeType, UrlAssumption DEF Kinds
<1>3. OutcomeIsTerminal'
  BY <1>2 DEF OutcomeIsTerminal
<1>4. QED BY <1>1, <1>2, <1>3, EndStep

LEMMA QuietStep ==
  ASSUME WalkInv, UNCHANGED <<inputs, state, target, hops, outcome, start, noSrv, path>>,
         pool' \in [Origin -> {"absent", "open", "closed"}]
  PROVE  WalkInv'
<1>1. Site' = Site /\ Due' = Due
  BY DEF inputs, Site, Due
<1>2. QED
  BY <1>1 DEF WalkInv, WalkTypeOK, Progress, FollowsRedirects, OutcomeIsTerminal, Last, Ends,
              TooLong, NextOf, inputs

LEMMA WalkNext == WalkInv /\ [Next]_vars => WalkInv'
<1> SUFFICES ASSUME WalkInv, [Next]_vars PROVE WalkInv'
  OBVIOUS
<1>1. pool \in [Origin -> {"absent", "open", "closed"}]
  BY DEF WalkInv, WalkTypeOK
<1>2. CASE \E o \in Origin : Close(o)
  BY <1>1, <1>2, QuietStep DEF Close
<1>3. CASE UNCHANGED vars
  BY <1>1, <1>3, QuietStep DEF vars
<1>4. CASE Step
  BY <1>4, SrvStep, RedirectedStep, GivenUpStep, EndedStep, FailsStep DEF Step
<1>5. QED BY <1>2, <1>3, <1>4 DEF Next, Returned

LEMMA WalkInvariant == Spec => []WalkInv
BY WalkInit, WalkNext, PTL DEF Spec

-----------------------------------------------------------------------------
(* The variables of a walk keep their types: hops never passes MAX_HOPS.   *)
THEOREM WalkTypeCorrect == Spec => []WalkTypeOK
<1>1. WalkInv => WalkTypeOK
  BY DEF WalkInv
<1>2. QED BY <1>1, WalkInvariant, PTL

(* Whatever the servers redirect to, the walk follows them one after the   *)
(* other from the right start, and asks at most MAX_HOPS + 1 of them.      *)
THEOREM WalkFollowsRedirects == Spec => []FollowsRedirects
<1>1. WalkInv => FollowsRedirects
  BY DEF WalkInv
<1>2. QED BY <1>1, WalkInvariant, PTL

(* What a walk returns is what the last server asked has answered, or that *)
(* the chain was too long (well_known.rs:6, rfc9110.rs:41).                *)
THEOREM WalkEndsOnTerminal == Spec => []OutcomeIsTerminal
<1>1. WalkInv => OutcomeIsTerminal
  BY DEF WalkInv
<1>2. QED BY <1>1, WalkInvariant, PTL
=============================================================================
