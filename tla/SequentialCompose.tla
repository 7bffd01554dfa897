------------------------- MODULE SequentialCompose -------------------------
(***************************************************************************)
(* What a compose promises, with no thread in sight: the mechanisms run    *)
(* one after the other in priority order, each is collected before the     *)
(* next one runs, and compose_first does not even run those after the      *)
(* first that yields something.  One pass then refines every configuration *)
(* and one replaces every issuer.                                          *)
(***************************************************************************)
EXTENDS Collector

CONSTANTS
  Turns,                \* how many mechanisms there are
  OutcomesAt(_, _, _),  \* what the one of a turn may find, given a request
  Provider,             \* providers with fixed configurations
  NoProvider,
  OnlyAsked(_, _),      \* the filter of a raw compose
  RefineAuth(_, _),     \* a configuration, given the schemes it advertises
  SchemeLists,
  IssuersOf(_),         \* the issuers of a report
  Resolved(_, _),       \* a report, given the grants of its issuers
  GrantLists

VARIABLES
  email,      \* the argument: "address", or "malformed" (no @)
  mode,       \* the entry point: compose_all, compose_first, compose_raw
  provider,   \* the provider the domain rule matches
  phase,
  turn,       \* how many mechanisms are done with
  report      \* the configurations to return

promiseVars == <<collectorVars, email, mode, provider, phase, turn, report>>

Init ==
  /\ CollectorInit
  /\ email \in {"address", "malformed"}
  /\ mode \in {"all", "first", "raw"}
  /\ provider = NoProvider
  /\ phase = "start"
  /\ turn = 0
  /\ report = <<>>

Reject ==
  /\ phase = "start" /\ email = "malformed"
  /\ phase' = "failed"
  /\ UNCHANGED <<collectorVars, email, mode, provider, turn, report>>

Accept ==
  /\ phase = "start" /\ email = "address"
  /\ provider' \in Provider \cup {NoProvider}
  /\ phase' = "run"
  /\ UNCHANGED <<collectorVars, email, mode, turn, report>>

Stopped == turn = Turns \/ (mode = "first" /\ configs # <<>>)

RunNext ==
  /\ phase = "run" /\ mode # "raw" /\ Idle /\ ~Stopped
  /\ \E found \in OutcomesAt(turn + 1, services, provider) : Collect(found)
  /\ turn' = turn + 1
  /\ UNCHANGED <<email, mode, provider, phase, report>>

Absorb ==
  /\ phase = "run" /\ Loop
  /\ UNCHANGED <<email, mode, provider, phase, turn, report>>

RunNextRaw ==
  /\ phase = "run" /\ mode = "raw" /\ turn < Turns
  /\ \E found \in OutcomesAt(turn + 1, services, provider) :
       report' = report \o OnlyAsked(found, services)
  /\ turn' = turn + 1
  /\ UNCHANGED <<collectorVars, email, mode, provider, phase>>

Finish ==
  /\ phase = "run" /\ mode # "raw" /\ Idle /\ Stopped
  /\ report' = configs
  /\ phase' = "probe"
  /\ UNCHANGED <<collectorVars, email, mode, provider, turn>>

FinishRaw ==
  /\ phase = "run" /\ mode = "raw" /\ turn = Turns
  /\ phase' = "issuers"
  /\ UNCHANGED <<collectorVars, email, mode, provider, turn, report>>

Probe ==
  /\ phase = "probe"
  /\ \E learned \in [DOMAIN report -> SchemeLists \cup {<<>>}] :
       report' = [i \in DOMAIN report |-> RefineAuth(report[i], learned[i])]
  /\ phase' = "issuers"
  /\ UNCHANGED <<collectorVars, email, mode, provider, turn>>

Resolve ==
  /\ phase = "issuers"
  /\ \E grants \in [IssuersOf(report) -> GrantLists \cup {<<i>> : i \in Issuer}] :
       /\ \A i \in IssuersOf(report) : grants[i] \in GrantLists \cup {<<i>>}
       /\ report' = Resolved(report, grants)
  /\ phase' = "done"
  /\ UNCHANGED <<collectorVars, email, mode, provider, turn>>

Next ==
  \/ Reject \/ Accept
  \/ RunNext \/ Absorb \/ Finish
  \/ RunNextRaw \/ FinishRaw
  \/ Probe \/ Resolve

Spec == Init /\ [][Next]_promiseVars
=============================================================================
