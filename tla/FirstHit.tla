------------------------------ MODULE FirstHit ------------------------------
(***************************************************************************)
(* What a discovery command promises, with no exchange in sight: its       *)
(* mechanisms are tried in order, each yields something of what it may     *)
(* yield, what was not asked for is dropped, and the first to leave        *)
(* anything is the answer; those behind it are not tried.                  *)
(***************************************************************************)
EXTENDS Integers, Sequences

CONSTANTS
  Requests,      \* what may be asked: a command, its input, what is published
  Chain(_),      \* the mechanisms of a request, in order
  Yields(_, _),  \* the lists a mechanism may yield for a request
  Asked(_, _)    \* the part of a list a request asks for

VARIABLES request, turn, answer, done

promiseVars == <<request, turn, answer, done>>

Init == request \in Requests /\ turn = 0 /\ answer = <<>> /\ done = FALSE

Stopped == answer # <<>> \/ turn = Len(Chain(request))

TryNext ==
  /\ ~done /\ ~Stopped
  /\ \E list \in Yields(Chain(request)[turn + 1], request) : answer' = Asked(list, request)
  /\ turn' = turn + 1
  /\ UNCHANGED <<request, done>>

Return == ~done /\ Stopped /\ done' = TRUE /\ UNCHANGED <<request, turn, answer>>

Next == TryNext \/ Return

Spec == Init /\ [][Next]_promiseVars
=============================================================================
