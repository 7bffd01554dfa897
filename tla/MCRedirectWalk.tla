--------------------------- MODULE MCRedirectWalk ---------------------------
(* Three origins and chains as long as MAX_HOPS and one longer, within one *)
(* origin and across them, a loop, and each terminal answer.               *)
EXTENDS RedirectWalk

MCUrl == {"a0", "a1", "a2", "b0", "b1", "b2", "c0"}

MCOriginOf == [u \in MCUrl |->
  IF u \in {"a0", "a1", "a2"} THEN "a" ELSE IF u = "c0" THEN "c" ELSE "b"]

MCWellKnown == [o \in Origin |-> CASE o = "a" -> "a0" [] o = "b" -> "b0" [] OTHER -> "c0"]

To(url) == [next |-> url, status |-> "3xx", schemes |-> "none"]
Final(status, schemes) == [next |-> "none", status |-> status, schemes |-> schemes]

(* The redirects along a chain, and an answer at its end.                  *)
Along(chain, answer) ==
  [u \in MCUrl |->
     IF \E i \in 1 .. Len(chain) - 1 : chain[i] = u
     THEN To(chain[CHOOSE j \in 2 .. Len(chain) : chain[j - 1] = u])
     ELSE answer]

Case(srv, answer) == [srv |-> srv, answer |-> answer]

Long == <<"a0", "b0", "a1", "b1", "a2", "b2">>

MCWorlds ==
  << Case("none", Along(Long, Final("401", "bearer"))),
     Case("a", Along(Long \o <<"c0">>, Final("2xx", "none"))),
     Case("b", Along(<<"b0", "b1">>, Final("401", "basic"))),
     Case("c", Along(<<"c0", "a0", "b0", "a0">>, Final("2xx", "none"))),
     Case("none", Along(<<"a0", "c0">>, Final("other", "basic"))),
     Case("none", Along(<<"a0", "b0">>, Final("2xx", "basic"))),
     Case("bad", Along(<<"a0", "a1", "b0">>, Final("3xx", "none"))) >>
=============================================================================
