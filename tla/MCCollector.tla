---------------------------- MODULE MCCollector ----------------------------
(***************************************************************************)
(* Small instances of Collector.  The endpoints of carddav are x in two    *)
(* spellings, three shards of x (one a shard of another) and an unrelated  *)
(* y; imap has two TCP endpoints.  MaxTaken bounds the configurations fed. *)
(***************************************************************************)
EXTENDS Collector

CONSTANT MaxTaken

MCService == {"carddav", "imap"}
MCEndpoint == {"x", "x_slash", "d1.x", "d2.x", "e.d1.x", "y", "tcp1", "tcp2"}
MCNormal == [e \in MCEndpoint |-> IF e = "x_slash" THEN "x" ELSE e]
MCLabel == {"x", "y", "d1", "d2", "e"}
MCHost == [e \in MCEndpoint |->
             CASE e \in {"x", "x_slash"} -> <<"x">>
               [] e = "d1.x" -> <<"x", "d1">>
               [] e = "d2.x" -> <<"x", "d2">>
               [] e = "e.d1.x" -> <<"x", "d1", "e">>
               [] e = "y" -> <<"y">>
               [] OTHER -> <<>>]
MCUsername == {"none", "me"}
MCAuthMethod == {"password", "bearer", "issuer"}
MCIssuer == {"issuer"}
MCSource == {"autoconfig", "pacc", "srv", "dav"}

Found(s, e, u, a, src) ==
  [service |-> s, endpoint |-> e, username |-> u, auth |-> a, source |-> src]

(* What the mechanisms report: DAV a host with a password, PACC a stable   *)
(* name with its account-level methods, SRV and autoconfig TCP endpoints.  *)
Dav(e) == Found("carddav", e, "none", <<"password">>, "dav")
Pacc(e) == Found("carddav", e, "none", <<"issuer", "password">>, "pacc")
Srv(e) == Found("imap", e, "none", <<"password">>, "srv")
Autoconfig(e) == Found("imap", e, "me", <<"bearer">>, "autoconfig")

MCBatch ==
  {<<Dav(e)>> : e \in {"x_slash", "d1.x", "d2.x", "e.d1.x"}}
    \cup {<<Pacc(e)>> : e \in {"x", "d1.x", "y"}}
    \cup {<<Srv("tcp1")>>, <<Srv("tcp1"), Srv("tcp2")>>, <<Autoconfig("tcp1")>>, <<>>}

(* The consumer feeds while the bound allows, or stops.                    *)
Feed == \E b \in Batch : Len(taken) + Len(b) <= MaxTaken /\ Collect(b)
Finish == Idle /\ UNCHANGED collectorVars

MCNext == Loop \/ Feed \/ Finish

MCInit == CollectorInit /\ services \in {{}, {"carddav"}, {"imap"}}

MCSpec == MCInit /\ [][MCNext]_collectorVars
=============================================================================
