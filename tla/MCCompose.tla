----------------------------- MODULE MCCompose -----------------------------
(***************************************************************************)
(* Small instances of Compose.  Five of the mechanisms may find something, *)
(* the others find nothing or fail, which is all that tells them apart;    *)
(* "google" stands for the fixed providers.  PACC and CalDAV disagree      *)
(* about the host of the calendars: d1.x is a shard of x.                  *)
(***************************************************************************)
EXTENDS Compose

MCService == {"imap", "pop3", "smtp", "caldav", "carddav", "jmap"}
MCEndpoint == {"x", "x_slash", "d1.x", "g", "api.x", "tcp1", "tcp2", "tcp_g"}
MCNormal == [e \in MCEndpoint |-> IF e = "x_slash" THEN "x" ELSE e]
MCLabel == {"x", "g", "d1", "api"}
MCHost == [e \in MCEndpoint |->
             CASE e \in {"x", "x_slash"} -> <<"x">>
               [] e = "d1.x" -> <<"x", "d1">>
               [] e = "api.x" -> <<"x", "api">>
               [] e = "g" -> <<"g">>
               [] OTHER -> <<>>]
MCUsername == {"none", "me"}
MCAuthMethod == {"password", "bearer", "google_code", "code", "device", "issuer"}
MCIssuer == {"issuer"}
MCSource == {"provider", "autoconfig", "pacc", "dav", "jmap"}

Found(s, e, u, a, src) ==
  [service |-> s, endpoint |-> e, username |-> u, auth |-> a, source |-> src]

Google == << Found("imap", "tcp_g", "me", <<"google_code", "password">>, "provider"),
             Found("caldav", "g", "me", <<"google_code">>, "provider") >>

Pacc == << Found("imap", "tcp1", "none", <<"issuer", "password">>, "pacc"),
           Found("jmap", "api.x", "none", <<"issuer", "password">>, "pacc"),
           Found("caldav", "d1.x", "none", <<"issuer", "password">>, "pacc") >>

Isp == << Found("imap", "tcp1", "me", <<"password">>, "autoconfig"),
          Found("pop3", "tcp2", "me", <<"password">>, "autoconfig") >>

Dav == << Found("caldav", "x_slash", "none", <<"password">>, "dav") >>

Jmap == << Found("jmap", "api.x", "none", <<"bearer", "password">>, "jmap") >>

MCFinds ==
  [m \in Mechanism |->
     CASE m = "mx" -> {Google}
       [] m = "pacc" -> {Pacc}
       [] m = "isp_main" -> {Isp}
       [] m = "caldav" -> {Dav}
       [] m = "jmap" -> {Jmap}
       [] OTHER -> {}]

MCBatch == {<<>>, Google, Pacc, Isp, Dav, Jmap}
MCProvider == {"google"}
MCProviderConfigs == [p \in MCProvider |-> Google]

(* An unknown scheme is an answer too: the next URL is not tried.          *)
MCSchemeLists == { <<"basic">>, <<"bearer">>, <<"negotiate">> }
MCGrantLists == { <<"code", "device">> }

MCRequests == { {}, {"caldav"}, {"jmap"}, {"pop3"}, {"imap", "caldav"} }

MCInit == Init /\ services \in MCRequests

MCSpec == MCInit /\ [][Next]_vars /\ Fairness

(* One request for a service no MX rule provides.                          *)
JmapInit == Init /\ services = {"jmap"}

JmapSpec == JmapInit /\ [][Next]_vars
=============================================================================
