---------------------------- MODULE MCDavResolve ----------------------------
(* Zones that publish both records, the plain one, none, one without a     *)
(* URL, with the TXT values and the redirects that tell them apart.        *)
EXTENDS DavResolve

Record(host, port) == <<[host |-> host, port |-> port]>>

Zone(caldav, caldavs, carddav, carddavs) ==
  [n \in Names |->
     CASE n = "caldav" -> caldav [] n = "caldavs" -> caldavs
       [] n = "carddav" -> carddav [] n = "carddavs" -> carddavs]

Root(scheme, host, port, path) ==
  [origin |-> [scheme |-> scheme, host |-> host, port |-> port], path |-> path]

Moved == Root("https", "h2", 443, "/dav")

Value(kind, path) == [kind |-> kind, root |-> [Moved EXCEPT !.path = path]]

None == Value("none", "/")

NoTxt == [n \in Names |-> <<>>]

(* The redirects go from h1 and the domain, for one service only.          *)
MCRedirect ==
  [s \in Services |-> [o \in Origins |->
     IF s = "Carddav" /\ o.host # "h2" THEN <<Moved>> ELSE <<>>]]

Case(zone, txt) == [srv |-> zone, txt |-> txt, redirect |-> MCRedirect]

Both == Zone(Record("h1", 80), Record("h1", 443), Record("h2", 80), Record("h1", 443))
OnlyPlain == Zone(Record("h1", 80), <<>>, Record("h2", 80), <<>>)
Bare == Zone(<<>>, <<>>, <<>>, <<>>)
Broken == Zone(<<>>, Record("h!", 443), <<>>, <<>>)

MCWorlds ==
  << Case(Both, NoTxt), Case(Bare, NoTxt), Case(Broken, NoTxt),
    Case(Both, [NoTxt EXCEPT !["caldavs"] = <<None, Value("path", "/dav"), Value("path", "/")>>,
                             !["carddav"] = <<Value("path", "/dav")>>,
                             !["carddavs"] = <<None>>]),
    Case(OnlyPlain, [NoTxt EXCEPT !["caldav"] = <<Value("url", "/dav")>>,
                                  !["carddavs"] = <<Value("path", "/dav")>>,
                                  !["carddav"] = <<Value("bad", "/")>>]) >>
=============================================================================
