-------------------------- MODULE MCDiscoverCommand --------------------------
(* An address at a domain of its own, one of a provider's, a bare domain.  *)
(* What is published: everything; documents at one location or another,    *)
(* with servers that lack a name, a port or a usable method; a PACC        *)
(* document for calendars only; MX records of both providers; nothing.     *)
EXTENDS DiscoverCommand

MCInput == {"ann@x.org", "bob@gmail.com", "x.org"}
MCText == MCInput \cup {"ann", "bob", "gmail.com", "", "%EMAILADDRESS%", "%EMAILLOCALPART%",
                        "%EMAILDOMAIN%", "a.x.org", "b.x.org", "grant", "issuer"}

MCParts ==
  [i \in Input |->
     CASE i = "ann@x.org" -> [local |-> "ann", host |-> "x.org", domain |-> "x.org"]
       [] i = "bob@gmail.com" -> [local |-> "bob", host |-> "gmail.com", domain |-> "gmail.com"]
       [] i = "x.org" -> [local |-> "x.org", host |-> "", domain |-> "x.org"]]

MCNameOrder == [x \in {"aspmx.l.google.com", "x.mail.protection.outlook.com", "mx.x.org"} |->
  CASE x = "aspmx.l.google.com" -> 1 [] x = "mx.x.org" -> 2 [] OTHER -> 3]

MxAt(preference, exchange) == [preference |-> preference, exchange |-> exchange]

Named(type, hostname, port, socket, login, authentication) ==
  [type |-> type, hostname |-> hostname, port |-> port, socketType |-> socket,
   username |-> login, authentication |-> authentication]

Imap == Named("imap", "a.x.org", {}, {}, "%EMAILADDRESS%",
              <<"NTLM", "password-cleartext", "OAuth2", "password-encrypted">>)
Pop3 == Named("pop3", "%EMAILDOMAIN%", {1110}, {"plain"}, "%EMAILLOCALPART%", <<"OAuth2">>)
Smtp == Named("smtp", "b.x.org", {}, {"STARTTLS"}, NoText, <<"password-encrypted">>)
Nameless == Named("imap", NoText, {143}, {"TLS"}, NoText, <<"password-cleartext">>)

Full == [incoming |-> <<Imap, Nameless, Pop3>>, outgoing |-> <<Smtp>>, oauth2 |-> {"grant"}]
Plain == [incoming |-> <<Pop3, Imap>>, outgoing |-> <<Smtp, Smtp>>, oauth2 |-> {}]
Bare == [incoming |-> <<Nameless>>, outgoing |-> <<>>, oauth2 |-> {"grant"}]

Protocols(offered) == [s \in Service |-> IF s \in offered THEN "a.x.org" ELSE NoText]
Pacc(offered) == [protocols |-> Protocols(offered), issuer |-> {"issuer"}, password |-> TRUE]

At(host, port) == [host |-> host, port |-> port]

Nothing ==
  [mx |-> <<>>, autoconfig |-> [u \in Location \cup Url |-> {}], mailconf |-> <<>>, pacc |-> {},
   srv |-> [imap |-> {}, imaps |-> {}, submission |-> {}],
   dav |-> [s \in {"caldav", "carddav"} |-> {}], jmap |-> {}, schemes |-> <<>>,
   metadata |-> [m \in {"oauth", "openid", "resource"} |-> {}]]

Everything ==
  [mx |-> <<MxAt(10, "mx.x.org"), MxAt(20, "x.mail.protection.outlook.com"),
            MxAt(20, "aspmx.l.google.com")>>,
   autoconfig |-> [u \in Location \cup Url |-> {IF u = "ispdb" THEN Plain ELSE Full}],
   mailconf |-> <<NoText, "one", "two">>,
   pacc |-> {Pacc(Service)},
   srv |-> [imap |-> {At("a.x.org", 143)}, imaps |-> {At("b.x.org", 993)},
            submission |-> {At(NoText, 0)}],
   dav |-> [s \in {"caldav", "carddav"} |-> {"a.x.org"}],
   jmap |-> {[url |-> "a.x.org", schemes |-> <<"bearer", "negotiate", "basic">>]},
   schemes |-> <<"negotiate", "basic">>,
   metadata |-> [m \in {"oauth", "openid", "resource"} |-> {m}]]

(* No provider, so that the autoconfig locations are asked.                *)
Isp == [Everything EXCEPT !.mx = <<MxAt(10, "mx.x.org")>>]

(* Nothing usable but at the second of two mailconf URLs, and JMAP.        *)
Second ==
  [Nothing EXCEPT !.autoconfig["isp_main"] = {Bare}, !.autoconfig["two"] = {Plain},
                  !.mailconf = <<"one", "two">>,
                  !.jmap = {[url |-> "b.x.org", schemes |-> <<"negotiate">>]}]

Calendars ==
  [Nothing EXCEPT !.pacc = {Pacc({"caldav"})}, !.srv.submission = {At("b.x.org", 587)},
                  !.metadata["openid"] = {"openid"}]

(* Two providers, the better of which comes last and is last by name.      *)
Hosted ==
  [Nothing EXCEPT !.mx = <<MxAt(20, "aspmx.l.google.com"), MxAt(10, "x.mail.protection.outlook.com")>>]

MCWorlds == {Nothing, Everything, Isp, Second, Calendars, Hosted}
=============================================================================
