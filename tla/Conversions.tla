----------------------------- MODULE Conversions -----------------------------
(***************************************************************************)
(* The documents the mechanisms bring home, and how each is flattened into *)
(* configurations (compose/config.rs, compose/providers.rs).  An optional  *)
(* field is a set of at most one value, or NoText for a text.  Texts are   *)
(* compared only; an OAuth grant is the name of one.                       *)
(***************************************************************************)
EXTENDS Integers, Sequences, SequencesExt, Lists

CONSTANTS
  Text,             \* hosts, logins and URLs, the autoconfig placeholders among them
  NoText,
  Input,            \* what a command is given: an address, or a bare domain
  Parts,            \* [Input -> [local, host, domain]]
  GoogleDomains,    \* the domains of the provider rules
  MicrosoftDomains,
  GoogleExchanges,  \* MX targets below .google.com and .googlemail.com
  MicrosoftExchanges,
  NameOrder         \* [MX targets -> Nat]: the order of names

(* No more than one value.                                                 *)
Lone(option) == \A x, y \in option : x = y

The(option, default) == IF option = {} THEN default ELSE CHOOSE x \in option : TRUE

Service == {"imap", "pop3", "smtp", "managesieve", "jmap", "caldav", "carddav", "webdav"}

(* host is what the input has behind its @, domain the normalized rest; a  *)
(* bare domain has itself for a local part and nothing behind the @.       *)
ASSUME InputAssumption ==
  /\ NoText \notin Text /\ Input \subseteq Text
  /\ Parts \in [Input -> [local : Text, host : Text, domain : Text]]
ASSUME RulesAssumption ==
  /\ GoogleDomains \cap MicrosoftDomains = {}
  /\ GoogleExchanges \cap MicrosoftExchanges = {}

-----------------------------------------------------------------------------
(* <clientConfig>, as far as it is used.                                   *)
Port == 0 .. 65535

Socket == {"TLS", "STARTTLS", "plain"}

Authentication == {"password-cleartext", "password-encrypted", "OAuth2", "NTLM", "GSAPI",
                   "client-IP-address", "TLS-client-cert", "none"}

Server == [type           : {"imap", "pop3", "smtp"},
           hostname       : Text \cup {NoText},
           port           : SUBSET Port,
           socketType     : SUBSET Socket,
           username       : Text \cup {NoText},
           authentication : Seq(Authentication)]

Autoconfig == [incoming : Seq(Server), outgoing : Seq(Server), oauth2 : SUBSET Text]

TcpProtocols == <<"imap", "pop3", "smtp", "managesieve">>
HttpProtocols == <<"jmap", "caldav", "carddav", "webdav">>

PaccConfig == [protocols : [Service -> Text \cup {NoText}],
               issuer    : SUBSET Text,
               password  : BOOLEAN]

SrvRecord == [host : Text \cup {NoText}, port : Port]
SrvReport == [imap : SUBSET SrvRecord, imaps : SUBSET SrvRecord, submission : SUBSET SrvRecord]

Scheme == {"basic", "bearer", "negotiate"}
Session == [url : Text, schemes : Seq(Scheme)]

Mx == [preference : Nat, exchange : DOMAIN NameOrder]

-----------------------------------------------------------------------------
Tcp(host, port, security) == [kind |-> "tcp", at |-> host, port |-> port, security |-> security]
Http(url) == [kind |-> "http", at |-> url, port |-> 0, security |-> "TLS"]

Reach(service, endpoint, username, auth, source) ==
  [service |-> service, endpoint |-> endpoint, username |-> username,
   auth |-> auth, source |-> source]

(* %EMAILADDRESS%, %EMAILLOCALPART% and %EMAILDOMAIN%.                     *)
Substitute(value, input) ==
  CASE value = "%EMAILADDRESS%" -> input
    [] value = "%EMAILLOCALPART%" -> Parts[input].local
    [] value = "%EMAILDOMAIN%" -> Parts[input].host
    [] OTHER -> value

DefaultPort(service, security) ==
  CASE service = "imap" -> IF security = "TLS" THEN 993 ELSE 143
    [] service = "pop3" -> IF security = "TLS" THEN 995 ELSE 110
    [] service = "smtp" -> CASE security = "TLS" -> 465
                             [] security = "STARTTLS" -> 587
                             [] security = "plain" -> 25

(* The method an authentication type stands for: none for most of them,    *)
(* and none for OAuth2 in a document without an <oAuth2> block.            *)
MethodsOf(type, document) ==
  CASE type \in {"password-cleartext", "password-encrypted"} -> {"password"}
    [] type = "OAuth2" -> document.oauth2
    [] OTHER -> {}

(* Mutant: one method for each type, repeated or not.                      *)
EveryType(types, document) == {k \in DOMAIN types : MethodsOf(types[k], document) # {}}

(* The places of the types that stand for a method none before them does.  *)
NewTypes(types, document) ==
  {k \in DOMAIN types :
     /\ MethodsOf(types[k], document) # {}
     /\ \A j \in 1 .. k - 1 : MethodsOf(types[j], document) # MethodsOf(types[k], document)}

ServerMethods(server, document) ==
  LET types == KeepAt(server.authentication, NewTypes(server.authentication, document))
  IN  [k \in DOMAIN types |-> The(MethodsOf(types[k], document), "password")]

Servers(document) == document.incoming \o document.outgoing

FromServer(server, document, input, source) ==
  LET security == The(server.socketType, "TLS")
  IN  Reach(server.type,
            Tcp(Substitute(server.hostname, input),
                The(server.port, DefaultPort(server.type, security)), security),
            IF server.username = NoText THEN NoText ELSE Substitute(server.username, input),
            ServerMethods(server, document),
            source)

FromAutoconfig(document, input, source) ==
  LET servers == Servers(document)
      named == KeepAt(servers, {k \in DOMAIN servers : servers[k].hostname # NoText})
  IN  [k \in DOMAIN named |-> FromServer(named[k], document, input, source)]

PaccPort == [s \in Range(TcpProtocols) |->
  CASE s = "imap" -> 993 [] s = "pop3" -> 995 [] s = "smtp" -> 465 [] s = "managesieve" -> 4190]

FromPacc(document) ==
  LET auth == SetToSeq(document.issuer) \o (IF document.password THEN <<"password">> ELSE <<>>)
      protocols == TcpProtocols \o HttpProtocols
      offered == KeepAt(protocols, {k \in DOMAIN protocols : document.protocols[protocols[k]] # NoText})
      Endpoint(s) == IF s \in Range(TcpProtocols)
                     THEN Tcp(document.protocols[s], PaccPort[s], "TLS")
                     ELSE Http(document.protocols[s])
  IN  [k \in DOMAIN offered |-> Reach(offered[k], Endpoint(offered[k]), NoText, auth, "pacc")]

(* The root target of a service that is not available comes without host.  *)
FromSrv(report) ==
  LET One(record, service, security) ==
        IF record = {} \/ The(record, 0).host = NoText THEN <<>>
        ELSE << Reach(service, Tcp(The(record, 0).host, The(record, 0).port, security),
                      NoText, <<"password">>, "srv") >>
  IN  One(report.imaps, "imap", "TLS") \o One(report.imap, "imap", "STARTTLS")
        \o One(report.submission, "smtp", "STARTTLS")

FromDav(service, url) == << Reach(service, Http(url), NoText, <<"password">>, "dav") >>

(* Both methods are assumed where no known scheme is advertised.           *)
FromJmap(session) ==
  LET schemes == session.schemes
      known == KeepAt(schemes, {k \in DOMAIN schemes : schemes[k] \in {"basic", "bearer"}})
      auth == [k \in DOMAIN known |-> IF known[k] = "basic" THEN "password" ELSE "bearer"]
  IN  << Reach("jmap", Http(session.url), NoText,
               IF auth = <<>> THEN <<"bearer", "password">> ELSE auth, "jmap") >>

-----------------------------------------------------------------------------
(* The provider of a domain, and of an MX target: none or one.             *)
FromDomain(domain) ==
  CASE domain \in GoogleDomains -> {"google"}
    [] domain \in MicrosoftDomains -> {"microsoft"}
    [] OTHER -> {}

FromMx(exchange) ==
  CASE exchange \in GoogleExchanges -> {"google"}
    [] exchange \in MicrosoftExchanges -> {"microsoft"}
    [] OTHER -> {}

(* Mutant: the preference does not count.                                  *)
MxByName(a, b) == NameOrder[a.exchange] < NameOrder[b.exchange]

(* The order the MX records are sorted in.                                 *)
MxBefore(a, b) ==
  \/ a.preference < b.preference
  \/ a.preference = b.preference /\ NameOrder[a.exchange] < NameOrder[b.exchange]

(* The provider of the first of the sorted records that has one.           *)
ProviderFromMx(records) ==
  LET sorted == SortSeq(records, MxBefore)
      hosted == KeepAt(sorted, {k \in DOMAIN sorted : FromMx(sorted[k].exchange) # {}})
  IN  IF hosted = <<>> THEN {} ELSE FromMx(hosted[1].exchange)

(* service, host and security of the mail servers.                         *)
MailServers ==
  [google    |-> << <<"imap", "imap.gmail.com", "TLS">>, <<"pop3", "pop.gmail.com", "TLS">>,
                    <<"smtp", "smtp.gmail.com", "TLS">> >>,
   microsoft |-> << <<"imap", "outlook.office365.com", "TLS">>,
                    <<"pop3", "outlook.office365.com", "TLS">>,
                    <<"smtp", "smtp.office365.com", "STARTTLS">> >>]

GoogleConfigs(input) ==
  LET Mail(s) == Reach(s[1], Tcp(s[2], DefaultPort(s[1], s[3]), s[3]), input,
                       <<"code grant", "password">>, "google")
      Dav(service, url) == Reach(service, Http(url), input, <<"code grant">>, "google")
  IN  [k \in 1 .. 3 |-> Mail(MailServers.google[k])]
        \o << Dav("caldav", "google calendars"), Dav("carddav", "google contacts") >>

MicrosoftConfigs(input) ==
  LET Mail(s) == Reach(s[1], Tcp(s[2], DefaultPort(s[1], s[3]), s[3]), input,
                       <<"code grant", "device grant">>, "microsoft")
  IN  [k \in 1 .. 3 |-> Mail(MailServers.microsoft[k])]

ProviderConfigs(provider, input) ==
  IF provider = "google" THEN GoogleConfigs(input) ELSE MicrosoftConfigs(input)
=============================================================================
