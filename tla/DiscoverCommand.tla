--------------------------- MODULE DiscoverCommand ---------------------------
(***************************************************************************)
(* One discovery command (cli/domain.rs, cli/misc.rs) and the methods of   *)
(* DiscoveryComposeClientStd it calls one after the other (`provider`,     *)
(* `autoconfig`, `pacc`, `srv`, `dav`, `jmap`, `auth`, `oauth_server`,     *)
(* `oauth_resource`), down to their exchanges, each of which may fail on   *)
(* its own: a failure costs the command what that exchange would bring.    *)
(*                                                                         *)
(* The PACC, SRV, DAV, JMAP and authentication lookups are one step each   *)
(* (Pacc, SrvClient, DavResolve and RedirectWalk have what is inside);     *)
(* each runs on a pool of its own, so no step leaves a stream to the next. *)
(***************************************************************************)
EXTENDS Conversions

CONSTANTS
  Worlds,   \* what may be published for the input
  Url,      \* where mailconf records point
  Metadata  \* OAuth metadata documents

Location == {"isp_main", "isp_fallback", "ispdb"}

(* A mailconf record is the URL it has, or other text.                     *)
World == [mx         : Seq(Mx),
          autoconfig : [Location \cup Url -> SUBSET Autoconfig],
          mailconf   : Seq(Url \cup {NoText}),
          pacc       : SUBSET PaccConfig,
          srv        : SrvReport,
          dav        : [{"caldav", "carddav"} -> SUBSET Text],
          jmap       : SUBSET Session,
          schemes    : Seq(Scheme),
          metadata   : [{"oauth", "openid", "resource"} -> SUBSET Metadata]]

ASSUME WorldAssumption ==
  /\ Worlds \subseteq World /\ NoText \notin Url
  /\ \A w \in Worlds :
       /\ Lone(w.pacc) /\ Lone(w.jmap)
       /\ \A u \in Location \cup Url : Lone(w.autoconfig[u]) /\ \A d \in w.autoconfig[u] :
            /\ Lone(d.oauth2) /\ "password" \notin d.oauth2
            /\ \A s \in Range(Servers(d)) : Lone(s.port) /\ Lone(s.socketType)
       /\ \A s \in {"caldav", "carddav"} : Lone(w.dav[s])
       /\ \A m \in {"oauth", "openid", "resource"} : Lone(w.metadata[m])

-----------------------------------------------------------------------------
EMAIL == {"imap", "pop3", "smtp", "jmap", "managesieve"}
CALENDAR == {"caldav", "jmap"}
CONTACT == {"carddav", "jmap"}
FILE == {"webdav"}

EmailCommand ==
  {"email"} \X {"first", "google", "microsoft", "autoconfig", "srv", "pacc", "jmap"}
FileCommand == {"file"} \X {"first", "pacc"}
CalendarCommand == {"calendar"} \X {"first", "dav", "pacc", "jmap"}
ContactCommand == {"contact"} \X {"first", "dav", "pacc", "jmap"}
AuthCommand == {"auth"} \X {"http", "server", "resource"}

Command == EmailCommand \cup FileCommand \cup CalendarCommand \cup ContactCommand \cup AuthCommand

Request == [command : Command, input : Input, world : Worlds]

FirstEmail == <<"provider", "autoconfig", "pacc", "srv", "jmap">>
FirstDav == <<"dav", "pacc", "jmap">>

(* What a command calls, in order, until something is left.                *)
Chain(r) ==
  LET c == r.command
  IN  CASE c = <<"email", "first">> -> FirstEmail
        [] c \in {<<"calendar", "first">>, <<"contact", "first">>} -> FirstDav
        [] c = <<"file", "first">> -> <<"pacc">>
        [] c = <<"auth", "server">> -> <<"oauth", "openid">>
        [] OTHER -> <<c[2]>>

Services(domain) ==
  CASE domain = "email" -> EMAIL
    [] domain = "calendar" -> CALENDAR
    [] domain = "contact" -> CONTACT
    [] domain = "file" -> FILE

Only(list, services) == KeepAt(list, {k \in DOMAIN list : list[k].service \in services})

Asked(list, r) ==
  IF r.command[1] = "auth" THEN list ELSE Only(list, Services(r.command[1]))

DavService(r) == IF r.command[1] = "calendar" THEN "caldav" ELSE "carddav"

DomainOf(r) == Parts[r.input].domain

-----------------------------------------------------------------------------
VARIABLES
  request,  \* the command line, and what is published
  turn,     \* how many mechanisms are done with
  step,     \* the exchange the running one is at
  found,    \* the configurations it has
  answer,   \* what the last one left
  done

vars == <<request, turn, step, found, answer, done>>

Step == {"start", "mx", "isp_main", "isp_fallback", "ispdb", "mailconf", "document", "end"}

Init ==
  /\ request \in Request
  /\ turn = 0 /\ step = "start" /\ found = <<>> /\ answer = <<>> /\ done = FALSE

(* Mutant: no is_empty before the next mechanism.                          *)
EndedAtLast == turn = Len(Chain(request))

Ended == answer # <<>> \/ turn = Len(Chain(request))

(* The mechanism called next, or running.                                  *)
Mechanism == Chain(request)[turn + 1]

Calls(m) == ~done /\ step = "start" /\ ~Ended /\ Mechanism = m

Goto(next) == step' = next /\ UNCHANGED <<request, turn, found, answer, done>>

(* An exchange is over: what it brings is appended.                        *)
Bring(list, next) ==
  /\ found' = found \o list /\ step' = next
  /\ UNCHANGED <<request, turn, answer, done>>

-----------------------------------------------------------------------------
(* `provider`, `is_google`, `is_microsoft`: which providers count.         *)
Wanted(m, providers) == IF m = "provider" THEN providers ELSE providers \cap {m}

ProviderLists(m, providers, r) ==
  {ProviderConfigs(p, r.input) : p \in Wanted(m, providers)}

(* The configurations of a provider that counts, else none.                *)
ProviderReport(m, providers, r) ==
  IF Wanted(m, providers) = {} THEN {<<>>} ELSE ProviderLists(m, providers, r)

(* detect_provider: the domain rule, then the MX records.                  *)
MatchDomain ==
  /\ \E m \in {"provider", "google", "microsoft"} : Calls(m)
  /\ LET matched == FromDomain(DomainOf(request))
     IN  \/ /\ matched # {}
            /\ \E list \in ProviderReport(Mechanism, matched, request) : Bring(list, "end")
         \/ /\ matched = {}
            /\ Goto("mx")

LookupMx ==
  /\ ~done /\ step = "mx"
  /\ \/ \E list \in ProviderReport(Mechanism, ProviderFromMx(request.world.mx), request) :
          Bring(list, "end")
     \/ Bring(<<>>, "end")

(* run_isp: the document at a URL, if it is there, is UTF-8 and parses.    *)
Documents(r, url, source) ==
  {FromAutoconfig(d, r.input, source) : d \in r.world.autoconfig[url]}

StartAutoconfig == Calls("autoconfig") /\ Goto("isp_main")

NextLocation(s) ==
  CASE s = "isp_main" -> "isp_fallback" [] s = "isp_fallback" -> "ispdb" [] s = "ispdb" -> "mailconf"

FetchIsp ==
  /\ ~done /\ step \in Location
  /\ \E list \in Documents(request, step, step) \cup {<<>>} : Bring(list, NextLocation(step))

(* DiscoveryMailconf: the first record that has a URL.                     *)
MailconfUrl(records) ==
  LET urls == KeepAt(records, {k \in DOMAIN records : records[k] # NoText})
  IN  IF urls = <<>> THEN {} ELSE {urls[1]}

LookupMailconf ==
  /\ ~done /\ step = "mailconf"
  /\ \/ MailconfUrl(request.world.mailconf) # {} /\ Goto("document")
     \/ Bring(<<>>, "end")

Redirected(r) == UNION {Documents(r, url, "mailconf") : url \in MailconfUrl(r.world.mailconf)}

FetchMailconf ==
  /\ ~done /\ step = "document"
  /\ \E list \in Redirected(request) \cup {<<>>} : Bring(list, "end")

-----------------------------------------------------------------------------
(* What a mechanism that is one lookup may find.                           *)
Lookup(m, r) ==
  CASE m = "pacc" -> {FromPacc(d) : d \in r.world.pacc}
    [] m = "srv" -> {FromSrv(r.world.srv)}
    [] m = "dav" -> {FromDav(DavService(r), u) : u \in r.world.dav[DavService(r)]}
    [] m = "jmap" -> {FromJmap(s) : s \in r.world.jmap}
    [] m = "http" -> {r.world.schemes}
    [] m \in {"oauth", "openid", "resource"} -> {<<d>> : d \in r.world.metadata[m]}

(* The lookup, which may find nothing, or fail.                            *)
Run(m) == Calls(m) /\ \E list \in Lookup(m, request) \cup {<<>>} : Bring(list, "end")

RunPacc == Run("pacc")
RunSrv == Run("srv")
RunDav == Run("dav")
RunJmap == Run("jmap")
ProbeAuth == Run("http")

(* One metadata location: a 2xx answer that parses, no redirect.           *)
FetchServer == Run("oauth") \/ Run("openid")
FetchResource == Run("resource")

(* Mutant: what was found is left for the next one to add to.              *)
MoveOnKeeping == turn' = turn + 1 /\ step' = "start" /\ UNCHANGED found

(* Every mechanism starts with an empty list.                              *)
MoveOn == turn' = turn + 1 /\ step' = "start" /\ found' = <<>>

(* The method returns, and `only` drops what is of other services.         *)
EndMechanism ==
  /\ ~done /\ step = "end"
  /\ answer' = Asked(found, request)
  /\ MoveOn
  /\ UNCHANGED <<request, done>>

(* The command prints its answer.                                          *)
Output ==
  /\ ~done /\ step = "start" /\ Ended
  /\ done' = TRUE
  /\ UNCHANGED <<request, turn, step, found, answer>>

Next ==
  \/ MatchDomain \/ LookupMx
  \/ StartAutoconfig \/ FetchIsp \/ LookupMailconf \/ FetchMailconf
  \/ RunPacc \/ RunSrv \/ RunDav \/ RunJmap
  \/ ProbeAuth \/ FetchServer \/ FetchResource
  \/ EndMechanism \/ Output

Spec == Init /\ [][Next]_vars
-----------------------------------------------------------------------------
(* The types, and which step belongs to which mechanism; nothing is found  *)
(* between two of them, and no answer is overwritten by a running one.     *)
CommandTypeOK ==
  /\ request \in Request /\ turn \in 0 .. Len(Chain(request))
  /\ step \in Step /\ done \in BOOLEAN
  /\ step = "start" => found = <<>>
  /\ step # "start" => ~done /\ ~Ended
  /\ step = "mx" => Mechanism \in {"provider", "google", "microsoft"}
  /\ step \in Location \cup {"mailconf", "document"} => Mechanism = "autoconfig"
  /\ done => Ended

(* The lists a mechanism may yield, whatever fails inside.                 *)
Yields(m, r) ==
  CASE m \in {"provider", "google", "microsoft"} ->
         LET byDomain == FromDomain(DomainOf(r))
             found1 == IF byDomain # {} THEN ProviderReport(m, byDomain, r)
                       ELSE ProviderReport(m, ProviderFromMx(r.world.mx), r) \cup {<<>>}
         IN  {<<>> \o list : list \in found1}
    [] m = "autoconfig" ->
         {<<>> \o l[1] \o l[2] \o l[3] \o l[4] :
            l \in (Documents(r, "isp_main", "isp_main") \cup {<<>>})
                 \X (Documents(r, "isp_fallback", "isp_fallback") \cup {<<>>})
                 \X (Documents(r, "ispdb", "ispdb") \cup {<<>>})
                 \X (Redirected(r) \cup {<<>>})}
    [] OTHER -> {<<>> \o list : list \in Lookup(m, r) \cup {<<>>}}

Promise == INSTANCE FirstHit WITH Requests <- Request

(* The doc of first_email (domain.rs:207-209): the answer is that of the   *)
(* first mechanism, in order, to leave anything asked for, whole and       *)
(* alone, and nothing runs past it; the failure of an exchange makes its   *)
(* own mechanism yield less, and no other.                                 *)
ImplementsFirstHit == Promise!Spec

-----------------------------------------------------------------------------
(* "Looks up `domain`'s MX records and returns the first fixed provider     *)
(* (Google Workspace, Microsoft 365) they match" (compose/client.rs:515),  *)
(* of the records sorted (mx.rs:186).  Stated without the sort: no record  *)
(* points to the other provider at a lower preference, or at the same one  *)
(* with a name that comes earlier.                                         *)
ProviderOfBestMx ==
  LET mx == request.world.mx
      At(p) == {k \in DOMAIN mx : FromMx(mx[k].exchange) = {p}}
      Best(k, j) == /\ mx[k].preference <= mx[j].preference
                    /\ mx[k].preference = mx[j].preference =>
                         NameOrder[mx[k].exchange] <= NameOrder[mx[j].exchange]
      Other(p) == IF p = "google" THEN "microsoft" ELSE "google"
  IN  (request.command[1] = "email" /\ FromDomain(DomainOf(request)) = {}) =>
        \A i \in DOMAIN answer :
          answer[i].source \in {"google", "microsoft"} =>
            \E k \in At(answer[i].source) : \A j \in At(Other(answer[i].source)) : Best(k, j)

(* The documents a source may have, for mailconf at the first URL there is.*)
DocumentsOf(s) ==
  IF s \in Location THEN request.world.autoconfig[s]
  ELSE UNION {request.world.autoconfig[request.world.mailconf[i]] :
                i \in {j \in DOMAIN request.world.mailconf :
                         /\ request.world.mailconf[j] # NoText
                         /\ \A k \in 1 .. j - 1 : request.world.mailconf[k] = NoText}}

(* A list has one entry for each named server of a document, in its order, *)
(* with the methods the document lets one use, none of them twice.         *)
Matches(list, document) ==
  LET servers == document.incoming \o document.outgoing
      Named(n) == Cardinality({i \in 1 .. n : servers[i].hostname # NoText})
  IN  /\ Len(list) = Named(Len(servers))
      /\ \A i \in DOMAIN servers :
           servers[i].hostname # NoText =>
             LET c == list[Named(i)]
                 types == Range(servers[i].authentication)
             IN  /\ c.service = servers[i].type
                 /\ c.endpoint.at = Substitute(servers[i].hostname, request.input)
                 /\ servers[i].port \subseteq {c.endpoint.port}
                 /\ "password" \in Range(c.auth)
                      <=> types \cap {"password-cleartext", "password-encrypted"} # {}
                 /\ Range(c.auth) \ {"password"}
                      = IF "OAuth2" \in types THEN document.oauth2 ELSE {}
                 /\ IsInjective(c.auth)

(* What an answer has of an autoconfig location is its whole document or   *)
(* nothing (config.rs:115-118, client.rs:167-173), and the locations keep  *)
(* their order, whichever of them fail.                                    *)
WholeDocuments ==
  LET From(s) == KeepAt(answer, {k \in DOMAIN answer : answer[k].source = s})
      sources == Location \cup {"mailconf"}
  IN  request.command[1] = "email" =>
        /\ \A s \in sources : From(s) = <<>> \/ \E d \in DocumentsOf(s) : Matches(From(s), d)
        /\ (\E i \in DOMAIN answer : answer[i].source \in sources) =>
             answer = From("isp_main") \o From("isp_fallback") \o From("ispdb") \o From("mailconf")
=============================================================================
