----------------------------- MODULE Mechanisms -----------------------------
(***************************************************************************)
(* What DiscoveryComposeClientStd (src/compose/client.rs) knows about its  *)
(* mechanisms: their priority, which of them a request starts, and the two *)
(* passes that rewrite the methods of what they found.                     *)
(***************************************************************************)
EXTENDS ServiceConfig, Lists

CONSTANTS
  Finds,            \* [Mechanism -> SUBSET Batch]: non-empty finds of each
  Provider,         \* providers with fixed configurations
  NoProvider,
  ProviderConfigs,  \* [Provider -> Batch]
  SchemeLists,      \* non-empty lists of schemes a 401 may advertise
  GrantLists        \* non-empty grants an issuer's metadata may name

Priority == << "provider", "mx", "pacc", "isp_main", "isp_fallback",
               "mailconf", "ispdb", "srv", "caldav", "carddav", "jmap" >>

Mechanism == { "provider", "mx", "pacc", "isp_main", "isp_fallback",
               "mailconf", "ispdb", "srv", "caldav", "carddav", "jmap" }

ASSUME MechanismAssumption ==
  /\ <<>> \in Batch
  /\ Finds \in [Mechanism -> SUBSET Batch]
  /\ ProviderConfigs \in [Provider -> Batch]
  /\ NoProvider \notin Provider

(* The services of what a mechanism finds.                                 *)
Offered ==
  [m \in Mechanism |->
     CASE m \in {"isp_main", "isp_fallback", "mailconf", "ispdb"} -> {"imap", "pop3", "smtp"}
       [] m = "srv" -> {"imap", "smtp"}
       [] m \in {"caldav", "carddav", "jmap"} -> {m}
       [] OTHER -> Service]

ASSUME OfferedAssumption ==
  \A m \in Mechanism : \A found \in Finds[m] : \A c \in Range(found) :
    c.service \in Offered[m]

(* An issuer resolves to grants, never to an issuer.                       *)
ASSUME MethodsAssumption ==
  /\ SchemeLists \subseteq Seq(STRING) \ {<<>>}
  /\ GrantLists \subseteq Seq(AuthMethod \ Issuer) \ {<<>>}

-----------------------------------------------------------------------------
Asked(requested, s) == requested = {} \/ s \in requested

(* Mutant: POP3 alone does not start the autoconfig locations.             *)
RelevantWithoutPop3(m, requested, provider) ==
  CASE m = "provider" -> provider # NoProvider
    [] m = "mx" -> provider = NoProvider
    [] m = "pacc" -> TRUE
    [] m \in {"isp_main", "isp_fallback", "mailconf", "ispdb", "srv"} ->
         \E s \in {"imap", "smtp"} : Asked(requested, s)
    [] OTHER -> Asked(requested, m)

(* Whether the request has the mechanism contribute an output.             *)
Relevant(m, requested, provider) ==
  CASE m = "provider" -> provider # NoProvider
    [] m = "mx" -> provider = NoProvider
    [] m = "pacc" -> TRUE
    [] m \in {"isp_main", "isp_fallback", "mailconf", "ispdb"} ->
         \E s \in {"imap", "pop3", "smtp"} : Asked(requested, s)
    [] m = "srv" -> \E s \in {"imap", "smtp"} : Asked(requested, s)
    [] OTHER -> Asked(requested, m)

(* What a mechanism may contribute: what it found, nothing when it failed  *)
(* or its thread panicked; the provider rule is pure and always succeeds.  *)
Outcomes(m, requested, provider) ==
  IF ~Relevant(m, requested, provider) THEN {<<>>}
  ELSE IF m = "provider" THEN {ProviderConfigs[provider]}
  ELSE Finds[m] \cup {<<>>}

(* What may come at each turn of the priority order.                       *)
OutcomesAt(k, requested, provider) == Outcomes(Priority[k], requested, provider)

(* The filter of compose_raw.                                              *)
OnlyAsked(list, requested) ==
  KeepAt(list, {k \in DOMAIN list : Asked(requested, list[k].service)})

-----------------------------------------------------------------------------
(* The URLs the probe of a configuration tries: none for a TCP endpoint,   *)
(* the endpoint, and for DAV the well-known path next.  A host that makes  *)
(* no URL is none here: neither is probed.                                 *)
ProbeUrls(c) ==
  IF Host[c.endpoint] = <<>> THEN 0
  ELSE IF c.service \in {"caldav", "carddav"} THEN 2
  ELSE 1

SchemeMethods ==
  [s \in {"basic", "bearer"} |-> IF s = "basic" THEN Password ELSE Bearer]

IsProbed(m) == m \in {Password, Bearer}

(* The known schemes, as methods, in the order advertised.                 *)
AdvertisedMethods(schemes) ==
  LET known == KeepAt(schemes, {k \in DOMAIN schemes : schemes[k] \in DOMAIN SchemeMethods})
  IN  [k \in DOMAIN known |-> SchemeMethods[known[k]]]

(* Mutant: the advertised methods replace all the methods there were.      *)
RefineReplacing(c, schemes) ==
  IF AdvertisedMethods(schemes) = <<>> THEN c
  ELSE [c EXCEPT !.auth = AdvertisedMethods(schemes)]

(* The methods a refinement leaves: each other method, where first listed. *)
Untouched(auth) ==
  KeepAt(auth, {k \in DOMAIN auth : ~IsProbed(auth[k]) /\ \A j \in 1 .. k - 1 : auth[j] # auth[k]})

(* The advertised methods replace the password and bearer ones, the others *)
(* follow; no known scheme leaves the configuration as it is.              *)
RefineAuth(c, schemes) ==
  LET advertised == AdvertisedMethods(schemes)
  IN  IF advertised = <<>> THEN c
      ELSE [c EXCEPT !.auth = advertised \o Untouched(@)]

(* Mutant: only the preferred method of a configuration is looked at.      *)
PreferredIssuers(list) ==
  {list[i].auth[1] : i \in {j \in DOMAIN list : list[j].auth # <<>>}} \cap Issuer

IssuersOf(list) ==
  UNION {Range(list[i].auth) \cap Issuer : i \in DOMAIN list}

(* Each resolved issuer gives way, in place, to the grants it resolved to. *)
ReplaceIssuers(c, grants) ==
  [c EXCEPT !.auth =
     FlattenSeq([k \in DOMAIN @ |->
                   IF @[k] \in DOMAIN grants THEN grants[@[k]] ELSE <<@[k]>>])]

Resolved(list, grants) == [i \in DOMAIN list |-> ReplaceIssuers(list[i], grants)]
=============================================================================
