--------------------------- MODULE ServiceConfig ---------------------------
(***************************************************************************)
(* The data every discovery mechanism is reduced to: one configuration     *)
(* per way to reach a service (src/compose/config.rs), and the pure        *)
(* operators on it.                                                        *)
(*                                                                         *)
(* An endpoint is an opaque value.  Only two things are ever asked of it:  *)
(* the form two spellings are compared in, and the host an HTTP endpoint   *)
(* names, here the sequence of its labels with the root first, so that     *)
(* <<"org", "x", "d1">> is the shard d1 of <<"org", "x">>.                 *)
(***************************************************************************)
EXTENDS Integers, Sequences, SequencesExt

CONSTANTS
  Service,      \* the service kinds
  Endpoint,     \* TCP and HTTP endpoints, each as spelled by a mechanism
  Normal,       \* [Endpoint -> Endpoint]: the form equivalent() compares
  Host,         \* [Endpoint -> Seq(labels)]: <<>> when there is no URL host
  Label,        \* host name labels
  Username,     \* advertised logins, "none" included
  AuthMethod,   \* authentication methods
  Password,     \* the password method
  Bearer,       \* the bearer token method
  Issuer,       \* the methods that are a bare OAuth issuer
  Source,       \* the mechanisms a configuration is tagged with
  Batch         \* the lists of configurations a mechanism may report

(* A TCP endpoint is its own normal form and names no URL host.            *)
ASSUME EndpointAssumption ==
  /\ Normal \in [Endpoint -> Endpoint]
  /\ Host \in [Endpoint -> Seq(Label)]
  /\ \A a, b \in Endpoint : Normal[a] = Normal[b] => Host[a] = Host[b]

ASSUME AuthAssumption ==
  /\ {Password, Bearer} \subseteq AuthMethod \ Issuer
  /\ Issuer \subseteq AuthMethod

Config == [service  : Service,
           endpoint : Endpoint,
           username : Username,
           auth     : Seq(AuthMethod),
           source   : Source]

ASSUME BatchAssumption == Batch \subseteq Seq(Config)

-----------------------------------------------------------------------------
(* Two spellings of one endpoint.                                          *)
Equivalent(a, b) == Normal[a] = Normal[b]

(* The host of a is strictly below the host of b.                          *)
SubdomainOf(a, b) == Host[b] # <<>> /\ IsStrictPrefix(Host[b], Host[a])

(* a reaches the service of b: b itself, or a host above the one b names.  *)
Covers(a, b) == Equivalent(a, b) \/ SubdomainOf(b, a)

SameLogin(c, d) == c.service = d.service /\ c.username = d.username

(* The pairs of configurations the collector folds into one.               *)
Mergeable(c, d) ==
  /\ SameLogin(c, d)
  /\ \/ Equivalent(c.endpoint, d.endpoint)
     \/ SubdomainOf(c.endpoint, d.endpoint)
     \/ SubdomainOf(d.endpoint, c.endpoint)
=============================================================================
