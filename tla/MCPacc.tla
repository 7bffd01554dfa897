------------------------------- MODULE MCPacc -------------------------------
(* A domain that serves either of two documents and vouches for both, amid *)
(* records that do not count; one that vouches for another domain's        *)
(* document, for none and for what does not parse, behind a host that      *)
(* redirects or fails; one with no URL, one whose TXT name is refused.     *)
EXTENDS Pacc

MCBody == {"one", "two", "text"}
MCJson == {"one", "two"}
MCValue == MCBody \cup {"UAAC1", "UAAC2", "sha256", "sha512", "not base64"}

Success(b) == [kind |-> "success", body |-> b]
Refusal(kind) == [kind |-> kind, body |-> "text"]

MCSite ==
  [d \in Domain |->
     CASE d = "good.x" -> {Success("one"), Success("two")}
       [] d = "odd.x" -> {Success("two"), Success("text"), Refusal("redirect"), Refusal("status"),
                          Refusal("malformed")}
       [] OTHER -> {Success("one")}]

Vouch(b) == << <<"v", "UAAC1">>, <<"a", "sha256">>, <<"d", b>> >>

(* The last digest counts; another version; another algorithm; no digest.  *)
Overridden(b) == << <<"d", "not base64">> >> \o Vouch(b)
NewVersion(b) == Vouch(b) \o << <<"v", "UAAC2">> >>
NewAlgorithm(b) == Vouch(b) \o << <<"a", "sha512">> >>
Stray == << <<"v", "UAAC1">>, <<"a", "sha256">> >>

MCZone ==
  [d \in Domain |->
     CASE d = "good.x" -> { <<Stray, NewVersion("one"), Overridden("one"), Vouch("two")>>,
                            <<Vouch("two"), <<>>, Vouch("one")>> }
       [] d = "odd.x" -> { <<Vouch("one")>>, <<NewVersion("two"), NewAlgorithm("two")>>, <<>>,
                           <<Vouch("text")>> }
       [] OTHER -> { <<Vouch("one")>> }]
=============================================================================
