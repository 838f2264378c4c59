--------------------------- MODULE InventoryEgress ---------------------------
(***************************************************************************)
(* Where discovery may send a credential.  A provider's API host is part   *)
(* of the code: a configuration that names one is refused, and so is every *)
(* URL, built here or sent back as a continuation, that leaves it.         *)
(*                                                                         *)
(* url:    [form: absolute, relative or garbled; https; host: the exact    *)
(*          host (own), another one under the provider's suffix (sibling), *)
(*          or neither (other); port: default or other; user: it embeds    *)
(*          userinfo; path: that of a listing, of the API, or another]     *)
(* config: [endpoint: a key of TENANT_ENDPOINT_KEYS is set; extra: an      *)
(*          EXTRA_*_HOST key is; urlId: an identifier is a URL; hostId: an *)
(*          identifier is a host name; baseUrl: a url, or NoUrl; valid:    *)
(*          the schema accepts the rest]                                   *)
(***************************************************************************)
EXTENDS Naturals, Sequences

ApiUrl == [form |-> "absolute", https |-> TRUE, host |-> "own", port |-> "default",
           user |-> FALSE, path |-> "listing"]
NoUrl == [ApiUrl EXCEPT !.form = "none"]

\* canonicalizeAzureUrl, and the same checks in every other provider's module.
To(hosts, url) ==
    url.form = "absolute" /\ url.https /\ url.host \in hosts /\ url.port = "default" /\ ~url.user

AwsUrl(url) == To({"own", "sibling"}, url)
EcrUrl(url) == AwsUrl(url) /\ url.host = "own"
EksUrl(url) == AwsUrl(url) /\ url.host = "own"
GcpUrl(url) == To({"own", "sibling"}, url)
GcrUrl(url) == GcpUrl(url) /\ url.host = "own"
GkeUrl(url) == GcpUrl(url) /\ url.host = "own"
AzureArmUrl(url) == To({"own"}, url)
GithubUrl(url) == To({"own"}, url)
DockerhubUrl(url) == To({"own"}, url) /\ url.path = "listing"
BitbucketUrl(url) == To({"own"}, url) /\ url.path = "listing"
QuayUrl(url) == To({"own"}, url) /\ url.path \in {"listing", "api"}
GitLabUrl(url) == To({"own"}, url) /\ url.path \in {"listing", "api"}
CrtShUrl(url) == To({"own"}, url)

\* ACR: host is that of the registry ARM named; a continuation may be relative.
AcrUrl(url) == To({"own"}, url)
AcrNextUrl(url) == url.form = "relative" \/ AcrUrl(url)

\* Mutant: any registry will do, whatever its name.
LoginServerBySuffix(url) ==
    (url.form = "relative" /\ url.host \in {"own", "sibling"}) \/ To({"own", "sibling"}, url)

\* assertAcrLoginServer: {name}.azurecr.io for the name ARM gave, with or
\* without https://.
LoginServer(url) == (url.form = "relative" /\ url.host = "own") \/ To({"own"}, url)

\* pinAcrLoginServer: some registry's host, whichever.
PinLoginServer(url) == url.host \in {"own", "sibling"}

-----------------------------------------------------------------------------
(***************************************************************************)
(* Redirects.  fetch follows one unless it is told not to (error), and     *)
(* what was sent goes along, but for an Authorization header that would    *)
(* leave the origin (strip).  A secret in the body that a 307 resends, or  *)
(* in a header of another name, goes along wherever that is (keep).        *)
(* moved: where a request was sent on to, or NoUrl; of several redirects   *)
(* the first.                                                              *)
(***************************************************************************)
AtHome(url) == url.form \in {"absolute", "relative"} /\ url.https /\ url.host = "own"
                 /\ url.port = "default" /\ ~url.user
Followed(redirect, moved) ==
    moved = NoUrl \/ (redirect # "error" /\ moved.form \in {"absolute", "relative"} /\ ~moved.user)
SentOn(redirect, moved) ==
    {u \in {moved} \ {NoUrl} : Followed(redirect, u) /\ (redirect = "keep" \/ AtHome(u))}

-----------------------------------------------------------------------------
\* refuseTenantWritableEndpoint, then the schema of the configuration.
AwsConfig(c) == ~c.endpoint /\ ~c.urlId /\ c.valid
AzureConfig(c) == ~c.endpoint /\ ~c.urlId /\ c.valid
GcpConfig(c) == ~c.endpoint /\ ~c.urlId /\ c.valid
EcrConfig(c) == ~c.endpoint /\ ~c.urlId /\ c.valid
GhcrConfig(c) == ~c.endpoint /\ ~c.urlId /\ c.valid
AcrConfig(c) == ~c.extra /\ ~c.endpoint /\ ~c.urlId /\ c.valid
GcrConfig(c) == ~c.extra /\ ~c.endpoint /\ ~c.urlId /\ c.valid
QuayConfig(c) == ~c.extra /\ ~c.endpoint /\ ~c.urlId /\ c.valid
BitbucketConfig(c) == ~c.extra /\ ~c.endpoint /\ ~c.urlId /\ ~c.hostId /\ c.valid
DockerhubConfig(c) == ~c.extra /\ ~c.endpoint /\ ~c.urlId /\ ~c.hostId /\ c.valid
KubernetesConfig(c) == ~c.extra /\ ~c.endpoint /\ ~c.urlId /\ c.valid
DnsConfig(c) == ~c.extra /\ ~c.endpoint /\ ~c.urlId /\ c.valid

\* GitLab is the one provider a tenant may host: baseUrl names it.
GitLabConfig(c) == ~c.endpoint /\ c.valid
GitLabOrigin(c) ==
    IF c.baseUrl = NoUrl THEN "gitlab.com"
    ELSE IF To({"own", "sibling", "other"}, c.baseUrl) THEN c.baseUrl.host
    ELSE "refused"

-----------------------------------------------------------------------------
(***************************************************************************)
(* Addresses: <<a, b, c, d>> for IPv4, eight groups for IPv6.              *)
(***************************************************************************)
Public4(ip) ==
    /\ ip[1] \notin {0, 10, 127} \cup 224..255
    /\ ~(ip[1] = 172 /\ ip[2] \in 16..31)
    /\ ~(ip[1] = 100 /\ ip[2] \in 64..127)
    /\ <<ip[1], ip[2]>> \notin {<<192, 168>>, <<169, 254>>}
    /\ <<ip[1], ip[2], ip[3]>> \notin {<<192, 0, 0>>, <<192, 0, 2>>, <<192, 88, 99>>,
                                       <<198, 51, 100>>, <<203, 0, 113>>}

Octets(g, h) == <<g \div 256, g % 256, h \div 256, h % 256>>

Mapped(ip) == (\A g \in 1..5 : ip[g] = 0) /\ ip[6] = 65535    \* ::ffff:a.b.c.d

Public6(ip) ==
    IF Mapped(ip) THEN Public4(Octets(ip[7], ip[8]))
    ELSE /\ ~((\A g \in 1..7 : ip[g] = 0) /\ ip[8] \in {0, 1})
         /\ ip[1] \notin 64512..65023                   \* fc00::/7
         /\ ip[1] \notin 65152..65215                   \* fe80::/10
         /\ ip[1] \notin 65280..65535                   \* ff00::/8
         /\ ~(ip[1] = 8193 /\ ip[2] \in {0, 3512})      \* 2001::/32, 2001:db8::/32

PublicAddress(ip) == IF Len(ip) = 4 THEN Public4(ip) ELSE Public6(ip)
=============================================================================
