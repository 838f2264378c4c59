------------------------------- MODULE ImageRef -------------------------------
(***************************************************************************)
(* The container scanner: which image a job means, from which registry it  *)
(* may be pulled, and with which credential.  A job names an image by a    *)
(* digest, in the key or in the attributes of its asset; whatever else is  *)
(* said of it must agree.                                                  *)
(*                                                                         *)
(* target: [key: NoKey, BadKey or [kind, parts, digest], attrs: what is    *)
(*          said of each field, endpoint: a registry key is set]           *)
(* options: [endpoint, place: a region, location or login server, places:  *)
(*          the set of regions]                                            *)
(* A value is Unsaid, "bad" (it is a URL or a host, or breaks the rule of  *)
(* its field), or a good one.                                              *)
(***************************************************************************)
EXTENDS InventoryEgress, FiniteSets

Unsaid == "unsaid"
NoKey == [kind |-> "none"]
BadKey == [kind |-> "bad"]
Digests == {"sha1", "sha2"}

Names == [ghcr |-> {"owner", "package"}, ecr |-> {"accountId", "repository"},
          gcr |-> {"projectId", "location", "repository", "image"},
          acr |-> {"subscriptionId", "resourceGroup", "registry", "repository"},
          dockerhub |-> {"namespace", "repository"}, quay |-> {"namespace", "repository"}]
Refusal == [kind |-> "refused"]
Refer(kind, parts, digest, place) ==
    [kind |-> kind, parts |-> parts, digest |-> digest, place |-> place]

\* refuseTenantWritableRegistry: a key of TENANT_REGISTRY_KEYS is set, or an
\* identifier is a host.
Tenant(fields) == fields.endpoint

\* The identity parts that make up a host or a path.
ValidGcr(parts) == \A f \in Names.gcr : parts[f] # "bad"
ValidAcr(parts) == \A f \in Names.acr : parts[f] # "bad"
ValidDockerhub(parts) == \A f \in Names.dockerhub : parts[f] # "bad"
ValidQuay(parts) == \A f \in Names.quay : parts[f] # "bad"
ValidEcr(parts) == parts.accountId # "bad"
Valid(kind, parts) ==
    CASE kind = "gcr" -> ValidGcr(parts) [] kind = "acr" -> ValidAcr(parts)
      [] kind = "dockerhub" -> ValidDockerhub(parts) [] kind = "quay" -> ValidQuay(parts)
      [] kind = "ecr" -> ValidEcr(parts) [] OTHER -> TRUE

\* Mutant: the key alone decides; what the attributes say is not compared.
NamedByKeyAlone(kind, target, options, place) ==
    LET said == target.attrs IN
    IF Tenant(target) \/ Tenant(options) \/ place = "bad" THEN Refusal
    ELSE IF target.key # NoKey
      THEN IF target.key.kind = kind /\ Valid(kind, target.key.parts)
           THEN Refer(kind, target.key.parts, target.key.digest, place) ELSE Refusal
    ELSE IF /\ \A f \in Names[kind] : said[f] # Unsaid
            /\ Valid(kind, [f \in Names[kind] |-> said[f]]) /\ said.digest \in Digests
      THEN Refer(kind, [f \in Names[kind] |-> said[f]], said.digest, place) ELSE Refusal

\* The shape all six parsers share: the key, which nothing said may contradict;
\* or without a key, all of the fields.
Named(kind, target, options, place) ==
    LET said == target.attrs
        spoken == [f \in Names[kind] |-> IF kind = "gcr" /\ f = "location" THEN place ELSE said[f]]
    IN IF Tenant(target) \/ Tenant(options) \/ place = "bad" THEN Refusal
       ELSE IF target.key # NoKey
         THEN IF /\ target.key.kind = kind /\ Valid(kind, target.key.parts)
                 /\ \A f \in Names[kind] : said[f] \in {Unsaid, target.key.parts[f]}
                 /\ said.digest \in {Unsaid, target.key.digest}
              THEN Refer(kind, target.key.parts, target.key.digest, place) ELSE Refusal
       ELSE IF /\ \A f \in Names[kind] : spoken[f] # Unsaid
               /\ Valid(kind, spoken) /\ said.digest \in Digests
         THEN Refer(kind, spoken, said.digest, place) ELSE Refusal

\* Where: "bad" when the target and the options disagree or name no good place.
resolveEcrRegion(target, options) ==
    IF {target.attrs.region, options.place} = {Unsaid}
      THEN IF Cardinality(options.places) = 1 THEN CHOOSE r \in options.places : TRUE ELSE "bad"
    ELSE IF target.attrs.region = Unsaid THEN options.place
    ELSE IF options.place \in {Unsaid, target.attrs.region} THEN target.attrs.region ELSE "bad"
resolveGcrLocation(target, options) ==
    LET said == {IF target.key.kind = "gcr" THEN target.key.parts.location ELSE Unsaid,
                 target.attrs.location, options.place} \ {Unsaid}
    IN IF Cardinality(said) = 1 THEN CHOOSE l \in said : TRUE ELSE "bad"
\* The login server is that of the registry, or is not said.
pinAcrLoginServer(registry, target, options) ==
    IF {target.attrs.loginServer, options.place} \subseteq {Unsaid, registry} THEN registry ELSE "bad"

parseGhcrImageRef(target, options) == Named("ghcr", target, options, Unsaid)
parseEcrImageRef(target, options) ==
    Named("ecr", target, options, resolveEcrRegion(target, options))
parseGcrImageRef(target, options) ==
    Named("gcr", target, options, resolveGcrLocation(target, options))
parseAcrImageRef(target, options) ==
    Named("acr", target, options,
          pinAcrLoginServer(IF target.key.kind = "acr" THEN target.key.parts.registry
                            ELSE target.attrs.registry, target, options))
parseDockerhubImageRef(target, options) == Named("dockerhub", target, options, Unsaid)
parseQuayImageRef(target, options) == Named("quay", target, options, Unsaid)

\* The kind the key says, or the first whose fields are there.
KindOf(target, options) ==
    LET said(F) == \A f \in F : target.attrs[f] \notin {Unsaid, "bad"}
        unsaid(F) == \A f \in F : target.attrs[f] = Unsaid
        elsewhere == {"accountId", "projectId", "subscriptionId"}
        dig == target.attrs.digest \in Digests
    IN IF target.key # NoKey THEN target.key.kind
       ELSE IF /\ said({"projectId"}) /\ ~unsaid({"repository"}) /\ ~unsaid({"image"}) /\ dig
               /\ (~unsaid({"location"}) \/ options.place # Unsaid) THEN "gcr"
       ELSE IF said({"subscriptionId", "registry"}) /\ ~unsaid({"repository"}) /\ dig THEN "acr"
       ELSE IF said({"namespace", "repository"}) /\ dig /\ unsaid(elsewhere)
         THEN IF target.attrs.source = "quay" THEN "quay" ELSE "dockerhub"
       ELSE IF ~unsaid({"owner"}) /\ ~unsaid({"package"}) /\ dig /\ unsaid({"accountId"}) THEN "ghcr"
       ELSE IF said({"accountId"}) THEN "ecr" ELSE "none"
parseContainerImageRef(target, options) ==
    LET kind == KindOf(target, options) IN
    IF Tenant(target) \/ Tenant(options) THEN Refusal
    ELSE CASE kind = "ghcr" -> parseGhcrImageRef(target, options)
           [] kind = "ecr" -> parseEcrImageRef(target, options)
           [] kind = "gcr" -> parseGcrImageRef(target, options)
           [] kind = "acr" -> parseAcrImageRef(target, options)
           [] kind = "dockerhub" -> parseDockerhubImageRef(target, options)
           [] kind = "quay" -> parseQuayImageRef(target, options)
           [] OTHER -> Refusal

-----------------------------------------------------------------------------
(***************************************************************************)
(* URLs.  host: own is the one registry host of the reference, cdn its     *)
(* blob store, sibling another registry of the same provider.  path: v2,   *)
(* token or another.                                                       *)
(***************************************************************************)
RegistryUrl == [ApiUrl EXCEPT !.path = "v2"]
OnPath(url, paths) == To({"own"}, url) /\ url.path \in paths

GhcrUrl(url) == OnPath(url, {"v2", "token"})
EcrApi(url) == AwsUrl(url) /\ url.host = "own"
EcrRegistryUrl(url) == OnPath(url, {"v2"})
GcrRegistryUrl(url) == OnPath(url, {"v2"})
AcrRegistryUrl(url) == OnPath(url, {"v2"})
AcrOauthUrl(url) == OnPath(url, {"token"})
DockerhubAuthUrl(url) == OnPath(url, {"token"})
DockerhubRegistryUrl(url) == OnPath(url, {"v2"})
QuayAuthUrl(url) == OnPath(url, {"token"})
QuayRegistryUrl(url) == OnPath(url, {"v2"})
AzureTokenUrl(url) == OnPath(url, {"token"})
GcpTokenUrl(url) == OnPath(url, {"token"})

\* Where the download of a layer may be sent on to.
GhcrBlob(url) == GhcrUrl(url) \/ To({"cdn"}, url)
EcrBlob(url) == EcrRegistryUrl(url) \/ To({"cdn"}, url)
GcrBlob(url) == GcrRegistryUrl(url) \/ To({"cdn"}, url)
AcrBlob(url) == To({"own"}, url)
DockerhubBlob(url) == To({"own"}, url)
QuayBlob(url) == To({"own"}, url)

-----------------------------------------------------------------------------
\* Credentials, as in Connectors: ref, pointed, companions, usable.
Points(c) == c.ref = "env" /\ c.pointed
PullGithub(c) == Points(c) /\ c.usable
PullGithubOptional(c) == c.ref = "none" \/ PullGithub(c)
PullAws(c) == Points(c) /\ c.companions
PullGcp(c) == Points(c) /\ c.companions /\ c.usable
PullAzure(c) == Points(c) /\ c.companions /\ c.usable
PullDockerhub(c) == Points(c) /\ c.companions /\ c.usable
PullQuay(c) == Points(c) /\ c.usable
=============================================================================
