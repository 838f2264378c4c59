------------------------------ MODULE Connectors ------------------------------
(***************************************************************************)
(* The discovery connectors of asset-service.  The scheduler archives what *)
(* a listing does not contain, so a connector either yields everything its *)
(* provider holds or throws; what it yields before it throws is upserted   *)
(* all the same.                                                           *)
(*                                                                         *)
(* answer: what the provider says to the request for one page:             *)
(*         [status: ok or error, body: list, absent (the field is), other  *)
(*          (another document) or noJson, next: a url or NoUrl, moved: to  *)
(*          where a redirect sent the request on, items: a sequence]       *)
(* item:   [key, form: good, noKey (what the parser needs of a name is     *)
(*          missing) or noVisibility, owned, chosen, visible: public,      *)
(*          private or absent, inner: the answers of the listing below it, *)
(*          tokens: answers to what it is exchanged for, server: a url,    *)
(*          nic: a public address is attached, rules: of a firewall]       *)
(* rule:   [in: inbound, allow, from: any4, any6, star, internet, private] *)
(* A listing is the sequence of answers a client would get that follows    *)
(* every continuation to the end.  owned and chosen stand for the owner    *)
(* checks, allow-lists and include flags.                                  *)
(***************************************************************************)
EXTENDS Steps, FiniteSets

CONSTANTS
    MaxPages,   \* *_MAX_PAGES: page cap of a listing
    PerPage,    \* *_PER_PAGE: items of a full page
    MaxNames    \* DNS_ENUM_MAX_NAMES: names of one apex

ASSUME ConnectorsAssumption ==
    MaxPages \in Nat \ {0} /\ PerPage \in Nat \ {0} /\ MaxNames \in Nat \ {0}

Yield(k, e) == [Empty EXCEPT !.items = {[key |-> k, exposure |-> e]}]
Facing(open) == IF open THEN "internet_facing" ELSE "internal"
ByVisibility(v) == CASE v = "public" -> "internet_facing" [] v = "private" -> "internal"
                     [] OTHER -> "unknown"

\* Where a listing goes on: NoUrl when it is complete, OffLimits when the link
\* it was given is refused.
OffLimits == [NoUrl EXCEPT !.form = "refused"]
ByToken(a) == IF a.next = NoUrl THEN NoUrl ELSE ApiUrl
ByLink(a, allowed) == IF a.next = NoUrl \/ allowed THEN a.next ELSE OffLimits
ByNumber(a) == IF Len(a.items) < PerPage THEN NoUrl ELSE ApiUrl

\* A listing is asked for at [url: its first page, redirect: what happens to the
\* credential when the answer is a redirect].
Stripping == [url |-> ApiUrl, redirect |-> "strip"]
Refusing == [url |-> ApiUrl, redirect |-> "error"]
\* A signed request has its session token, if any, in a header of its own.
Signed(cred) == [url |-> ApiUrl, redirect |-> IF cred.session THEN "keep" ELSE "strip"]
Registry(server) == [url |-> [ApiUrl EXCEPT !.host = server.host], redirect |-> "strip"]

\* The loop every paged listing has: stop when there is no more, throw at an
\* error, at a link off the allow-list, and at the cap.
\* steps: per page [good, next, result: what its answer comes to].
Stops(steps, p) == p = MaxPages \/ ~steps[p].good \/ steps[p].next \in {NoUrl, OffLimits}
Follow(first, steps) ==
    LET last == CHOOSE p \in DOMAIN steps :
                  Stops(steps, p) /\ \A q \in 1..(p - 1) : ~Stops(steps, q)
        Asked(p) == [Empty EXCEPT !.dials = {IF p = 1 THEN first ELSE steps[p - 1].next}]
    IN Then(InOrder([p \in 1..last |-> Then(Asked(p), steps[p].result)]),
            Guarded(steps[last].next = NoUrl, Empty))

\* One page of it: asked for at, answered a, and visits are what its items come to.
Page(at, a, good, next, visits) ==
    LET fine == Followed(at.redirect, a.moved) /\ good
        Resent == [Empty EXCEPT !.dials = SentOn(at.redirect, a.moved)]
    IN [good |-> fine, next |-> next, result |-> Then(Resent, Guarded(fine, InOrder(visits)))]

\* A listing whose items are visited page by page.
Listing(at, pages, Good(_), Visit(_), Next(_)) ==
    LET Read(a) == IF a.body = "list" THEN a.items ELSE <<>>
    IN Follow(at.url,
              [p \in DOMAIN pages |->
                 Page(at, pages[p], Good(pages[p]), Next(pages[p]),
                      [i \in DOMAIN Read(pages[p]) |-> Visit(Read(pages[p])[i])])])

-----------------------------------------------------------------------------
(***************************************************************************)
(* Credentials.  ref: none, secret, scheme (not env:), offlist, prefix (an *)
(* env: variable of another provider) or env.  pointed: the variable is    *)
(* set; companions: so are the ones that go with it; usable: they have the *)
(* form they must have (for a token: it is not blank); session: of AWS, a  *)
(* session token is set too.                                               *)
(***************************************************************************)
\* resolveCredential: throws for an unknown scheme or name, undefined for a
\* missing reference or an unset variable.
Resolve(c) ==
    CASE c.ref = "none" -> "undefined"
      [] c.ref \in {"secret", "scheme", "offlist"} -> "throws"
      [] OTHER -> IF c.pointed THEN "token" ELSE "undefined"

Pointer(c) == c.ref = "env" /\ c.pointed

requireGithubToken(c) == Pointer(c) /\ c.usable
requireBitbucketToken(c) == Pointer(c) /\ c.usable
requireQuayToken(c) == Pointer(c) /\ c.usable
requireAwsCredentials(c) == Pointer(c) /\ c.companions
requireGcpCredentials(c) == Pointer(c) /\ c.companions /\ c.usable
requireAzureCredentials(c) == Pointer(c) /\ c.companions /\ c.usable
requireDockerhubCredentials(c) == Pointer(c) /\ c.companions /\ c.usable

\* A stored GitHub token: the reference must name this very integration, and
\* its row must be there, of the org, and decrypt under both ids.
LoadSecret(row) == IF row.own /\ row.stored /\ row.decrypts THEN "token" ELSE "throws"

\* What a credential is exchanged for first: grant is the token endpoint's
\* answer (for ACR, to both of its requests), account the account the keys turn
\* out to be of.  The secret is in the body, except for AWS, which signs.
AzureLogin(ctx) ==
    Guarded(requireAzureCredentials(ctx.cred), Exchange("keep", ApiUrl, ctx.grant))
GcpLogin(ctx) == Guarded(requireGcpCredentials(ctx.cred), Exchange("keep", ApiUrl, ctx.grant))
DockerhubLogin(ctx) ==
    Guarded(requireDockerhubCredentials(ctx.cred), Exchange("error", ApiUrl, ctx.grant))
AwsAccount(ctx) ==
    Guarded(requireAwsCredentials(ctx.cred),
            Then(Exchange(Signed(ctx.cred).redirect, ApiUrl, ctx.grant), Guarded(ctx.account, Empty)))

-----------------------------------------------------------------------------
(***************************************************************************)
(* Clouds.  A scope is [kind: compute, network, address or bucket, pages]; *)
(* ctx.kinds are the resource types to list.                               *)
(***************************************************************************)
Scopes(ctx, scopes, List(_)) ==
    InOrder([s \in DOMAIN scopes |->
               IF scopes[s].kind \in ctx.kinds THEN List(scopes[s]) ELSE Empty])

\* A security group only allows; ingress rules count.
AwsParsed(kind, i) ==
    CASE kind = "compute" -> i.nic
      [] kind = "network" -> \E r \in i.rules : r.in /\ r.from \in {"any4", "any6"}
      [] OTHER -> TRUE

AwsAsset(kind, i) == IF i.form = "noKey" THEN Empty
                     ELSE Yield(i.key, IF kind = "bucket" THEN "unknown"
                                       ELSE Facing(AwsParsed(kind, i)))

\* The answers are searched for tags: a document of another kind has none.
AwsGood(a) == a.status = "ok"

\* Addresses come in one answer; a truncated list of buckets throws at once.
AwsListing(ctx, scope) ==
    IF scope.kind = "bucket" /\ scope.pages[1].next # NoUrl /\ scope.pages[1].status = "ok"
      THEN Then(Sends(Signed(ctx.cred).redirect, ApiUrl, scope.pages[1]), Refused)
      ELSE Listing(Signed(ctx.cred), scope.pages, AwsGood, LAMBDA i : AwsAsset(scope.kind, i),
                   LAMBDA a : IF scope.kind = "address" THEN NoUrl ELSE ByToken(a))

\* STS tells the account, then one listing per resource type.
Aws(ctx, scopes) ==
    Guarded(AwsConfig(ctx.config),
            Then(AwsAccount(ctx), Scopes(ctx, scopes, LAMBDA s : AwsListing(ctx, s))))

\* Mutant: egress rules count too.
AzureOpenAnyWay(r) == r.allow /\ r.from \in {"any4", "star", "internet"}
AzureOpen(r) == r.in /\ r.allow /\ r.from \in {"any4", "star", "internet"}

AzureAsset(kind, i) ==
    IF i.form = "noKey" THEN Empty
    ELSE Yield(i.key, CASE kind = "compute" -> Facing(i.nic)
                        [] kind = "network" -> Facing(\E r \in i.rules : AzureOpen(r))
                        [] kind = "address" -> "internet_facing"
                        [] kind = "bucket" -> "unknown")

\* A JSON document without a list is an empty one.
AzureGood(a) == a.status = "ok" /\ a.body # "noJson"

\* nextLink must stay on the ARM host.
AzureListing(scope) ==
    Listing(Stripping, scope.pages, AzureGood, LAMBDA i : AzureAsset(scope.kind, i),
            LAMBDA a : ByLink(a, AzureArmUrl(a.next)))

Azure(ctx, scopes) ==
    Guarded(AzureConfig(ctx.config), Then(AzureLogin(ctx), Scopes(ctx, scopes, AzureListing)))

\* An ingress rule counts, whether it allows, denies or is disabled.
GcpOpen(r) == r.in /\ r.from \in {"any4", "any6"}

\* Only external addresses are inventory.
GcpAsset(kind, i) ==
    IF i.form = "noKey" \/ (kind = "address" /\ ~i.nic) THEN Empty
    ELSE Yield(i.key, CASE kind \in {"compute", "address"} -> Facing(i.nic)
                        [] kind = "network" -> Facing(\E r \in i.rules : GcpOpen(r))
                        [] kind = "bucket" -> "unknown")

GcpGood(a) == a.status = "ok" /\ a.body # "noJson"

GcpListing(scope) ==
    Listing(Stripping, scope.pages, GcpGood, LAMBDA i : GcpAsset(scope.kind, i), ByToken)

Gcp(ctx, scopes) ==
    Guarded(GcpConfig(ctx.config), Then(GcpLogin(ctx), Scopes(ctx, scopes, GcpListing)))

-----------------------------------------------------------------------------
(***************************************************************************)
(* Repositories of code.  pages are the answers to a client with the token *)
(* and public those to one without.                                        *)
(***************************************************************************)
Exact(a) == a.status = "ok" /\ a.body = "list"

GitHubToken(ctx) == IF ctx.cred.ref = "secret" THEN LoadSecret(ctx.row) ELSE Resolve(ctx.cred)
GitHubAsset(i) == Yield(i.key, Facing(i.visible # "private"))

\* By number, until a page is short.
GitHubRepo(i) == IF i.owned /\ i.chosen THEN GitHubAsset(i) ELSE Empty
GitHubListing(pages) == Listing(Refusing, pages, Exact, GitHubRepo, ByNumber)

GitHub(ctx, pages, public) ==
    LET token == GitHubToken(ctx) IN
    Guarded(ctx.config.valid /\ token # "throws",
            GitHubListing(IF token = "token" THEN pages ELSE public))

\* A path that is not one throws.
GitLabAsset(i) == Guarded(i.form # "noKey", Yield(i.key, Facing(i.visible = "public")))
GitLabProject(i) == IF i.owned /\ i.chosen THEN GitLabAsset(i) ELSE Empty
GitLabListing(pages) == Listing(Stripping, pages, Exact, GitLabProject, ByNumber)

\* The token goes to the host the config names.
GitLab(ctx, pages, public) ==
    LET token == Resolve(ctx.cred) IN
    Guarded(/\ GitLabConfig(ctx.config) /\ GitLabOrigin(ctx.config) # "refused"
            /\ token = "token" \/ ctx.cred.ref = "none",
            GitLabListing(IF token = "token" THEN pages ELSE public))

\* An item that is not a repository throws instead of being skipped.
BitbucketAsset(i) == Guarded(i.form # "noVisibility", Yield(i.key, ByVisibility(i.visible)))
BitbucketPage(a) == Exact(a)

Bitbucket(ctx, pages) ==
    LET Visit(i) == IF ~i.owned THEN Empty
                    ELSE IF i.form = "noKey" THEN Refused
                    ELSE IF i.chosen THEN BitbucketAsset(i) ELSE Empty
    IN Guarded(BitbucketConfig(ctx.config) /\ requireBitbucketToken(ctx.cred),
               Listing(Refusing, pages, BitbucketPage, Visit,
                       LAMBDA a : ByLink(a, BitbucketUrl(a.next))))

-----------------------------------------------------------------------------
(***************************************************************************)
(* Container registries: repositories, then the images of each.            *)
(***************************************************************************)
\* Mutant: any 200 will do.
StrictLess(a) == a.status = "ok"
Strict(a) == a.status = "ok" /\ a.body \in {"list", "absent"}
Taken(i) == i.form # "noKey" /\ i.owned /\ i.chosen
ImageOf(i, exposure) == IF i.form = "noKey" \/ ~i.owned THEN Empty ELSE Yield(i.key, exposure)

\* An empty page ends a listing, wherever its Link header points.
GhcrNext(a) == IF a.items = <<>> THEN NoUrl ELSE ByLink(a, GithubUrl(a.next))
GhcrImage(repo, i) == ImageOf(i, ByVisibility(repo.visible))

GhcrImages(repo) ==
    IF Taken(repo)
      THEN Listing(Stripping, repo.inner, Exact, LAMBDA i : GhcrImage(repo, i), GhcrNext)
      ELSE Empty

Ghcr(ctx, pages) ==
    Guarded(GhcrConfig(ctx.config) /\ requireGithubToken(ctx.cred),
            Listing(Stripping, pages, Exact, GhcrImages, GhcrNext))

\* Regions: the images of the account's own repositories.
EcrImage(i) == ImageOf(i, "internal")
EcrImages(ctx, repo) ==
    IF Taken(repo) THEN Listing(Signed(ctx.cred), repo.inner, Strict, EcrImage, ByToken) ELSE Empty
EcrRepositories(ctx, pages) ==
    Listing(Signed(ctx.cred), pages, Strict, LAMBDA i : EcrImages(ctx, i), ByToken)

Ecr(ctx, regions) ==
    Guarded(EcrConfig(ctx.config),
            Then(AwsAccount(ctx),
                 InOrder([r \in DOMAIN regions |-> EcrRepositories(ctx, regions[r])])))

\* Locations: the Docker repositories of the project.
GcrImage(i) == ImageOf(i, "internal")
GcrImages(repo) ==
    IF Taken(repo) THEN Listing(Stripping, repo.inner, Strict, GcrImage, ByToken) ELSE Empty
GcrRepositories(pages) == Listing(Stripping, pages, Strict, GcrImages, ByToken)

Gcr(ctx, locations) ==
    Guarded(GcrConfig(ctx.config),
            Then(GcpLogin(ctx), InOrder([l \in DOMAIN locations |-> GcrRepositories(locations[l])])))

\* A page of registries throws as a whole if one of them claims a login server
\* that is not its own.
AcrPage(a) == Strict(a) /\ \A i \in DOMAIN a.items :
                a.items[i].form = "noKey" \/ LoginServer(a.items[i].server)
AcrNext(a) == ByLink(a, AcrNextUrl(a.next))

\* A token of the registry's own is exchanged there for the one before it: the
\* refresh token, the catalog token and one per repository, each in a body.
AcrTokens(server, item, n) ==
    Guarded(PinLoginServer(server),
            InOrder([t \in 1..n |-> Exchange("keep", Registry(server).url, item.tokens[t])]))

\* Resource groups, registries, repositories, images.
AcrImage(i) == ImageOf(i, "internal")
AcrImages(server, repo) ==
    IF Taken(repo)
      THEN Then(AcrTokens(server, repo, 1),
                Listing(Registry(server), repo.inner, Strict, AcrImage, AcrNext))
      ELSE Empty
AcrRepositories(registry) ==
    IF Taken(registry)
      THEN Then(AcrTokens(registry.server, registry, 2),
                Listing(Registry(registry.server), registry.inner, Strict,
                        LAMBDA i : AcrImages(registry.server, i), AcrNext))
      ELSE Empty
AcrRegistries(pages) ==
    Listing(Stripping, pages, AcrPage, AcrRepositories, LAMBDA a : ByLink(a, AzureArmUrl(a.next)))

Acr(ctx, groups) ==
    Guarded(AcrConfig(ctx.config),
            Then(AzureLogin(ctx), InOrder([g \in DOMAIN groups |-> AcrRegistries(groups[g])])))

\* Tags name images; the images of a repository are yielded when all of its
\* tags are known.
DockerhubImage(repo, i) == ImageOf(i, ByVisibility(repo.visible))
DockerhubNext(a) == ByLink(a, DockerhubUrl(a.next))
DockerhubImages(repo) ==
    IF Taken(repo)
      THEN Whole(Listing(Refusing, repo.inner, Strict, LAMBDA i : DockerhubImage(repo, i),
                         DockerhubNext))
      ELSE Empty

Dockerhub(ctx, pages) ==
    Guarded(DockerhubConfig(ctx.config),
            Then(DockerhubLogin(ctx), Listing(Refusing, pages, Strict, DockerhubImages, DockerhubNext)))

QuayImage(repo, i) == ImageOf(i, ByVisibility(repo.visible))
QuayImages(repo) ==
    IF Taken(repo)
      THEN Whole(Listing(Stripping, repo.inner, Strict, LAMBDA i : QuayImage(repo, i), ByToken))
      ELSE Empty

Quay(ctx, pages) ==
    Guarded(QuayConfig(ctx.config) /\ requireQuayToken(ctx.cred),
            Listing(Stripping, pages, Strict, QuayImages, ByToken))

-----------------------------------------------------------------------------
(***************************************************************************)
(* Kubernetes clusters and domains                                         *)
(***************************************************************************)
\* EKS lists names and describes each, chosen or not; a cluster that cannot be
\* described throws.
EksCluster(ctx, i) ==
    LET a == i.inner[1] IN
    IF i.form = "noKey" THEN Empty
    ELSE Then(Sends(Signed(ctx.cred).redirect, ApiUrl, a),
              Guarded(Exact(a) /\ a.items # <<>> /\ a.items[1].form # "noKey",
                      IF i.chosen THEN Yield(i.key, Facing(a.items[1].visible = "public"))
                      ELSE Empty))

EksClusters(ctx, pages) ==
    Listing(Signed(ctx.cred), pages, Strict, LAMBDA i : EksCluster(ctx, i), ByToken)

Eks(ctx, regions) ==
    Guarded(KubernetesConfig(ctx.config),
            Then(AwsAccount(ctx), InOrder([r \in DOMAIN regions |-> EksClusters(ctx, regions[r])])))

\* GKE and AKS: a cluster not said to be private is reachable.
GkeCluster(i) == IF i.form = "noKey" \/ ~i.chosen THEN Empty
                 ELSE Yield(i.key, Facing(i.visible # "private"))
AksCluster(i) == IF i.form = "noKey" \/ ~i.chosen THEN Empty
                 ELSE Yield(i.key, Facing(i.visible # "private"))

Gke(ctx, pages) ==
    Guarded(KubernetesConfig(ctx.config),
            Then(GcpLogin(ctx), Listing(Stripping, pages, Strict, GkeCluster, ByToken)))
Aks(ctx, pages) ==
    Guarded(KubernetesConfig(ctx.config),
            Then(AzureLogin(ctx), Listing(Stripping, pages, Strict, AksCluster,
                                          LAMBDA a : ByLink(a, AzureArmUrl(a.next)))))

\* crt.sh must resolve, and to public addresses only.
ResolveCrtSh(ips) == ips # {} /\ \A ip \in ips : PublicAddress(ip)

CrtShNames(a) ==
    Guarded(ResolveCrtSh(a.crtsh),
            Listing(Refusing, a.pages, Exact,
                    LAMBDA i : IF i.owned THEN Yield(i.key, "unknown") ELSE Empty,
                    LAMBDA p : ByLink(p, CrtShUrl(p.next))))

EnrichDomain(key, ips) ==
    Yield(key, IF \E ip \in ips : PublicAddress(ip) THEN "internet_facing" ELSE "unknown")

\* Per apex, the names of the certificate log and of the name servers; nothing
\* of an apex is yielded unless all of it is.  A failed NS look-up is an empty
\* answer.  a.ips are the addresses of a name.
InventoryApex(a) ==
    LET ct == CrtShNames(a)
        ns == IF a.ns.status = "ok" THEN {n \in a.ns.names : n.owned} ELSE {}
        names == {a.key} \cup {i.key : i \in ct.items} \cup {n.key : n \in ns}
        enriched == UNION {EnrichDomain(k, a.ips[k]).items : k \in names}
    IN Then(Silent(ct),
            Guarded(~a.late /\ Cardinality(names) <= MaxNames, [Empty EXCEPT !.items = enriched]))

DnsEnum(ctx, apexes) ==
    Guarded(DnsConfig(ctx.config) /\ (ctx.cred.ref = "none" \/ Resolve(ctx.cred) = "token"),
            InOrder([a \in DOMAIN apexes |-> InventoryApex(apexes[a])]))
=============================================================================
