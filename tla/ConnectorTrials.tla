--------------------------- MODULE ConnectorTrials ---------------------------
(***************************************************************************)
(* What a provider may answer, and what a connector owes the scheduler     *)
(* for it.                                                                 *)
(***************************************************************************)
EXTENDS Connectors, Trial

Clouds == {"aws", "azure", "gcp"}
Linking == {"azure", "bitbucket", "aks", "ghcr", "dockerhub", "dns"}
Numbering == {"github", "gitlab"}
Flat == {"bitbucket", "gke", "aks"}
Nested == {"ghcr", "ecr", "gcr", "dockerhub", "quay"}

-----------------------------------------------------------------------------
(***************************************************************************)
(* Inputs                                                                  *)
(***************************************************************************)
Token == [status |-> "ok", body |-> "list", moved |-> NoUrl]
Item(k) == [key |-> k, form |-> "good", owned |-> TRUE, chosen |-> TRUE, visible |-> "private",
            inner |-> <<>>, tokens |-> <<Token, Token>>, server |-> ApiUrl, nic |-> FALSE,
            rules |-> {}]
OddItems(k) == {[Item(k) EXCEPT !.form = "noKey"],
                [Item(k) EXCEPT !.form = "noVisibility", !.visible = "absent"],
                [Item(k) EXCEPT !.owned = FALSE], [Item(k) EXCEPT !.chosen = FALSE],
                [Item(k) EXCEPT !.visible = "public"]}

Says(items) == [status |-> "ok", body |-> "list", next |-> NoUrl, moved |-> NoUrl,
                items |-> items]
Failed(a) == [a EXCEPT !.status = "error"]
Bodies == {"absent", "other", "noJson"}

\* Page p of a listing: nothing, one or two items, or an answer that went wrong.
Contents(p) == {<<>>, <<Item(<<p, 1>>)>>, <<Item(<<p, 1>>), Item(<<p, 2>>)>>}
                 \cup {<<o, Item(<<p, 2>>)>> : o \in OddItems(<<p, 1>>)}
Answers(p) == {Says(items) : items \in Contents(p)}
                \cup {Failed(Says(<<Item(<<p, 1>>)>>)), [Says(<<>>) EXCEPT !.body = "absent"]}
                \cup {[Says(<<Item(<<p, 1>>)>>) EXCEPT !.body = b] : b \in Bodies \ {"absent"}}

\* Continuations: every answer but the last has one, of which one may lead astray.
Astray == {[ApiUrl EXCEPT !.https = FALSE], [ApiUrl EXCEPT !.host = "other"],
           [ApiUrl EXCEPT !.host = "sibling"], [ApiUrl EXCEPT !.port = "other"],
           [ApiUrl EXCEPT !.user = TRUE], [ApiUrl EXCEPT !.form = "garbled"]}
Linked(pages, f, url) ==
    [p \in DOMAIN pages |->
        [pages[p] EXCEPT !.next = IF p = Len(pages) THEN NoUrl ELSE IF p = f THEN url ELSE ApiUrl]]

\* A redirect on the way to an answer: to the same host or astray.
Elsewhere == Astray \cup {ApiUrl, [ApiUrl EXCEPT !.form = "relative"]}
Moved(pages) == {[pages EXCEPT ![p].moved = url] : p \in DOMAIN pages, url \in Elsewhere}

Sequels == {Says(<<Item(<<9, 1>>)>>), Failed(Says(<<Item(<<9, 1>>)>>))}
Pages == {<<a>> : a \in Answers(1)} \cup {<<a, b>> : a \in Answers(1), b \in Answers(2)}
           \cup {<<a, b, c>> : a \in {Says(<<Item(<<1, 1>>)>>), Says(<<>>)},
                               b \in Answers(2), c \in Sequels}
Listings == {Linked(pages, 0, ApiUrl) : pages \in Pages}
Misled == {Linked(<<a, b>>, 1, url) :
             a \in {Says(<<Item(<<1, 1>>)>>), Says(<<>>)}, b \in {Says(<<Item(<<2, 1>>)>>)},
             url \in Astray}
Redirected == Moved(<<Says(<<Item(<<1, 1>>)>>)>>)
                \cup Moved(Linked(<<Says(<<Item(<<1, 1>>)>>), Failed(Says(<<>>))>>, 0, ApiUrl))

\* Pages by number: full ones, then a short one.
Fulls(p) == {a \in Answers(p) : Len(a.items) = PerPage}
Shorts(p) == {a \in Answers(p) : Len(a.items) < PerPage}
NumberedListings ==
    {<<a>> : a \in Shorts(1)} \cup {<<a, b>> : a \in Fulls(1), b \in Shorts(2)}
      \cup {<<a, b, c>> : a \in Fulls(1), b \in Fulls(2), c \in Sequels}
PublicOf(pages) ==
    LET items == pages[1].items
    IN <<Says(IF items # <<>> /\ Head(items).visible = "public" THEN <<Head(items)>> ELSE <<>>)>>

\* What the resources of a cloud are like.
Rule == [in : BOOLEAN, allow : BOOLEAN, from : {"any4", "any6", "internet", "private"}]
Resources(k) == {[Item(k) EXCEPT !.nic = n, !.rules = r] :
                   n \in BOOLEAN, r \in {{}} \cup {{x} : x \in Rule}}
Kinds == {"compute", "network", "address", "bucket"}
Inventories ==
    {<<[kind |-> k, pages |-> <<Says(<<i>>)>>]>> : k \in Kinds, i \in Resources(<<1, 1>>)}
      \cup {<<[kind |-> "network", pages |-> pages], [kind |-> "bucket", pages |-> b]>> :
              pages \in Listings,
              b \in {<<Says(<<Item(<<7, 1>>)>>)>>,
                     Linked(<<Says(<<Item(<<7, 1>>)>>), Says(<<Item(<<7, 2>>)>>)>>, 0, ApiUrl)}}

\* Outer items with a listing of their own.
Inners(k) ==
    {<<Says(<<Item(<<k, 1>>)>>)>>, <<Failed(Says(<<Item(<<k, 1>>)>>))>>}
      \cup {<<[Says(<<Item(<<k, 1>>)>>) EXCEPT !.body = b]>> : b \in Bodies \ {"absent"}}
      \cup {Linked(<<Says(<<Item(<<k, 1>>)>>), Says(<<Item(<<k, 2>>)>>)>>, 1, url) :
              url \in {ApiUrl} \cup Astray}
      \cup {Linked(<<Says(<<Item(<<k, 1>>)>>), Says(<<Item(<<k, 2>>)>>), Says(<<Item(<<k, 3>>)>>)>>,
                   0, ApiUrl)}
Outers(k) == {[o EXCEPT !.inner = inner] : o \in {Item(k)} \cup OddItems(k), inner \in Inners(k)}
Plainly(k) == [Item(k) EXCEPT !.inner = <<Says(<<Item(<<k, 1>>)>>)>>]
NestedListings ==
    {<<a>> : a \in {Says(<<o, Plainly(2)>>) : o \in Outers(1)}}
      \cup {<<Says(<<Plainly(1), o>>)>> : o \in Outers(2)}
      \cup {Linked(<<Says(<<o>>), b>>, 0, ApiUrl) : o \in Outers(1),
               b \in {Says(<<Plainly(2)>>), [Says(<<>>) EXCEPT !.body = "other"]}}
      \cup {Linked(<<Says(<<>>), Says(<<Plainly(2)>>)>>, 0, ApiUrl)}

NestedRedirects ==
    {<<Says(<<[Item(1) EXCEPT !.inner = pages]>>)>> : pages \in Redirected}
      \cup Moved(<<Says(<<Plainly(1)>>)>>)

\* Registries: one more level, and the tokens and servers of ACR.
Servers == {ApiUrl, [ApiUrl EXCEPT !.form = "relative"],
            [ApiUrl EXCEPT !.form = "relative", !.host = "sibling"]} \cup Astray
Exchanged(i) == {i, [i EXCEPT !.tokens[1].status = "error"], [i EXCEPT !.tokens[1].body = "absent"],
                 [i EXCEPT !.tokens[2].status = "error"]}
                  \cup {[i EXCEPT !.tokens[t].moved = url] : t \in 1..2, url \in Elsewhere}
Registries ==
    {[Item(1) EXCEPT !.inner = <<Says(<<o>>)>>] : o \in Outers(5)}
      \cup {[Item(1) EXCEPT !.inner = <<Says(<<o>>)>>] : o \in Exchanged(Plainly(5))}
      \cup {[Item(1) EXCEPT !.inner = pages] : pages \in NestedRedirects}
      \cup Exchanged([Item(1) EXCEPT !.inner = <<Says(<<Plainly(5)>>)>>])
      \cup {[Item(1) EXCEPT !.inner = <<Says(<<Plainly(5)>>)>>, !.server = s] : s \in Servers}

WellSet == [config |-> [endpoint |-> FALSE, extra |-> FALSE, urlId |-> FALSE, hostId |-> FALSE,
                        baseUrl |-> NoUrl, valid |-> TRUE],
            kinds |-> Kinds, account |-> TRUE, grant |-> Says(<<>>),
            cred |-> [ref |-> "env", pointed |-> TRUE, companions |-> TRUE, usable |-> TRUE,
                      session |-> FALSE],
            row |-> [own |-> TRUE, stored |-> TRUE, decrypts |-> TRUE]]
Credentials == [ref : {"none", "scheme", "offlist", "prefix", "env"}, pointed : BOOLEAN,
                companions : BOOLEAN, usable : BOOLEAN, session : BOOLEAN]
InSession == [WellSet EXCEPT !.cred.session = TRUE]
Contexts ==
    {[WellSet EXCEPT !.cred = c] : c \in Credentials}
      \cup {[WellSet EXCEPT !.cred.ref = "secret", !.row = r] :
              r \in [own : BOOLEAN, stored : BOOLEAN, decrypts : BOOLEAN]}
      \cup {[WellSet EXCEPT !.config.endpoint = TRUE], [WellSet EXCEPT !.config.valid = FALSE],
            [WellSet EXCEPT !.config.extra = TRUE], [WellSet EXCEPT !.config.urlId = TRUE],
            [WellSet EXCEPT !.config.hostId = TRUE], [WellSet EXCEPT !.account = FALSE],
            [WellSet EXCEPT !.grant = Failed(Says(<<>>))],
            [WellSet EXCEPT !.grant.body = "absent"], [WellSet EXCEPT !.kinds = {"bucket"}]}
      \cup {[WellSet EXCEPT !.config.baseUrl = u] : u \in {ApiUrl} \cup Astray}
      \cup {[c EXCEPT !.grant.moved = u] : c \in {WellSet, InSession}, u \in Elsewhere}

Addresses == {<<8, 8, 8, 8>>, <<10, 0, 0, 1>>, <<0, 0, 0, 0, 0, 65535, 2560, 1>>}
Apex(pages, status, late, ips, crtsh) ==
    [key |-> <<0, 0>>, pages |-> pages, late |-> late, crtsh |-> crtsh,
     ns |-> [status |-> status, names |-> {[key |-> <<8, 1>>, owned |-> TRUE]}],
     ips |-> [k \in (0..9) \X (0..2) |-> ips]]
Public == {<<8, 8, 8, 8>>}
Apexes == {Apex(pages, s, FALSE, Public, Public) : pages \in Listings \cup Misled, s \in {"ok", "failed"}}
            \cup {Apex(<<Says(<<Item(<<1, 1>>)>>)>>, "ok", l, i, c) :
                    l \in BOOLEAN, i \in SUBSET Addresses, c \in SUBSET Addresses}

Discovery(p, c, l) ==
    Given([of |-> "discover", provider |-> p, ctx |-> c, pages |-> l,
           public |-> IF p \in Numbering THEN PublicOf(l) ELSE l])
ConnectorInit ==
    \/ \E l \in Listings \cup Misled, p \in Flat :
         (l \in Misled => p \in Linking) /\ Discovery(p, WellSet, l)
    \/ \E c \in Contexts, p \in Flat : Discovery(p, c, <<Says(<<Item(<<1, 1>>)>>)>>)
    \/ \E l \in NumberedListings, p \in Numbering : Discovery(p, WellSet, l)
    \/ \E c \in Contexts, v \in {"public", "private"}, p \in Numbering :
         Discovery(p, c, <<Says(<<[Item(<<1, 1>>) EXCEPT !.visible = v]>>)>>)
    \/ \E l \in NestedListings, p \in Nested : Discovery(p, WellSet, l)
    \/ \E c \in Contexts, p \in Nested : Discovery(p, c, <<Says(<<Plainly(1)>>)>>)
    \/ \E o \in Outers(1) : Discovery("eks", WellSet, <<Says(<<o>>)>>)
    \/ \E r \in Registries : Discovery("acr", WellSet, <<Says(<<r>>)>>)
    \/ \E c \in Contexts, p \in {"eks", "acr"} :
         Discovery(p, c, <<Says(<<[Plainly(1) EXCEPT !.inner = <<Says(<<Plainly(5)>>)>>]>>)>>)
    \/ \E s \in Inventories, p \in Clouds : Discovery(p, WellSet, s)
    \/ \E l \in Misled : Discovery("azure", WellSet, <<[kind |-> "network", pages |-> l]>>)
    \/ \E c \in Contexts, p \in Clouds :
         Discovery(p, c, <<[kind |-> "compute", pages |-> <<Says(<<Item(<<1, 1>>)>>)>>]>>)
    \/ \E a \in Apexes : Discovery("dns", WellSet, <<a>>)
    \/ \E l \in Redirected, p \in Flat \cup Numbering :
         (p \in Numbering => Len(l) = 1) /\ Discovery(p, WellSet, l)
    \/ \E c \in {WellSet, InSession}, l \in NestedRedirects, p \in Nested \cup {"eks"} : Discovery(p, c, l)
    \/ \E c \in {WellSet, InSession}, l \in Redirected, k \in {"network", "bucket"}, p \in Clouds :
         Discovery(p, c, <<[kind |-> k, pages |-> l]>>)
    \/ \E c \in Contexts : Discovery("dns", c, <<Apex(<<Says(<<>>)>>, "ok", FALSE, Public, Public)>>)

-----------------------------------------------------------------------------
Discover(x) ==
    CASE x.provider = "aws" -> Aws(x.ctx, x.pages)
      [] x.provider = "azure" -> Azure(x.ctx, x.pages)
      [] x.provider = "gcp" -> Gcp(x.ctx, x.pages)
      [] x.provider = "github" -> GitHub(x.ctx, x.pages, x.public)
      [] x.provider = "gitlab" -> GitLab(x.ctx, x.pages, x.public)
      [] x.provider = "bitbucket" -> Bitbucket(x.ctx, x.pages)
      [] x.provider = "ghcr" -> Ghcr(x.ctx, x.pages)
      [] x.provider = "ecr" -> Ecr(x.ctx, <<x.pages>>)
      [] x.provider = "gcr" -> Gcr(x.ctx, <<x.pages>>)
      [] x.provider = "acr" -> Acr(x.ctx, <<x.pages>>)
      [] x.provider = "dockerhub" -> Dockerhub(x.ctx, x.pages)
      [] x.provider = "quay" -> Quay(x.ctx, x.pages)
      [] x.provider = "eks" -> Eks(x.ctx, <<x.pages>>)
      [] x.provider = "gke" -> Gke(x.ctx, x.pages)
      [] x.provider = "aks" -> Aks(x.ctx, x.pages)
      [] x.provider = "dns" -> DnsEnum(x.ctx, x.pages)

RunDiscover == Call("discover", Discover(input))

-----------------------------------------------------------------------------
(***************************************************************************)
(* Properties                                                              *)
(***************************************************************************)
\* What the provider holds of the configured inventory.
Held(pages) == UNION {{pages[p].items[i] : i \in DOMAIN pages[p].items} : p \in DOMAIN pages}
Wanted(items) == {i \in items : i.form # "noKey" /\ i.owned /\ i.chosen}
Keys(items) == {i.key : i \in items}
ImagesOf(repo) == {i \in Held(repo.inner) : i.form # "noKey" /\ i.owned}
NamesOf(apex) == {apex.key} \cup Keys({i \in Held(apex.pages) : i.owned})
                   \cup Keys({n \in apex.ns.names : n.owned})
InventoryOf(provider, scope) ==
    {i \in Held(scope.pages) : /\ i.form # "noKey"
                               /\ provider = "gcp" /\ scope.kind = "address" => i.nic}
HeldBy(x) ==
    LET outer == Wanted(Held(x.pages))
        scoped == {s \in DOMAIN x.pages : x.pages[s].kind \in x.ctx.kinds}
    IN CASE x.provider \in Clouds -> UNION {Keys(InventoryOf(x.provider, x.pages[s])) : s \in scoped}
         [] x.provider = "dns" -> UNION {NamesOf(x.pages[a]) : a \in DOMAIN x.pages}
         [] x.provider = "acr" ->
              Keys(UNION {ImagesOf(i) : i \in UNION {Wanted(Held(r.inner)) : r \in outer}})
         [] x.provider \in Nested -> Keys(UNION {ImagesOf(i) : i \in outer})
         [] x.provider \in {"eks", "gke", "aks"} ->
              Keys({i \in Held(x.pages) : i.form # "noKey" /\ i.chosen})
         [] x.provider = "github" -> Keys({i \in Held(x.pages) : i.owned /\ i.chosen})
         [] OTHER -> Keys(outer)

\* Two ways in which a connector takes less for everything: a 200 whose body is
\* not the expected list is an empty list for AWS, Azure and GCP; a GitHub
\* credential that is configured but not set lists what is public.
TakenForEmpty(x) ==
    x.provider \in Clouds /\ \E s \in DOMAIN x.pages : \E p \in DOMAIN x.pages[s].pages :
      x.pages[s].pages[p].body # "list"
PublicOnly(x) == x.provider = "github" /\ x.ctx.cred.ref # "none" /\ Resolve(x.ctx.cred) = "undefined"
\* Two more: a failed NS look-up for DNS, an empty page that links on for GHCR.
NsLost(x) == x.provider = "dns" /\ \E a \in DOMAIN x.pages : x.pages[a].ns.status # "ok"
Gapped(pages) == \E p \in DOMAIN pages : pages[p].items = <<>> /\ pages[p].next # NoUrl
EmptyLinks(x) == /\ x.provider = "ghcr"
                 /\ Gapped(x.pages) \/ \E i \in Wanted(Held(x.pages)) : Gapped(i.inner)

\* A connector that ends without an error has yielded exactly what the provider
\* holds, so that archiving the rest is right; whatever cuts a listing short (an
\* error, a body that is no list, a link astray, the page cap, an unusable
\* credential, a token that is refused, a deadline) is an error.  Without any
\* credential the public inventory is what was asked for.
Curtailed(x) == \/ TakenForEmpty(x) \/ PublicOnly(x) \/ NsLost(x) \/ EmptyLinks(x)
                \/ x.provider \in Numbering /\ x.ctx.cred.ref = "none"
CompleteOrRefused ==
    Returned("discover") =>
        /\ Keys(Result.items) \subseteq HeldBy(input)
        /\ Result.done /\ ~Curtailed(input) => Keys(Result.items) = HeldBy(input)

\* What goes along when a provider redirects: the secret in the body of a log-in
\* or of an exchange of tokens, and the session token in a header of a signed
\* request.  These are the urls where it then goes.
Away(pages) == {pages[p].moved : p \in DOMAIN pages}
HandedOn(x) ==
    LET inner == UNION {Away(i.inner) : i \in Held(x.pages)}
        registries == Held(x.pages)
        traded == registries \cup UNION {Held(r.inner) : r \in registries}
    IN CASE x.provider = "aws" /\ x.ctx.cred.session ->
              {x.ctx.grant.moved} \cup UNION {Away(x.pages[s].pages) : s \in DOMAIN x.pages}
         [] x.provider \in {"ecr", "eks"} /\ x.ctx.cred.session ->
              {x.ctx.grant.moved} \cup Away(x.pages) \cup inner
         [] x.provider = "acr" ->
              {x.ctx.grant.moved} \cup {i.tokens[t].moved : i \in traded, t \in 1..2}
         [] x.provider \in {"azure", "gcp", "gcr", "gke", "aks"} -> {x.ctx.grant.moved}
         [] OTHER -> {}

\* However the provider's answers continue, whichever server ARM names and wherever
\* an answer redirects, the credential and the tokens it is exchanged for go to the
\* provider's own API host over https and nowhere else, and never after a
\* configuration that names a host; but for what a redirect of the provider's
\* own endpoint takes along.
CredentialStaysHome ==
    Returned("discover") =>
        /\ \A u \in Result.dials : AtHome(u) \/ u \in HandedOn(input)
        /\ input.ctx.config.endpoint /\ input.provider # "github" => Result.dials = {}

\* Whether what an item says of itself means that it is reachable from outside.
Reachable(kind, i) ==
    CASE kind = "compute" -> i.nic
      [] kind = "network" -> \E r \in i.rules : r.in /\ r.allow /\ r.from # "private"
      [] OTHER -> kind = "address"
OwnRules(x, r) == (x.provider = "aws" => r.allow /\ r.from \in {"any4", "any6", "private"})
                    /\ (x.provider = "gcp" => r.from \notin {"internet", "star"})

\* An asset is recorded as internal or as facing the internet only if the
\* provider's answer says so: egress rules do not expose, a private flag hides.
\* Azure's "::/0" (taken for private) and GCP's deny rules (taken for open) are
\* the two answers that the connectors read differently.
ExposureHonest ==
    Returned("discover") /\ input.provider \in Clouds =>
        \A s \in DOMAIN input.pages : \A i \in Held(input.pages[s].pages) : \A a \in Result.items :
          /\ a.key = i.key /\ a.exposure # "unknown"
          /\ \A r \in i.rules : OwnRules(input, r)
                                  /\ ~(input.provider = "azure" /\ r.from = "any6")
                                  /\ ~(input.provider = "gcp" /\ ~r.allow)
          => (a.exposure = "internet_facing" <=> Reachable(input.pages[s].kind, i))
=============================================================================
