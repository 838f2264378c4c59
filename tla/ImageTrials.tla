----------------------------- MODULE ImageTrials -----------------------------
(***************************************************************************)
(* What a container job may say, what a registry may answer, and what the  *)
(* scanner owes the findings service for it.                               *)
(***************************************************************************)
EXTENDS ImagePull, Trial

RegistryKinds == DOMAIN Names

-----------------------------------------------------------------------------
(***************************************************************************)
(* Inputs: targets                                                         *)
(***************************************************************************)
Fields == (UNION {Names[k] : k \in RegistryKinds}) \cup {"region", "loginServer", "digest", "source"}
Parts(kind) == [f \in Names[kind] |-> "a"]
KeyOf(kind) == [kind |-> kind, parts |-> Parts(kind), digest |-> "sha1"]
\* What the connector of the registry writes.
Written(kind) ==
    [key |-> KeyOf(kind), endpoint |-> FALSE,
     attrs |-> [f \in Fields |->
                  CASE f \in Names[kind] -> "a" [] f = "digest" -> "sha1" [] f = "source" -> kind
                    [] f = "region" /\ kind = "ecr" -> "a" [] f = "loginServer" /\ kind = "acr" -> "a"
                    [] OTHER -> Unsaid]]
Plain == [endpoint |-> FALSE, place |-> Unsaid, places |-> {}]

Targets ==
    UNION {LET w == Written(kind)
               Said(f, v) == [w EXCEPT !.attrs[f] = v]
           IN {w, [w EXCEPT !.endpoint = TRUE], [w EXCEPT !.key = BadKey], [w EXCEPT !.key = NoKey]}
                \cup {Said(f, v) : f \in Fields, v \in {Unsaid, "a", "b", "bad", "sha2", "quay"}}
                \cup {[Said(f, v) EXCEPT !.key = NoKey] :
                        f \in Fields, v \in {Unsaid, "a", "b", "bad", "sha2", "quay"}}
                \cup {[w EXCEPT !.key.parts[f] = "bad"] : f \in Names[kind]}
                \cup {[w EXCEPT !.key = KeyOf(k)] : k \in RegistryKinds} : kind \in RegistryKinds}
Options == {Plain, [Plain EXCEPT !.endpoint = TRUE]}
             \cup {[Plain EXCEPT !.place = p] : p \in {"a", "b", "bad"}}
             \cup {[Plain EXCEPT !.places = r] : r \in SUBSET {"a", "b"}}

-----------------------------------------------------------------------------
(***************************************************************************)
(* Inputs: images                                                          *)
(***************************************************************************)
Entry(path, kind, content) ==
    [path |-> path, type |-> "file", kind |-> kind, big |-> FALSE, text |-> "whole",
     content |-> content]
Mark(path, type) == [Entry(path, "plain", {}) EXCEPT !.type = type]
Pkg(n, v) == [name |-> n, version |-> v]
Status == <<"db", "status">>
Tars ==
    {<<>>, <<Entry(Status, "os", {Pkg("p", 1)})>>, <<Entry(Status, "os", {Pkg("p", 2)})>>,
     <<Entry(Status, "os", {Pkg("p", 1), Pkg("q", 1)})>>,
     <<Entry(<<"db", "status.d">>, "os", {Pkg("r", 1)})>>,
     <<Entry(<<"app", "x">>, "npm", {Pkg("x", 1)})>>,
     <<[Entry(<<"app", "x">>, "npm", {}) EXCEPT !.text = "incomplete"]>>,
     <<Mark(<<"app", "x">>, "whiteout")>>,
     <<Entry(<<"app", "y">>, "meta", {Pkg("y", 1)}), Mark(<<"app">>, "opaque")>>,
     <<Mark(<<>>, "opaque"), Entry(Status, "os", {Pkg("p", 1)})>>,
     <<Mark(<<"db">>, "whiteout")>>,
     <<[Entry(Status, "os", {Pkg("p", 1)}) EXCEPT !.text = "unparsable"]>>}
OddTars ==
    {<<[Entry(<<"app", "x">>, "npm", {}) EXCEPT !.text = "unparsable"]>>, <<Entry(<<"rpm">>, "rpm", {})>>,
     <<[Entry(<<"app", "y">>, "meta", {Pkg("y", 1)}) EXCEPT !.text = "unparsable"]>>,
     <<[Entry(Status, "os", {Pkg("p", 1)}) EXCEPT !.big = TRUE]>>,
     <<Mark(<<"a">>, "dir"), Mark(<<"b">>, "link"), Entry(<<"c">>, "plain", {}), Mark(<<"d">>, "dir")>>}

LayerOf(n, tar) ==
    [digest |-> <<"l1", "l2", "l3", "l4">>[n], media |-> "gzip", status |-> "ok", to |-> NoUrl, next |-> "ok",
     form |-> "tar", served |-> tar, entries |-> tar]
ManifestOf(layers) ==
    [status |-> "ok", type |-> "image", choices |-> <<>>, layers |-> layers]
PulledAs(layers) ==
    [cred |-> [ref |-> "env", pointed |-> TRUE, companions |-> TRUE, usable |-> TRUE,
               session |-> FALSE],
     private |-> TRUE,
     grant |-> [i \in 1..3 |-> [status |-> "ok", body |-> "list", moved |-> NoUrl]],
     manifest |-> ManifestOf(layers), cache |-> {}, late |-> "never"]
Stacks == {<<LayerOf(1, a)>> : a \in Tars \cup OddTars}
            \cup {<<LayerOf(1, a), LayerOf(2, b)>> : a \in Tars \cup OddTars, b \in Tars}
            \cup {<<LayerOf(1, a), LayerOf(2, b), LayerOf(3, c)>> : a, b, c \in Tars}
            \cup {[i \in 1..4 |-> LayerOf(i, <<>>)]}

One == LayerOf(1, <<Entry(Status, "os", {Pkg("p", 1)})>>)
Two == LayerOf(2, <<Entry(<<"app", "x">>, "npm", {Pkg("x", 1)})>>)
Sample == PulledAs(<<One, Two>>)
Places == {RegistryUrl, NoUrl, [RegistryUrl EXCEPT !.host = "cdn"],
              [RegistryUrl EXCEPT !.host = "sibling"], [RegistryUrl EXCEPT !.host = "other"],
              [RegistryUrl EXCEPT !.path = "other"], [RegistryUrl EXCEPT !.https = FALSE],
              [RegistryUrl EXCEPT !.port = "other"], [RegistryUrl EXCEPT !.user = TRUE]}
OddLayers ==
    {[One EXCEPT !.digest = Unsaid], [One EXCEPT !.media = "zstd"], [One EXCEPT !.form = "torn"],
     [One EXCEPT !.status = "error"], [One EXCEPT !.served = <<>>]}
      \cup {[One EXCEPT !.status = "redirect", !.to = u, !.next = n] :
              u \in Places, n \in {"ok", "redirect"}}
Platform(os, arch, layers) ==
    [os |-> os, arch |-> arch, digest |-> "sha1", manifest |-> ManifestOf(layers)]
PlatformChoices == {Platform("linux", "amd64", <<One>>), Platform("linux", "arm64", <<Two>>),
            Platform(Unsaid, "s390x", <<Two>>), Platform("windows", "amd64", <<>>),
            [Platform("linux", "amd64", <<One>>) EXCEPT !.digest = Unsaid],
            [Platform("linux", "amd64", <<One>>) EXCEPT !.manifest.type = "other"]}
OddManifests ==
    {[Sample.manifest EXCEPT !.status = "error"], [Sample.manifest EXCEPT !.type = "other"],
     [Sample.manifest EXCEPT !.type = "noJson"], [Sample.manifest EXCEPT !.type = "index"]}
      \cup {[Sample.manifest EXCEPT !.type = "index", !.choices = c] :
              c \in {<<x>> : x \in PlatformChoices} \cup {<<x, y>> : x, y \in PlatformChoices}}
Images ==
    {Sample} \cup {[Sample EXCEPT !.manifest = m] : m \in OddManifests}
      \cup {[Sample EXCEPT !.manifest.layers = <<l, Two>>, !.cache = c] :
              l \in OddLayers, c \in {{}, {One.digest}}}
      \cup {[Sample EXCEPT !.late = t] :
              t \in {"start", "token", "manifest", "layer", "after", "match"}}
      \cup {[Sample EXCEPT !.grant[i] = g] : i \in 1..3,
              g \in [status : {"ok", "error"}, body : {"list", "absent"}, moved : {NoUrl}]}
      \cup {[Sample EXCEPT !.grant[i].moved = u, !.cred.session = s] : i \in 1..3,
              u \in (Places \ {NoUrl}) \cup {[RegistryUrl EXCEPT !.form = f] : f \in {"relative", "garbled"}},
              s \in BOOLEAN}
      \cup {[Sample EXCEPT !.private = p, !.cred = c] : p \in BOOLEAN,
              c \in [ref : {"none", "scheme", "env"}, pointed : BOOLEAN, companions : BOOLEAN,
                     usable : BOOLEAN, session : {FALSE}]}

ImageInit ==
    \/ \E t \in Targets, o \in Options : Given([of |-> "ref", target |-> t, options |-> o])
    \/ \E s \in Stacks : Given([of |-> "image", kind |-> "ghcr", image |-> PulledAs(s)])
    \/ \E k \in RegistryKinds, i \in Images : Given([of |-> "image", kind |-> k, image |-> i])
RunRef == Call("ref", parseContainerImageRef(input.target, input.options))
RunImage == Call("image", execute(input.kind, input.image))

-----------------------------------------------------------------------------
(***************************************************************************)
(* Properties                                                              *)
(***************************************************************************)
\* The image that is pulled is the one the asset names: nothing said of it, by
\* its key, its attributes or the integration, says otherwise, and it is named
\* by a digest.  What a connector writes is never refused.
ImageNeverContradicted ==
    Returned("ref") =>
        LET t == input.target  o == input.options  r == Result IN
        /\ r # Refusal =>
             /\ r.digest \in Digests /\ ~t.endpoint /\ ~o.endpoint
             /\ t.key # NoKey => t.key = [kind |-> r.kind, parts |-> r.parts, digest |-> r.digest]
             /\ \A f \in DOMAIN r.parts : t.attrs[f] \in {Unsaid, r.parts[f]}
             /\ t.attrs.digest \in {Unsaid, r.digest}
             /\ r.kind = "ecr" => /\ {t.attrs.region, o.place} \subseteq {Unsaid, r.place}
                                  /\ t.attrs.region = Unsaid /\ o.place = Unsaid => o.places = {r.place}
             /\ r.kind = "gcr" => o.place \in {Unsaid, r.parts.location}
             /\ r.kind = "acr" => {t.attrs.loginServer, o.place} \subseteq {Unsaid, r.parts.registry}
        /\ \A k \in RegistryKinds : t = Written(k) /\ o = Plain => r # Refusal /\ r.kind = k

\* The files that can be seen once the first n layers are laid over each other,
\* with the layer that wrote them.
Seen(stack, n) ==
    LET tar(i) == ToSet(stack[i].entries)
        hidden(i, path) == \E j \in (i + 1)..n : \E e \in tar(j) :
                             \/ e.type \in {"whiteout", "opaque"} /\ IsPrefix(e.path, path)
                             \/ e.type = "file" /\ e.path = path
    IN UNION {{[file |-> e, by |-> i] : e \in {f \in tar(i) : f.type = "file" /\ ~hidden(i, f.path)}} :
                i \in 1..n}
System(stack, n) == UNION {s.file.content : s \in {x \in Seen(stack, n) : x.file.kind = "os"}}
Since(stack, p) ==
    CHOOSE i \in DOMAIN stack :
      /\ \A n \in i..Len(stack) : p \in System(stack, n)
      /\ i > 1 => p \notin System(stack, i - 1)
Installed(stack) ==
    {[name |-> p.name, version |-> p.version, layer |-> stack[Since(stack, p)].digest] :
       p \in System(stack, Len(stack))}
      \cup UNION {{[name |-> p.name, version |-> p.version, layer |-> stack[s.by].digest] :
                     p \in s.file.content} :
                    s \in {x \in Seen(stack, Len(stack)) : x.file.kind \in {"npm", "meta"}}}
\* A package database that a layer removes, writing none, is not read again; and
\* a download is not compared with its digest.
DatabaseGone(stack) ==
    \E n \in 2..Len(stack) :
      /\ \E s \in Seen(stack, n - 1) \ Seen(stack, n) : s.file.kind = "os"
      /\ \A s \in Seen(stack, n) : s.file.kind = "os" => s.by # n
Forged(image) == \E i \in DOMAIN Chosen(image.manifest).layers :
                   LET l == Chosen(image.manifest).layers[i] IN l.served # l.entries

\* Of the files that cannot be read only an rpm database and a package.json refuse
\* the image: the packages of another database, of a METADATA or of a gemspec are
\* missed, and the scan succeeds.
Illegible(stack) ==
    \E n \in DOMAIN stack : \E s \in Seen(stack, n) :
      s.file.kind \in {"os", "meta"} /\ s.file.text = "unparsable"
Refusable(stack) ==
    \E s \in Seen(stack, Len(stack)) :
      s.file.kind = "rpm" \/ (s.file.kind = "npm" /\ s.file.text = "unparsable")

\* A scan that succeeds reports exactly the packages of the image's file system,
\* each with the layer that brought it, unless one of its databases says nothing
\* legible; and a scan reports nothing otherwise: a layer that is missing, torn, too
\* large, of another format or past the deadline, an rpm database and a
\* package.json that is no JSON refuse the image.
InventoryExact ==
    Returned("image") =>
        LET stack == Chosen(input.image.manifest).layers IN
        /\ Result.done => \A i \in DOMAIN stack : stack[i].digest # Unsaid
        /\ Result.done /\ ~Forged(input.image) => ~Refusable(stack)
        /\ Result.done /\ ~DatabaseGone(stack) /\ ~Forged(input.image) /\ ~Illegible(stack) =>
             Result.items = Installed(stack)
        /\ ~Result.done => Result.items = {}

\* The exchanges whose secret goes along with a redirect: that in the body of a
\* POST, and the session token of a signed request.
GivenAlong(x) ==
    CASE x.kind = "gcr" -> {x.image.grant[1].moved}
      [] x.kind = "acr" -> {x.image.grant[i].moved : i \in 1..3}
      [] x.kind = "ecr" /\ x.image.cred.session -> {x.image.grant[1].moved}
      [] OTHER -> {}

\* The credential and the token it is exchanged for go to the registry of the image's
\* own account, region or name, whatever the redirects say; but for what a
\* redirect of a token endpoint takes along.
TokenStaysHome ==
    Returned("image") => \A u \in Result.dials : AtHome(u) \/ u \in GivenAlong(input)
=============================================================================
