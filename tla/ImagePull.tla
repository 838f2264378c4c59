------------------------------ MODULE ImagePull ------------------------------
(***************************************************************************)
(* The container scanner: the pull of an image by its digest, the unpacking *)
(* of its layers and the inventory of what is installed in it.             *)
(*                                                                         *)
(* image: [cred, private, grant: the token endpoint's answers, manifest,   *)
(*         cache: digests of layers kept from earlier pulls, late: the     *)
(*         first deadline check that fails]                                *)
(* manifest: [status, type: image, index, other or noJson, choices, layers] *)
(* layer: [digest or Unsaid, media, status, to: where a redirect points,   *)
(*         next: the status there, form, served, entries]; served is what  *)
(*         the download holds, entries what the digest stands for          *)
(* entry: [path: a sequence of names, type: file, dir, link, whiteout or   *)
(*         opaque, kind: os, rpm, npm, meta or plain, big,                 *)
(*         text: whole, incomplete (it names no package) or unparsable,    *)
(*         content: the set of [name, version] that are installed by it]   *)
(* A layer writes a path once, and the databases name a package at one    *)
(* version: of several, the code keeps the last.                           *)
(***************************************************************************)
EXTENDS ImageRef, Steps

CONSTANTS
    MaxLayers,      \* MAX_IMAGE_LAYERS
    MaxEntries,     \* MAX_LAYER_FILES
    MaxPackages     \* MAX_INVENTORY_PACKAGES

ASSUME ImagePullAssumption ==
    MaxLayers \in Nat /\ MaxEntries \in Nat /\ MaxPackages \in Nat

InTime(image, check) == Guarded(image.late # check, Empty)

-----------------------------------------------------------------------------
(***************************************************************************)
(* Tokens: each exchange is one answer, ok with or without a token in it,  *)
(* and sent on or not by a redirect.                                       *)
(***************************************************************************)
TokenUrl == [ApiUrl EXCEPT !.path = "token"]
Exchanges(image, redirects) ==
    InOrder([i \in DOMAIN redirects |->
               Then(InTime(image, "token"), Exchange(redirects[i], TokenUrl, image.grant[i]))])

GhcrPullToken(image) ==
    Guarded(IF image.private THEN PullGithub(image.cred) ELSE PullGithubOptional(image.cred),
            Exchanges([image EXCEPT !.late = "never"], <<"strip">>))
EcrPullToken(image) ==
    Guarded(PullAws(image.cred),
            Exchanges(image, <<IF image.cred.session THEN "keep" ELSE "strip">>))
GcrPullToken(image) == Guarded(PullGcp(image.cred), Exchanges(image, <<"keep", "strip">>))
AcrPullToken(image) == Guarded(PullAzure(image.cred), Exchanges(image, <<"keep", "keep", "keep">>))
DockerhubPullToken(image) == Guarded(PullDockerhub(image.cred), Exchanges(image, <<"error">>))
QuayPullToken(image) == Guarded(PullQuay(image.cred), Exchanges(image, <<"error">>))

-----------------------------------------------------------------------------
(***************************************************************************)
(* Manifests and layers                                                    *)
(***************************************************************************)
pickPlatform(choices) ==
    LET rank(c) == IF c.os \notin {"linux", Unsaid} THEN 4
                   ELSE IF c.arch = "amd64" THEN 1 ELSE IF c.arch = "arm64" THEN 2 ELSE 3
        before(i, j) == rank(choices[i]) < rank(choices[j])
                          \/ (rank(choices[i]) = rank(choices[j]) /\ i <= j)
    IN choices[CHOOSE i \in DOMAIN choices : \A j \in DOMAIN choices : before(i, j)]
IsIndex(m) == m.type = "index" /\ m.choices # <<>>
Chosen(m) == IF IsIndex(m) THEN pickPlatform(m.choices).manifest ELSE m

\* getManifest, resolvePlatformManifest, requireImageManifest.
Manifest(image) ==
    LET m == image.manifest
        Get(n) == InOrder(<<InTime(image, "manifest"), [Empty EXCEPT !.dials = {RegistryUrl}],
                            Guarded(n.status = "ok" /\ n.type # "noJson", Empty)>>)
    IN InOrder(<<Get(m),
                 IF IsIndex(m) THEN Guarded(pickPlatform(m.choices).digest # Unsaid, Get(Chosen(m)))
                 ELSE Empty,
                 Guarded(Chosen(m).type = "image" /\ Len(Chosen(m).layers) <= MaxLayers, Empty)>>)

\* The download of a layer: one redirect, with the token only to the registry
\* itself.
Blob(layer, allowed) ==
    InOrder(<<[Empty EXCEPT !.dials = {RegistryUrl}],
              CASE layer.status = "ok" -> Empty
                [] layer.status = "redirect" ->
                     Guarded(layer.to # NoUrl /\ allowed,
                             [Empty EXCEPT !.done = layer.next = "ok",
                                           !.dials = {u \in {layer.to} : u.host = "own"}])
                [] OTHER -> Refused>>)

\* decompressLayer and parseTar: what is not a whole tar throws.
Unpacked(layer) ==
    /\ layer.media # "zstd" /\ layer.form = "tar"
    /\ Len(layer.served) <= MaxEntries
    /\ \A i \in DOMAIN layer.served :
         ~(layer.served[i].type = "file" /\ layer.served[i].big /\ layer.served[i].kind # "plain")

\* The loop of pull: each layer from the cache, or downloaded and unpacked.
Layer(image, layer, got) ==
    InOrder(<<InTime(image, "layer"), Guarded(layer.digest # Unsaid, Empty),
              IF layer.digest \in image.cache THEN Empty
              ELSE Then(got, Guarded(Unpacked(layer), Empty))>>)
Layers(image, Get(_)) ==
    LET layers == Chosen(image.manifest).layers
    IN InOrder([i \in DOMAIN layers |-> Layer(image, layers[i], Get(layers[i]))])

Pull(image, Token(_), Manifests(_), Get(_)) ==
    InOrder(<<InTime(image, "start"), Token(image), Manifests(image), Layers(image, Get)>>)

GhcrManifest(image) == Manifest(image)
GhcrGet(layer) == Blob(layer, GhcrBlob(layer.to))
GhcrPull(image) == Pull(image, GhcrPullToken, GhcrManifest, GhcrGet)
EcrManifest(image) == Manifest(image)
EcrGet(layer) == Blob(layer, EcrBlob(layer.to))
EcrPull(image) == Pull(image, EcrPullToken, EcrManifest, EcrGet)
GcrManifest(image) == Manifest(image)
GcrGet(layer) == Blob(layer, GcrBlob(layer.to))
GcrPull(image) == Pull(image, GcrPullToken, GcrManifest, GcrGet)
AcrManifest(image) == Manifest(image)
AcrGet(layer) == Blob(layer, AcrBlob(layer.to))
AcrPull(image) == Pull(image, AcrPullToken, AcrManifest, AcrGet)
DockerhubManifest(image) == Manifest(image)
DockerhubGet(layer) == Blob(layer, DockerhubBlob(layer.to))
DockerhubPull(image) == Pull(image, DockerhubPullToken, DockerhubManifest, DockerhubGet)
QuayManifest(image) == Manifest(image)
QuayGet(layer) == Blob(layer, QuayBlob(layer.to))
QuayPull(image) == Pull(image, QuayPullToken, QuayManifest, QuayGet)

-----------------------------------------------------------------------------
(***************************************************************************)
(* Inventory: the layers are laid over each other, and the packages read   *)
(* from what remains.                                                      *)
(***************************************************************************)
\* unpackLayer keeps the inventory files, the whiteouts and the opaque
\* directories; applyLayer removes before it adds.
applyLayer(overlay, layer, entries) ==
    LET gone(path) == \E e \in entries : e.type \in {"whiteout", "opaque"} /\ IsPrefix(e.path, path)
        files == {e \in entries : e.type = "file" /\ e.kind # "plain"}
    IN {f \in overlay : ~gone(f.path) /\ \A e \in files : e.path # f.path}
         \cup {[path |-> e.path, kind |-> e.kind, text |-> e.text, content |-> e.content, layer |-> layer] :
                 e \in files}

\* A database or a METADATA that cannot be read says nothing.
Legible(f) == IF f.text = "whole" THEN f.content ELSE {}

\* The databases of the operating system, read again after every layer that
\* wrote one: a package keeps the layer that brought its version.
osPackages(os, overlay, layer) ==
    LET dbs == {f \in overlay : f.kind = "os"}
        Kept(p) == {q \in os : q.name = p.name /\ q.version = p.version}
    IN IF \A f \in dbs : f.layer # layer THEN os
       ELSE UNION {IF Kept(p) # {} THEN Kept(p)
                   ELSE {[name |-> p.name, version |-> p.version, layer |-> layer]} :
                   p \in UNION {Legible(f) : f \in dbs}}

appPackages(overlay) ==
    UNION {{[name |-> p.name, version |-> p.version, layer |-> f.layer] : p \in Legible(f)} :
             f \in {g \in overlay : g.kind \in {"npm", "meta"}}}

\* Mutant: a layer that is already there is added before the rest is removed.
LaidOverAddedFirst(layers) ==
    LET Lay(acc, layer) ==
          LET added == applyLayer(acc.overlay, layer.digest, {e \in layer.entries : e.type = "file"})
              overlay == applyLayer(added, layer.digest, {e \in layer.entries : e.type # "file"})
          IN [overlay |-> overlay, os |-> osPackages(acc.os, overlay, layer.digest)]
    IN FoldLeft(Lay, [overlay |-> {}, os |-> {}], layers)

LaidOver(layers) ==
    LET Lay(acc, layer) ==
          LET overlay == applyLayer(acc.overlay, layer.digest, layer.entries)
          IN [overlay |-> overlay, os |-> osPackages(acc.os, overlay, layer.digest)]
    IN FoldLeft(Lay, [overlay |-> {}, os |-> {}], layers)

\* An rpm database, or a package.json that does not parse, refuses the image.
inventoryImage(layers) ==
    LET laid == LaidOver(layers)
        all == laid.os \cup appPackages(laid.overlay)
    IN Guarded(/\ \A f \in laid.overlay : f.kind # "rpm" /\ ~(f.kind = "npm" /\ f.text = "unparsable")
               /\ Cardinality(all) <= MaxPackages,
               [Empty EXCEPT !.items = all])

\* What the pull hands on: a layer of the cache is as an earlier pull read it.
Snapshots(image) ==
    LET layers == Chosen(image.manifest).layers
    IN [i \in DOMAIN layers |->
          [digest |-> layers[i].digest,
           entries |-> ToSet(IF layers[i].digest \in image.cache THEN layers[i].entries
                             ELSE layers[i].served)]]

scanImage(kind, image) ==
    LET pulled == CASE kind = "ghcr" -> GhcrPull(image) [] kind = "ecr" -> EcrPull(image)
                    [] kind = "gcr" -> GcrPull(image) [] kind = "acr" -> AcrPull(image)
                    [] kind = "dockerhub" -> DockerhubPull(image) [] kind = "quay" -> QuayPull(image)
    IN InOrder(<<pulled, InTime(image, "after"),
                 IF pulled.done THEN inventoryImage(Snapshots(image)) ELSE Refused>>)

\* execute: only images, and all or nothing; match is the check before each
\* package.
execute(kind, image) ==
    LET scanned == scanImage(kind, image)
    IN Whole(Then(scanned, Guarded(image.late # "match" \/ scanned.items = {}, Empty)))
=============================================================================
