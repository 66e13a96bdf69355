------------------------------ MODULE OciStore ------------------------------
(***************************************************************************)
(* An OCI image layout on disk (pkg/oci/layout.go) and what writes it:     *)
(* Build and AddLayer (build.go, addlayer.go), and Pull, which copies an   *)
(* image from a registry (pkg/ociremote).  Operations follow one another;  *)
(* each is a list of steps, any of which may fail and end it.  A document  *)
(* is a record, its SHA-256 digest a value no other document has.          *)
(***************************************************************************)
EXTENDS Integers, Sequences

CONSTANTS Tar,        \* layer contents fsforge may be asked to write
          Served,     \* layer contents the registry's images are made of
          Other,      \* what a registry's descriptors may hold instead of a SHA-256
                      \* digest: another algorithm's, or any other string
          MaxLayers,  \* bound on the layers of an image
          MaxOps      \* bound on the operations of a behaviour

VARIABLES blobs,     \* blobs/sha256: digest -> document, or Torn
          index,     \* index.json: the digest of its manifest, NoIndex or TornIndex
          steps,     \* what the running operation has still to do
          ret,       \* how the last operation ended, "busy" while one runs
          auth,      \* authenticator.do: "idle", "challenged", "retry", "granted"
          token,     \* authenticator.tokens of the scope: "none", "valid", "expired"
          registry,  \* how the registry authenticates
          creds,     \* whether Options names a user
          pinned,    \* history: the digest Pull was asked for, or ByTag
          trail,     \* history: the references fetchManifest has followed, from the
                     \* last one on that is no SHA-256 digest
          ops        \* operations started

store == <<blobs, index>>
net == <<auth, token>>
hist == <<registry, creds, pinned, trail, ops>>
vars == <<store, steps, ret, net, hist>>

Torn == [type |-> "torn"]
Junk == [type |-> "junk"]
NoIndex == <<"absent">>
TornIndex == <<"torn">>
ByTag == <<"tag">>

\* sha256 of a document, without collisions; a reference that begins with "sha256:"
\* is one, no other is.
digest(doc) == <<"sha256", doc>>
isDigest(ref) == ref[1] = "sha256"
Opaque == {<<"other", o>> : o \in Other}

Layer(t, gz) == [type |-> "layer", tar |-> t, gzip |-> gz]
Config(ids) == [type |-> "config", diffIDs |-> ids]
Manifest(cfg, layers) == [type |-> "manifest", config |-> digest(cfg), layers |-> layers]
Index(ref) == [type |-> "index", manifest |-> ref]

\* Images the registry may hold: one compressed layer over another's contents.
ServedManifest(t) == Manifest(Config(<<t>>), <<digest(Layer(t, TRUE))>>)
ServedManifests == {ServedManifest(t) : t \in Served}
\* Manifests Pull cannot use: without layers, or with a layer it cannot verify.
NoLayers == Manifest(Config(<<>>), <<>>)
Unverifiable == {Manifest(Config(<<t>>), <<o>>) : t \in Served, o \in Opaque}
\* Indexes of a manifest, by its digest or otherwise, and indexes of such indexes.
Indexes == {Index(digest(m)) : m \in ServedManifests} \cup {Index(o) : o \in Opaque}
Nested == {Index(digest(x)) : x \in Indexes}
\* An index with no manifest for the wanted platform.
OtherPlatform == Index(<<"none">>)

-----------------------------------------------------------------------------
(* The layout. *)

Put(d, doc) == [x \in DOMAIN blobs \cup {d} |-> IF x = d THEN doc ELSE blobs[x]]

\* Mutant: the temporary file gets the name asked for, not the one computed.
PutBlobStream_trusting(doc, asked) == blobs' = Put(asked, doc)

\* A temporary file is hashed while it is written, then renamed; a failure on
\* the way leaves the layout as it was.  The name it was asked for under plays
\* no part.
PutBlobStream(doc, asked) == blobs' = Put(digest(doc), doc)

\* Mutant: a blob whose name is there already is not written again.
PutBlobBytes_skipped(doc) ==
    blobs' = IF digest(doc) \in DOMAIN blobs THEN blobs ELSE Put(digest(doc), doc)

\* os.WriteFile: when it fails the file may have been cut short.
PutBlobBytes(doc) == blobs' = Put(digest(doc), doc)
PutBlobBytesFails(doc) == blobs' \in {blobs, Put(digest(doc), Torn)}

present(d) == d \in DOMAIN blobs /\ blobs[d] # Torn

\* resolve: the manifest the index names and its config can be read.
resolves ==
    /\ index \notin {NoIndex, TornIndex}
    /\ present(index)
    /\ present(blobs[index].config)

-----------------------------------------------------------------------------
(* Operations begin. *)

stream(doc) == [do |-> "stream", doc |-> doc]
bytes(doc) == [do |-> "bytes", doc |-> doc]
point(doc) == [do |-> "index", doc |-> doc]

\* Mutant: the index is written before the manifest it names.
writeImageMeta_indexEarly(layers, cfg) ==
    << bytes(cfg), point(Manifest(cfg, layers)), bytes(Manifest(cfg, layers)) >>

writeImageMeta(layers, cfg) ==
    << bytes(cfg), bytes(Manifest(cfg, layers)), point(Manifest(cfg, layers)) >>

begin(todo) ==
    /\ ret # "busy"
    /\ ops < MaxOps
    /\ ops' = ops + 1
    /\ ret' = "busy"
    /\ steps' = todo
    /\ UNCHANGED <<store, auth, registry, creds>>

Build(t, gz) ==
    LET todo == <<stream(Layer(t, gz))>>
                \o writeImageMeta(<<digest(Layer(t, gz))>>, Config(<<t>>))
    IN  /\ begin(todo)
        /\ pinned' = ByTag /\ trail' = <<>>
        /\ UNCHANGED token

\* Mutant: the new layer's contents are recorded below the base's.
appended_below(ids, t) == <<t>> \o ids

\* The diff_ids of the new config, bottom to top.
appended(ids, t) == Append(ids, t)

\* AddLayer and AddLayerDiff: the layers of the image in the index and one more.
AddLayer(t, gz) ==
    /\ resolves
    /\ LET man  == blobs[index]
           cfg  == Config(appended(blobs[man.config].diffIDs, t))
           todo == <<stream(Layer(t, gz))>>
                   \o writeImageMeta(Append(man.layers, digest(Layer(t, gz))), cfg)
       IN  /\ Len(man.layers) < MaxLayers
           /\ begin(todo)
           /\ pinned' = ByTag /\ trail' = <<>>
           /\ UNCHANGED token

\* resolve fails: there is no index, or what it names cannot be read.
AddLayerRefused ==
    /\ ret # "busy" /\ ret # "unresolved"
    /\ ~resolves
    /\ ret' = "unresolved"
    /\ UNCHANGED <<store, steps, net, hist>>

\* The reference Pull is given is a tag or a digest.
PullRefs ==
    {ByTag} \cup {digest(doc) : doc \in ServedManifests \cup Unverifiable \cup Indexes \cup Nested}

fetch(d) == [do |-> "manifest", ref |-> d]
copy(d) == [do |-> "copy", ref |-> d]

\* Each pull has a client, and so a token cache, of its own.
Pull(d) ==
    /\ begin(<<fetch(d)>>)
    /\ token' = "none"
    /\ pinned' = d /\ trail' = <<d>>

-----------------------------------------------------------------------------
(* Steps. *)

busy(what) == ret = "busy" /\ steps # <<>> /\ Head(steps).do = what

stop(why) ==
    /\ ret' = why
    /\ steps' = <<>>
    /\ auth' = "idle"

StoreStream ==
    /\ busy("stream")
    /\ PutBlobStream(Head(steps).doc, digest(Head(steps).doc))
    /\ steps' = Tail(steps)
    /\ UNCHANGED <<index, ret, net, hist>>

StoreBytes ==
    /\ busy("bytes")
    /\ PutBlobBytes(Head(steps).doc)
    /\ steps' = Tail(steps)
    /\ UNCHANGED <<index, ret, net, hist>>

\* WriteIndex replaces the one manifest the index named; the operation is over.
WriteIndex ==
    /\ busy("index")
    /\ index' = digest(Head(steps).doc)
    /\ steps' = Tail(steps)
    /\ ret' = IF Tail(steps) = <<>> THEN "ok" ELSE "busy"
    /\ UNCHANGED <<blobs, net, hist>>

WriteFails ==
    /\ ret = "busy"
    /\ steps # <<>>
    /\ \/ busy("stream") /\ UNCHANGED store
       \/ busy("bytes") /\ PutBlobBytesFails(Head(steps).doc) /\ UNCHANGED index
       \/ busy("index") /\ index' \in {index, TornIndex} /\ UNCHANGED blobs
    /\ stop("io")
    /\ UNCHANGED <<token, hist>>

-----------------------------------------------------------------------------
(* A request to the registry: authenticator.do. *)

asking == auth = "idle" /\ (busy("manifest") \/ busy("copy"))

accepts == registry = "open" \/ (registry = "bearer" /\ token = "valid")

\* The first request, with the token of the scope if there is one: answered,
\* answered with an error, refused, or refused with a challenge.
Send ==
    /\ asking
    /\ \/ accepts /\ auth' = "granted" /\ UNCHANGED <<steps, ret>>
       \/ accepts /\ stop("status")
       \/ ~accepts /\ registry = "silent" /\ stop("unauthorized")
       \/ ~accepts /\ registry # "silent" /\ auth' = "challenged" /\ UNCHANGED <<steps, ret>>
    /\ UNCHANGED <<store, token, hist>>

\* Mutant: a token that is there already is sent again.
freshToken_kept == IF token = "none" THEN "valid" ELSE token

\* What the cache holds after fetchToken.
freshToken == "valid"

\* fetchToken for a bearer challenge, the user's name for a basic one.
Authenticate ==
    /\ auth = "challenged"
    /\ \/ /\ registry \in {"bearer", "deny"}
          /\ token' = freshToken
          /\ auth' = "retry"
          /\ UNCHANGED <<steps, ret>>
       \/ /\ registry \in {"bearer", "deny"}
          /\ stop("token")
          /\ UNCHANGED token
       \/ /\ registry = "basic" /\ creds
          /\ auth' = "retry"
          /\ UNCHANGED <<steps, ret, token>>
       \/ /\ registry = "basic" /\ ~creds
          /\ stop("unauthorized")
          /\ UNCHANGED token
    /\ UNCHANGED <<store, hist>>

\* Mutant: every challenge is answered.
Retry_loop ==
    /\ auth = "retry"
    /\ \/ (accepts \/ registry = "basic") /\ auth' = "granted"
       \/ ~(accepts \/ registry = "basic") /\ auth' = "challenged"
    /\ UNCHANGED <<store, steps, ret, token, hist>>

\* The second and last request.
Retry ==
    /\ auth = "retry"
    /\ LET in == accepts \/ registry = "basic"
       IN  \/ in /\ auth' = "granted" /\ UNCHANGED <<steps, ret>>
           \/ ~in /\ stop("unauthorized")
    /\ UNCHANGED <<store, token, hist>>

\* A token lives at least as long as the request it was issued for.
Expire ==
    /\ auth = "idle"
    /\ token = "valid"
    /\ token' = "expired"
    /\ UNCHANGED <<store, steps, ret, auth, hist>>

-----------------------------------------------------------------------------
(* What Pull does with an answer. *)

\* The bytes a registry, or a proxy before it, may send for a manifest.
Bodies ==
    ServedManifests \cup Unverifiable \cup Indexes \cup Nested
    \cup {NoLayers, OtherPlatform, Junk}

\* Mutant: only a reference the caller pinned is verified.
verified_pinnedOnly(ref, body) == ref # pinned \/ ~isDigest(ref) \/ digest(body) = ref

\* get: a document asked for by a SHA-256 digest must have that digest; one asked for
\* by anything else, also by a descriptor of an index, is taken as it comes.
verified(ref, body) == ~isDigest(ref) \/ digest(body) = ref

\* What is left of the trail when fetchManifest calls itself with ref.
followed(ref) == IF isDigest(ref) THEN Append(trail, ref) ELSE <<ref>>

\* The steps that follow a manifest, the config first and the index last.
pullSteps(man) ==
    <<copy(man.config)>>
    \o [i \in 1 .. Len(man.layers) |-> copy(man.layers[i])]
    \o <<bytes(man), point(man)>>

\* fetchManifest: an index leads to what selectPlatform finds in it, which may be an
\* index again.
FetchManifest(body) ==
    /\ auth = "granted" /\ busy("manifest")
    /\ \/ /\ verified(Head(steps).ref, body)
          /\ body.type = "index" /\ body # OtherPlatform
          /\ steps' = <<fetch(body.manifest)>>
          /\ trail' = followed(body.manifest)
          /\ auth' = "idle" /\ UNCHANGED ret
       \/ /\ verified(Head(steps).ref, body)
          /\ body.type = "manifest" /\ body.layers # <<>>
          /\ steps' = pullSteps(body)
          /\ auth' = "idle" /\ UNCHANGED <<ret, trail>>
       \/ /\ \/ ~verified(Head(steps).ref, body)
             \/ body \in {NoLayers, OtherPlatform, Junk}
          /\ stop("manifest")
          /\ UNCHANGED trail
    /\ UNCHANGED <<store, token, registry, creds, pinned, ops>>

\* The bytes it may send for a blob: the right ones or others.
Answers(ref) == {Junk} \cup (IF isDigest(ref) THEN {ref[2]} ELSE {})

\* The size and the digest of what was read are those of the descriptor.
blobMatches(d, got) == digest(got) = d

\* copyBlob: the stream goes to the layout, then its size and digest are compared
\* with the descriptor's; parseDigest must have accepted that before.
CopyBlob(got) ==
    /\ auth = "granted" /\ busy("copy")
    /\ LET d == Head(steps).ref
       IN  \/ /\ ~isDigest(d)
              /\ stop("digest")
              /\ UNCHANGED blobs
           \/ /\ PutBlobStream(got, d)
              /\ isDigest(d) /\ blobMatches(d, got)
              /\ steps' = Tail(steps)
              /\ auth' = "idle" /\ UNCHANGED ret
           \/ /\ PutBlobStream(got, d)
              /\ isDigest(d) /\ ~blobMatches(d, got)
              /\ stop("mismatch")
           \/ /\ UNCHANGED blobs       \* the connection or the disk failed
              /\ stop("io")
    /\ UNCHANGED <<index, token, hist>>

-----------------------------------------------------------------------------
Init ==
    /\ blobs = [d \in {} |-> Torn]
    /\ index = NoIndex
    /\ steps = <<>>
    /\ ret = "none"
    /\ auth = "idle"
    /\ token = "none"
    /\ registry \in {"open", "bearer", "basic", "deny", "silent"}
    /\ creds \in BOOLEAN
    /\ pinned = ByTag /\ trail = <<>>
    /\ ops = 0

Begin ==
    \/ \E t \in Tar, gz \in BOOLEAN : Build(t, gz) \/ AddLayer(t, gz)
    \/ AddLayerRefused
    \/ \E d \in PullRefs : Pull(d)

Step ==
    \/ StoreStream \/ StoreBytes \/ WriteIndex \/ WriteFails
    \/ Send \/ Authenticate \/ Retry
    \/ \E body \in Bodies : FetchManifest(body)
    \/ busy("copy") /\ \E got \in Answers(Head(steps).ref) : CopyBlob(got)

Next == Begin \/ Step \/ Expire

Spec == Init /\ [][Next]_vars /\ WF_vars(Step)

-----------------------------------------------------------------------------
(* Properties. *)

\* Documents an index leads to: its manifest, and what that names.
leadsTo ==
    IF index \in {NoIndex, TornIndex} THEN {}
    ELSE {index, index[2].config} \cup {index[2].layers[i] : i \in 1 .. Len(index[2].layers)}

\* Every blob holds the document its name is the digest of.  Only a config or a
\* manifest can be what a failed os.WriteFile left of it, never a layer, which gets
\* its name by a rename.  The index names a manifest.
ContentAddressed ==
    /\ \A d \in DOMAIN blobs :
          \/ digest(blobs[d]) = d
          \/ blobs[d] = Torn /\ d[2].type \in {"config", "manifest"}
    /\ index \in {NoIndex, TornIndex} \/ index[2].type = "manifest"

\* At every moment, between two steps and after any failure, the index leads
\* only to blobs that are in the layout: Build, AddLayer and Pull all write it
\* last and no operation removes a blob.
IndexLeadsToBlobs == leadsTo \subseteq DOMAIN blobs

\* A successful operation leaves an image that can be flattened, even over a
\* layout in which an earlier one failed: nothing it leads to is torn.
SuccessIsComplete == ret = "ok" => \A d \in leadsTo : present(d)

\* The index never leads to nothing, whatever failed, and after a success it leads
\* to a whole image.
IndexSound == IndexLeadsToBlobs /\ SuccessIsComplete

\* The diff_ids of every stored image are those of its layers, in their order,
\* compressed or not, however many operations it took to stack them.
DiffIDsMatch ==
    \A d \in DOMAIN blobs :
        blobs[d] # Torn /\ blobs[d].type = "manifest" =>
            blobs[d].config[2].diffIDs
                = [i \in 1 .. Len(blobs[d].layers) |-> blobs[d].layers[i][2].tar]

\* Every SHA-256 digest a pull follows, the caller's or one an index names, leads to
\* the document it is of: to the index that names the next reference, and at the end
\* to the manifest that index.json names.  So a pull by digest ends in the image the
\* digest names, unless an index names what it holds by anything else than a SHA-256
\* digest: that is the only other place a trail may begin.
PullIsPinned ==
    ret = "ok" /\ trail # <<>> =>
        /\ \A i \in 1 .. Len(trail) : isDigest(trail[i]) =>
              IF i < Len(trail)
              THEN trail[i][2].type = "index" /\ trail[i][2].manifest = trail[i + 1]
              ELSE trail[i] = index
        /\ isDigest(trail[1]) => trail[1] = pinned

\* A pull is refused for want of authorisation only by a registry that would
\* refuse a fresh token, offers no challenge, or asks for a user nobody named:
\* never because a cached token expired between two blobs.
RefusalIsReal ==
    ret = "unauthorized" =>
        registry \in {"deny", "silent"} \/ (registry = "basic" /\ ~creds)

\* fetchManifest is about to fetch what an index names otherwise than by a digest.
fetchesOther == busy("manifest") /\ Head(steps).ref \in Opaque

\* No operation runs on for ever, with a registry that challenges every request or
\* leads from index to index: digests cannot lead in a circle.  The one exception is a
\* pull that indexes send again and again to a reference that is no digest, which
\* fetchManifest follows without a bound.
OperationEnds == ret = "busy" ~> (ret # "busy" \/ fetchesOther)
=============================================================================
