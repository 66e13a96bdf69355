--------------------------- MODULE OciStoreProofs ---------------------------
(***************************************************************************)
(* Proofs about module OciStore, for any layer contents, any number of     *)
(* operations and of layers: the layout is content-addressed, its index    *)
(* leads to what is stored whatever failed, an image's diff_ids are those  *)
(* of its layers, every digest a pull follows leads to the document it is  *)
(* of, and no pull is refused because a token expired.                     *)
(***************************************************************************)
EXTENDS OciStore, SequenceTheorems, TLAPS

-----------------------------------------------------------------------------
(* The documents a layout can hold. *)

Layers == [type : {"layer"}, tar : Tar \cup Served, gzip : BOOLEAN]
LayerDigests == {digest(l) : l \in Layers}

\* The contents of the layers a manifest lists.
Tars(ls) == [i \in 1 .. Len(ls) |-> ls[i][2].tar]

IsLayer(doc) == doc.type = "layer"
IsConfig(doc) == doc.type = "config" /\ doc = Config(doc.diffIDs)

\* A manifest over layers of this model, its config's diff_ids theirs.
IsManifest(doc) ==
    /\ doc.type = "manifest"
    /\ doc.layers \in Seq(LayerDigests)
    /\ doc = Manifest(Config(Tars(doc.layers)), doc.layers)

IsDoc(doc) == doc = Junk \/ IsLayer(doc) \/ IsConfig(doc) \/ IsManifest(doc)

\* What an index over a manifest leads to.
Names(man) ==
    {digest(man), man.config} \cup {man.layers[i] : i \in 1 .. Len(man.layers)}

-----------------------------------------------------------------------------
(* The inductive invariant. *)

\* Every blob is a document under its digest, or torn; a layer, which is renamed
\* into place, is never torn.
BlobsOK ==
    \A d \in DOMAIN blobs :
        \/ blobs[d] = Torn /\ d[2].type \in {"config", "manifest"}
        \/ digest(blobs[d]) = d /\ IsDoc(blobs[d])

IndexOK ==
    \/ index \in {NoIndex, TornIndex}
    \/ index = digest(index[2]) /\ IsManifest(index[2])

\* The steps that add a blob, and the name of what each adds.
IsStore(s) ==
    \/ s.do = "stream" /\ IsLayer(s.doc)
    \/ s.do = "bytes" /\ (IsConfig(s.doc) \/ IsManifest(s.doc))
    \/ s.do = "copy" /\ s.ref = digest(s.ref[2]) /\ (IsLayer(s.ref[2]) \/ IsConfig(s.ref[2]))
Adds(s) == IF s.do = "copy" THEN s.ref ELSE digest(s.doc)

\* A trail of references that ends in the last one followed: each digest on it is of
\* an index that names the next, and only the first may be what the caller pinned.
LastRef == trail[Len(trail)]
TrailOK ==
    /\ trail \in Seq({trail[i] : i \in 1 .. Len(trail)})
    /\ \A i \in 1 .. Len(trail) - 1 : isDigest(trail[i]) =>
          trail[i][2].type = "index" /\ trail[i][2].manifest = trail[i + 1]
    /\ trail # <<>> /\ isDigest(trail[1]) => trail[1] = pinned

\* The manifest is the one the trail ends in.
Ends(man) == trail # <<>> /\ isDigest(LastRef) => digest(man) = LastRef

\* A pull that still looks for its manifest.
Looking ==
    /\ Len(steps) = 1
    /\ steps[1].do = "manifest"
    /\ trail # <<>> /\ steps[1].ref = LastRef

\* An operation that knows its manifest: the index comes last, and everything it
\* will lead to is whole already or still to be stored.
Storing(man) ==
    /\ IsManifest(man)
    /\ Len(steps) > 0
    /\ steps[Len(steps)] = point(man)
    /\ \A i \in 1 .. Len(steps) - 1 : IsStore(steps[i])
    /\ \A d \in Names(man) : present(d) \/ \E i \in 1 .. Len(steps) - 1 : Adds(steps[i]) = d
    /\ Ends(man)

\* A pull that comes to a descriptor parseDigest refuses before it stores anything but
\* the blobs of others.
Doomed ==
    \E i \in 1 .. Len(steps) :
        /\ steps[i].do = "copy" /\ ~isDigest(steps[i].ref)
        /\ \A j \in 1 .. i - 1 : steps[j].do = "copy" /\ IsStore(steps[j])

StepsOK ==
    /\ steps \in Seq({steps[i] : i \in 1 .. Len(steps)})
    /\ ret = "busy" => Looking \/ Doomed \/ Storing(steps[Len(steps)].doc)

\* A request is under way only for a step that makes one, and the second goes
\* out with a token as fresh as can be.
AuthOK ==
    /\ auth \in {"idle", "challenged", "retry", "granted"}
    /\ auth # "idle" => busy("manifest") \/ busy("copy")
    /\ auth \in {"challenged", "retry"} => registry \in {"bearer", "basic", "deny"}
    /\ auth = "retry" /\ registry # "basic" => token = "valid"

Registries == {"open", "bearer", "basic", "deny", "silent"}

StoreInv ==
    /\ registry \in Registries
    /\ BlobsOK /\ IndexOK /\ TrailOK /\ StepsOK /\ AuthOK
    /\ IndexSound /\ PullIsPinned /\ RefusalIsReal

-----------------------------------------------------------------------------
(* Documents and digests. *)

\* A sequence is one over its own values.
LEMMA SeqOfItsValues ==
    ASSUME NEW S, NEW s \in Seq(S)
    PROVE  s \in Seq({s[i] : i \in 1 .. Len(s)})
<1> DEFINE V == {s[i] : i \in 1 .. Len(s)}
<1>1. Len(s) \in Nat /\ s = [i \in 1 .. Len(s) |-> s[i]]
  OBVIOUS
<1>2. \A i \in 1 .. Len(s) : s[i] \in V
  OBVIOUS
<1> HIDE DEF V
<1>3. s \in [1 .. Len(s) -> V]
  BY <1>1, <1>2, Zenon
<1>4. s \in Seq(V)
  BY <1>1, <1>3
<1> QED BY <1>4 DEF V

\* The digest names one document, and is none of the marks of index and pinned.
LEMMA DigestNames ==
    /\ \A a, b : digest(a) = digest(b) => a = b
    /\ \A a : digest(a)[2] = a /\ isDigest(digest(a)) /\ digest(a) \notin {NoIndex, TornIndex, ByTag}
  BY DEF digest, isDigest, NoIndex, TornIndex, ByTag

\* Only a failed write leaves what Torn stands for.
LEMMA DocIsNotTorn ==
    ASSUME NEW doc, IsDoc(doc)
    PROVE  doc # Torn
  BY DEF IsDoc, IsLayer, IsConfig, IsManifest, Torn, Junk

\* The documents fsforge makes of a layer's contents are of their kind.
LEMMA KindsMade ==
    /\ \A t, gz : IsLayer(Layer(t, gz)) /\ Layer(t, gz).tar = t
    /\ \A ids : IsConfig(Config(ids)) /\ Config(ids).diffIDs = ids
  BY DEF IsLayer, IsConfig, Layer, Config

\* A layer of contents of the model has its digest among those of a manifest.
LEMMA LayerInModel ==
    ASSUME NEW t \in Tar \cup Served, NEW gz \in BOOLEAN
    PROVE  digest(Layer(t, gz)) \in LayerDigests
<1>1. Layer(t, gz) \in Layers
  BY DEF Layers, Layer
<1> QED BY <1>1, Zenon DEF LayerDigests

\* A manifest made over layers of the model, with their contents as diff_ids.
LEMMA ManifestMade ==
    ASSUME NEW ls \in Seq(LayerDigests), NEW ids, ids = Tars(ls)
    PROVE  /\ IsManifest(Manifest(Config(ids), ls))
           /\ Manifest(Config(ids), ls).config = digest(Config(ids))
           /\ Manifest(Config(ids), ls).layers = ls
  BY DEF IsManifest, Manifest

\* The layers of a manifest are digests of layers.
LEMMA ManifestNames ==
    ASSUME NEW man, IsManifest(man)
    PROVE  /\ man.config = digest(Config(Tars(man.layers)))
           /\ man.type = "manifest"
           /\ \A i \in 1 .. Len(man.layers) :
                 man.layers[i] = digest(man.layers[i][2]) /\ IsLayer(man.layers[i][2])
<1>1. man.config = digest(Config(Tars(man.layers))) /\ man.layers \in Seq(LayerDigests)
  BY DEF IsManifest, Manifest
<1>2. ASSUME NEW i \in 1 .. Len(man.layers)
      PROVE  man.layers[i] = digest(man.layers[i][2]) /\ IsLayer(man.layers[i][2])
  <2>1. man.layers[i] \in LayerDigests
    BY <1>1
  <2> QED BY <2>1, DigestNames DEF LayerDigests, Layers, IsLayer
<1> QED BY <1>1, <1>2 DEF IsManifest

-----------------------------------------------------------------------------
(* What a step does to the layout. *)

\* Storing a document under its digest loses nothing and makes it present.
LEMMA PutKeeps ==
    ASSUME BlobsOK, NEW doc, IsDoc(doc), blobs' = Put(digest(doc), doc)
    PROVE  /\ BlobsOK'
           /\ present(digest(doc))'
           /\ \A d : present(d) => present(d)'
           /\ DOMAIN blobs \subseteq DOMAIN blobs'
  BY DocIsNotTorn DEF BlobsOK, Put, present

\* A failed write may tear the blob it was writing, and removes none.
LEMMA TearKeeps ==
    ASSUME BlobsOK, NEW doc, IsConfig(doc) \/ IsManifest(doc), PutBlobBytesFails(doc)
    PROVE  BlobsOK' /\ DOMAIN blobs \subseteq DOMAIN blobs'
  BY DigestNames DEF IsConfig, IsManifest, BlobsOK, Put, PutBlobBytesFails

\* The first of several steps of an operation that knows its manifest is done:
\* what it adds is present, so the rest still covers what the index will lead to.
LEMMA StepDone ==
    ASSUME NEW man, StepsOK, Storing(man), Len(steps) > 1,
           steps' = Tail(steps), trail' = trail,
           \A d : present(d) => present(d)',
           NEW a, a = Adds(steps[1]), present(a)'
    PROVE  Storing(man)' /\ steps'[Len(steps')] = point(man) /\ StepsOK'
<1> DEFINE S == {steps[i] : i \in 1 .. Len(steps)}
<1>1. steps \in Seq(S) /\ steps # <<>>
  BY DEF StepsOK
<1> HIDE DEF S
<1>2. /\ Len(steps') = Len(steps) - 1
      /\ \A i \in 1 .. Len(steps) - 1 : steps'[i] = steps[i + 1]
      /\ Len(steps) \in Nat
      /\ steps' \in Seq(S)
  BY <1>1
<1>3. steps'[Len(steps')] = point(man)
  BY <1>2 DEF Storing
<1>4. \A i \in 1 .. Len(steps') - 1 : IsStore(steps'[i])
  BY <1>2 DEF Storing
<1>5. ASSUME NEW d \in Names(man)
      PROVE  present(d)' \/ \E i \in 1 .. Len(steps') - 1 : Adds(steps'[i]) = d
  <2>1. CASE present(d)
    BY <2>1
  <2>2. CASE ~present(d)
    <3>1. PICK i \in 1 .. Len(steps) - 1 : Adds(steps[i]) = d
      BY <2>2 DEF Storing
    <3>2. CASE i = 1
      BY <3>1, <3>2
    <3>3. CASE i # 1
      <4>1. i - 1 \in 1 .. Len(steps') - 1 /\ steps'[i - 1] = steps[i]
        BY <1>2, <3>3
      <4> QED BY <3>1, <4>1
    <3> QED BY <3>2, <3>3
  <2> QED BY <2>1, <2>2
<1>6. Ends(man)'
  BY DEF Storing, Ends, LastRef
<1>7. Storing(man)'
  BY <1>2, <1>3, <1>4, <1>5, <1>6 DEF Storing
<1>8. steps' \in Seq({steps'[i] : i \in 1 .. Len(steps')})
  <2>1. \A q \in Seq(S) : q \in Seq({q[i] : i \in 1 .. Len(q)})
    BY SeqOfItsValues
  <2> QED BY <1>2, <2>1, Zenon
<1>9. point(man).doc = man
  BY DEF point
<1>10. Storing(steps[Len(steps)].doc)'
  BY <1>3, <1>7, <1>9 DEF Storing, present
<1> QED BY <1>3, <1>7, <1>8, <1>10 DEF StepsOK

-----------------------------------------------------------------------------
(* How the steps of an operation keep the invariant. *)

\* Whatever ends an operation with an error leaves blobs where they were.
LEMMA StopKeeps ==
    ASSUME StoreInv, NEW why, why # "busy", why # "ok", stop(why),
           BlobsOK', DOMAIN blobs \subseteq DOMAIN blobs',
           index' \in {index, TornIndex}, UNCHANGED hist,
           why = "unauthorized" =>
               registry \in {"deny", "silent"} \/ (registry = "basic" /\ ~creds)
    PROVE  StoreInv'
<1>1. IndexOK' /\ TrailOK' /\ registry' \in Registries
  BY DEF StoreInv, IndexOK, TrailOK, hist
<1>2. StepsOK' /\ AuthOK'
  BY DEF stop, StepsOK, AuthOK
<1>3. IndexSound'
  BY DEF StoreInv, IndexSound, IndexLeadsToBlobs, SuccessIsComplete, leadsTo, stop
<1>4. PullIsPinned' /\ RefusalIsReal'
  BY DEF stop, PullIsPinned, RefusalIsReal, hist
<1> QED BY <1>1, <1>2, <1>3, <1>4 DEF StoreInv

\* A step of the authenticator that does not end the operation.
LEMMA QuietKeeps ==
    ASSUME StoreInv, UNCHANGED <<store, steps, ret, hist>>, AuthOK'
    PROVE  StoreInv'
<1>1. BlobsOK' /\ IndexOK' /\ TrailOK' /\ registry' \in Registries
  BY DEF StoreInv, BlobsOK, IndexOK, TrailOK, hist, store
<1>2. StepsOK'
  BY DEF StoreInv, StepsOK, Looking, Doomed, Storing, Ends, LastRef, present, hist, store
<1>3. IndexSound' /\ PullIsPinned' /\ RefusalIsReal'
  BY DEF StoreInv, IndexSound, IndexLeadsToBlobs, SuccessIsComplete, leadsTo,
         PullIsPinned, RefusalIsReal, present, hist, store
<1> QED BY <1>1, <1>2, <1>3 DEF StoreInv

\* A doomed pull copies.
LEMMA DoomedCopies ==
    ASSUME StepsOK, Doomed
    PROVE  /\ Len(steps) \in Nat /\ Len(steps) > 0 /\ Head(steps) = steps[1]
           /\ steps[1].do = "copy"
           /\ isDigest(steps[1].ref) => IsStore(steps[1])
<1>1. PICK i \in 1 .. Len(steps) :
          /\ steps[i].do = "copy" /\ ~isDigest(steps[i].ref)
          /\ \A j \in 1 .. i - 1 : steps[j].do = "copy" /\ IsStore(steps[j])
  BY DEF Doomed
<1>2. Len(steps) \in Nat /\ Len(steps) > 0 /\ Head(steps) = steps[1]
  BY <1>1 DEF StepsOK
<1>3. i = 1 \/ 1 \in 1 .. i - 1
  BY <1>1, <1>2
<1> QED BY <1>1, <1>2, <1>3

\* Once it has copied a blob it is doomed still.
LEMMA DoomedGoesOn ==
    ASSUME StepsOK, Doomed, isDigest(steps[1].ref), steps' = Tail(steps)
    PROVE  StepsOK'
<1> DEFINE S == {steps[i] : i \in 1 .. Len(steps)}
<1>1. steps \in Seq(S) /\ steps # <<>>
  BY DoomedCopies DEF StepsOK
<1> HIDE DEF S
<1>2. /\ Len(steps') = Len(steps) - 1 /\ Len(steps) \in Nat /\ steps' \in Seq(S)
      /\ \A i \in 1 .. Len(steps) - 1 : steps'[i] = steps[i + 1]
  BY <1>1
<1>3. steps' \in Seq({steps'[i] : i \in 1 .. Len(steps')})
  <2>1. \A q \in Seq(S) : q \in Seq({q[i] : i \in 1 .. Len(q)})
    BY SeqOfItsValues
  <2> QED BY <1>2, <2>1, Zenon
<1>4. PICK i \in 1 .. Len(steps) :
          /\ steps[i].do = "copy" /\ ~isDigest(steps[i].ref)
          /\ \A j \in 1 .. i - 1 : steps[j].do = "copy" /\ IsStore(steps[j])
  BY DEF Doomed
<1>5. /\ i # 1 /\ i - 1 \in 1 .. Len(steps') /\ steps'[i - 1] = steps[i]
      /\ \A j \in 1 .. i - 2 : steps'[j] = steps[j + 1] /\ j + 1 \in 1 .. i - 1
  <2>1. PICK n : n = Len(steps)
    OBVIOUS
  <2>2. PICK m : m = Len(steps')
    OBVIOUS
  <2>3. n \in Nat /\ m = n - 1 /\ i \in 1 .. n
    BY <1>2, <1>4, <2>1, <2>2
  <2>4. i # 1
    BY <1>4
  <2>5. i - 1 \in 1 .. m /\ i - 1 \in 1 .. n - 1 /\ (i - 1) + 1 = i
    BY <2>3, <2>4
  <2>6. steps'[i - 1] = steps[(i - 1) + 1]
    BY <1>2, <2>1, <2>5
  <2>7. \A j \in 1 .. i - 2 : j \in 1 .. n - 1 /\ j + 1 \in 1 .. i - 1
    BY <2>3
  <2>8. \A j \in 1 .. i - 2 : steps'[j] = steps[j + 1]
    BY <1>2, <2>1, <2>7
  <2> QED BY <2>2, <2>4, <2>5, <2>6, <2>7, <2>8
<1>6. Doomed'
  <2>1. \A j \in 1 .. (i - 1) - 1 : steps'[j].do = "copy" /\ IsStore(steps'[j])
    BY <1>4, <1>5
  <2> QED BY <1>4, <1>5, <2>1 DEF Doomed
<1> QED BY <1>3, <1>6 DEF StepsOK

\* The first step of an operation that stores: the operation knows its manifest,
\* and the index is still to come.
LEMMA FirstStep ==
    ASSUME StoreInv, NEW what \in {"stream", "bytes", "copy"}, busy(what),
           what = "copy" => ~Doomed
    PROVE  /\ Storing(steps[Len(steps)].doc)
           /\ Len(steps) > 1
           /\ IsStore(steps[1]) /\ steps[1].do = what /\ Head(steps) = steps[1]
<1>1. steps \in Seq({steps[i] : i \in 1 .. Len(steps)}) /\ steps # <<>> /\ StepsOK
  BY DEF StoreInv, StepsOK, busy
<1>2. Len(steps) \in Nat /\ Len(steps) > 0 /\ Head(steps) = steps[1]
  BY <1>1
<1>3. Storing(steps[Len(steps)].doc)
  <2>1. ~Doomed
    BY <1>1, <1>2, DoomedCopies DEF busy
  <2> QED BY <1>1, <1>2, <2>1 DEF StepsOK, Looking, busy
<1>4. Len(steps) # 1
  BY <1>2, <1>3 DEF Storing, point, busy
<1>5. 1 \in 1 .. Len(steps) - 1
  <2>1. PICK n : n = Len(steps)
    OBVIOUS
  <2>2. n \in Nat /\ n > 0 /\ n # 1
    BY <1>2, <1>4, <2>1
  <2>3. 1 \in 1 .. n - 1
    BY <2>2
  <2> QED BY <2>1, <2>3
<1>6. IsStore(steps[1])
  BY <1>3, <1>5 DEF Storing
<1>7. steps[1].do = what
  BY <1>2 DEF busy
<1>8. Len(steps) > 1
  <2>1. PICK n : n = Len(steps)
    OBVIOUS
  <2>2. n \in Nat /\ n > 0 /\ n # 1
    BY <1>2, <1>4, <2>1
  <2> QED BY <2>1, <2>2
<1> QED BY <1>2, <1>3, <1>6, <1>7, <1>8, Zenon

\* A blob is stored and the operation goes on, with steps that are in order.
LEMMA BlobKept ==
    ASSUME StoreInv, ret = "busy", NEW doc, IsDoc(doc), blobs' = Put(digest(doc), doc),
           StepsOK', UNCHANGED <<index, ret, hist>>, auth' = "idle"
    PROVE  StoreInv'
<1>1. /\ BlobsOK' /\ present(digest(doc))' /\ DOMAIN blobs \subseteq DOMAIN blobs'
      /\ \A d : present(d) => present(d)'
  BY PutKeeps DEF StoreInv
<1>2. IndexOK' /\ TrailOK' /\ AuthOK' /\ registry' \in Registries
  BY DEF StoreInv, IndexOK, TrailOK, AuthOK, hist
<1>3. IndexSound' /\ PullIsPinned' /\ RefusalIsReal'
  BY <1>1 DEF StoreInv, IndexSound, IndexLeadsToBlobs, SuccessIsComplete, leadsTo,
              PullIsPinned, RefusalIsReal, hist
<1> QED BY <1>1, <1>2, <1>3 DEF StoreInv

\* An operation that knows its manifest stores the next blob it needs.
LEMMA MoveKeeps ==
    ASSUME StoreInv, ret = "busy", Storing(steps[Len(steps)].doc), Len(steps) > 1,
           NEW doc, IsDoc(doc), Adds(steps[1]) = digest(doc),
           blobs' = Put(digest(doc), doc), steps' = Tail(steps),
           UNCHANGED <<index, ret, hist>>, auth' = "idle"
    PROVE  StoreInv'
<1>1. present(digest(doc))' /\ \A d : present(d) => present(d)'
  BY PutKeeps DEF StoreInv
<1>2. StepsOK'
  <2>1. PICK man : man = steps[Len(steps)].doc
    OBVIOUS
  <2>2. PICK a : a = digest(doc)
    OBVIOUS
  <2>3. present(a)'
    BY <1>1, <2>2 DEF present
  <2>4. Storing(man) /\ StepsOK /\ trail' = trail
    BY <2>1 DEF StoreInv, hist
  <2> QED BY <1>1, <2>2, <2>3, <2>4, StepDone
<1> QED BY <1>2, BlobKept

\* A layer is streamed into the layout.
LEMMA StoreStreamKeeps ==
    ASSUME StoreInv, StoreStream
    PROVE  StoreInv'
<1>1. busy("stream") /\ ret = "busy"
  BY DEF StoreStream, busy
<1>2. /\ Storing(steps[Len(steps)].doc) /\ Len(steps) > 1
      /\ IsStore(steps[1]) /\ steps[1].do = "stream" /\ Head(steps) = steps[1]
  BY <1>1, FirstStep
<1>3. PICK doc : doc = steps[1].doc
  OBVIOUS
<1>4. IsDoc(doc) /\ Adds(steps[1]) = digest(doc)
  BY <1>2, <1>3 DEF IsStore, Adds, IsDoc
<1>5. auth = "idle" /\ auth' = auth
  BY <1>1 DEF StoreInv, AuthOK, busy, StoreStream, net
<1>6. blobs' = Put(digest(doc), doc) /\ steps' = Tail(steps) /\ UNCHANGED <<index, ret, hist>>
  BY <1>2, <1>3 DEF StoreStream, PutBlobStream
<1> QED BY <1>1, <1>2, <1>4, <1>5, <1>6, MoveKeeps

\* A config or a manifest is written.
LEMMA StoreBytesKeeps ==
    ASSUME StoreInv, StoreBytes
    PROVE  StoreInv'
<1>1. busy("bytes") /\ ret = "busy"
  BY DEF StoreBytes, busy
<1>2. /\ Storing(steps[Len(steps)].doc) /\ Len(steps) > 1
      /\ IsStore(steps[1]) /\ steps[1].do = "bytes" /\ Head(steps) = steps[1]
  BY <1>1, FirstStep
<1>3. PICK doc : doc = steps[1].doc
  OBVIOUS
<1>4. IsDoc(doc) /\ Adds(steps[1]) = digest(doc)
  BY <1>2, <1>3 DEF IsStore, Adds, IsDoc
<1>5. auth = "idle" /\ auth' = auth
  BY <1>1 DEF StoreInv, AuthOK, busy, StoreBytes, net
<1>6. blobs' = Put(digest(doc), doc) /\ steps' = Tail(steps) /\ UNCHANGED <<index, ret, hist>>
  BY <1>2, <1>3 DEF StoreBytes, PutBlobBytes
<1> QED BY <1>1, <1>2, <1>4, <1>5, <1>6, MoveKeeps

\* The index is written when everything it leads to is whole.
LEMMA WriteIndexKeeps ==
    ASSUME StoreInv, WriteIndex
    PROVE  StoreInv'
<1> DEFINE man == steps[Len(steps)].doc
<1>1. /\ steps \in Seq({steps[i] : i \in 1 .. Len(steps)}) /\ steps # <<>>
      /\ ret = "busy" /\ Head(steps).do = "index"
  BY DEF StoreInv, StepsOK, WriteIndex, busy
<1>2. Len(steps) \in Nat /\ Len(steps) > 0 /\ Head(steps) = steps[1]
  BY <1>1
<1>3. Storing(man)
  BY <1>1, <1>2, DoomedCopies DEF StoreInv, StepsOK, Looking
<1> HIDE DEF man
<1>4. Len(steps) = 1
  <2>1. 1 \in 1 .. Len(steps) - 1 => IsStore(steps[1])
    BY <1>3 DEF Storing
  <2>2. ~IsStore(steps[1])
    BY <1>1, <1>2 DEF IsStore
  <2>3. 1 \notin 1 .. Len(steps) - 1
    BY <2>1, <2>2, Zenon
  <2>4. PICK n : n = Len(steps)
    OBVIOUS
  <2>5. n \in Nat /\ n > 0 /\ 1 \notin 1 .. n - 1
    BY <1>2, <2>3, <2>4
  <2> QED BY <2>4, <2>5
<1>5. Head(steps).doc = man /\ Tail(steps) = <<>>
  <2>1. Head(steps).doc = man
    BY <1>2, <1>4 DEF man
  <2>2. Tail(steps) \in Seq({steps[i] : i \in 1 .. Len(steps)}) /\ Len(Tail(steps)) = 0
    BY <1>1, <1>4
  <2>3. \A S : \A q \in Seq(S) : Len(q) = 0 => q = <<>>
    OBVIOUS
  <2> QED BY <2>1, <2>2, <2>3, Zenon
<1>6. /\ index' = digest(man) /\ steps' = <<>> /\ ret' = "ok"
      /\ blobs' = blobs /\ auth' = auth /\ token' = token
      /\ registry' = registry /\ creds' = creds /\ pinned' = pinned /\ trail' = trail
  BY <1>5 DEF WriteIndex, net, hist
<1>7. IsManifest(man) /\ \A d \in Names(man) : present(d)
  BY <1>3, <1>4 DEF Storing
<1>8. leadsTo' = Names(man)
  BY <1>6, DigestNames DEF leadsTo, Names
<1>9. BlobsOK' /\ IndexOK' /\ TrailOK' /\ registry' \in Registries
  BY <1>6, <1>7, DigestNames DEF StoreInv, BlobsOK, IndexOK, TrailOK
<1>10. StepsOK' /\ AuthOK'
  BY <1>1, <1>6 DEF StoreInv, StepsOK, AuthOK, busy
<1>11. IndexSound'
  BY <1>6, <1>7, <1>8 DEF IndexSound, IndexLeadsToBlobs, SuccessIsComplete, present
<1>12. PullIsPinned' /\ RefusalIsReal'
  <2>1. ASSUME trail # <<>>, NEW i \in 1 .. Len(trail), isDigest(trail[i])
        PROVE  IF i < Len(trail)
               THEN trail[i][2].type = "index" /\ trail[i][2].manifest = trail[i + 1]
               ELSE trail[i] = digest(man)
    <3>0. TrailOK
      BY DEF StoreInv
    <3>1. Len(trail) \in Nat /\ TrailOK
      <4>1. PICK S : trail \in Seq(S)
        BY <3>0 DEF TrailOK
      <4> QED BY <3>0, <4>1
    <3>2. CASE i < Len(trail)
      <4>1. i \in 1 .. Len(trail) - 1
        BY <3>1, <3>2
      <4> QED BY <2>1, <3>1, <3>2, <4>1 DEF TrailOK
    <3>3. CASE ~(i < Len(trail))
      <4>1. i = Len(trail)
        BY <3>1, <3>3
      <4> QED BY <1>3, <2>1, <3>3, <4>1 DEF Storing, Ends, LastRef
    <3> QED BY <3>2, <3>3
  <2> QED BY <1>6, <2>1 DEF StoreInv, TrailOK, PullIsPinned, RefusalIsReal
<1> QED BY <1>9, <1>10, <1>11, <1>12 DEF StoreInv

\* A write fails: a config or a manifest may be torn, the index too.
LEMMA WriteFailsKeeps ==
    ASSUME StoreInv, WriteFails
    PROVE  StoreInv'
<1>1. stop("io") /\ UNCHANGED hist
  BY DEF WriteFails
<1>2. BlobsOK' /\ DOMAIN blobs \subseteq DOMAIN blobs' /\ index' \in {index, TornIndex}
  <2>1. CASE busy("stream") /\ UNCHANGED store
    BY <2>1 DEF StoreInv, BlobsOK, store
  <2>2. CASE busy("bytes") /\ PutBlobBytesFails(Head(steps).doc) /\ UNCHANGED index
    <3>1. IsStore(steps[1]) /\ steps[1].do = "bytes" /\ Head(steps) = steps[1]
      BY <2>2, FirstStep
    <3>2. PICK doc : doc = steps[1].doc
      OBVIOUS
    <3>3. (IsConfig(doc) \/ IsManifest(doc)) /\ PutBlobBytesFails(doc)
      BY <2>2, <3>1, <3>2 DEF IsStore
    <3> QED BY <2>2, <3>3, TearKeeps DEF StoreInv
  <2>3. CASE busy("index") /\ index' \in {index, TornIndex} /\ UNCHANGED blobs
    BY <2>3 DEF StoreInv, BlobsOK
  <2> QED BY <2>1, <2>2, <2>3 DEF WriteFails
<1> QED BY <1>1, <1>2, StopKeeps

-----------------------------------------------------------------------------
(* How the requests of a pull keep the invariant. *)

\* The first request: only an answered or a challenged one goes on.
LEMMA SendKeeps ==
    ASSUME StoreInv, Send
    PROVE  StoreInv'
<1>1. /\ BlobsOK /\ AuthOK /\ auth = "idle" /\ (busy("manifest") \/ busy("copy"))
      /\ UNCHANGED <<store, token, hist>> /\ registry \in Registries
  BY DEF StoreInv, Send, asking
<1>2. BlobsOK' /\ DOMAIN blobs \subseteq DOMAIN blobs' /\ index' = index
      /\ registry' = registry
  BY <1>1 DEF BlobsOK, store, hist
<1>3. CASE UNCHANGED <<steps, ret>>
  <2>1. \/ auth' = "granted"
        \/ auth' = "challenged" /\ registry \in {"bearer", "basic", "deny"}
        \/ auth' = "idle"
    BY <1>1 DEF Send, accepts, stop, Registries
  <2>2. (busy("manifest") \/ busy("copy"))'
    BY <1>1, <1>3 DEF busy
  <2>3. AuthOK'
    BY <1>2, <2>1, <2>2 DEF AuthOK
  <2> QED BY <1>1, <1>3, <2>3, QuietKeeps
<1>4. CASE stop("status")
  BY <1>1, <1>2, <1>4, StopKeeps
<1>5. CASE registry = "silent" /\ stop("unauthorized")
  BY <1>1, <1>2, <1>5, StopKeeps
<1> QED BY <1>3, <1>4, <1>5 DEF Send

\* A challenge is answered with a fresh token or the name of a user.
LEMMA AuthenticateKeeps ==
    ASSUME StoreInv, Authenticate
    PROVE  StoreInv'
<1>1. /\ BlobsOK /\ AuthOK /\ auth = "challenged" /\ UNCHANGED <<store, hist>>
  BY DEF StoreInv, Authenticate
<1>2. BlobsOK' /\ DOMAIN blobs \subseteq DOMAIN blobs' /\ index' = index
      /\ registry' = registry
  BY <1>1 DEF BlobsOK, store, hist
<1>3. CASE /\ UNCHANGED <<steps, ret>> /\ auth' = "retry"
           /\ registry = "basic" \/ token' = "valid"
  <2>1. (busy("manifest") \/ busy("copy"))'
    BY <1>1, <1>3 DEF AuthOK, busy
  <2>2. AuthOK'
    BY <1>1, <1>2, <1>3, <2>1 DEF AuthOK
  <2> QED BY <1>1, <1>3, <2>2, QuietKeeps
<1>4. CASE stop("token")
  BY <1>1, <1>2, <1>4, StopKeeps
<1>5. CASE registry = "basic" /\ ~creds /\ stop("unauthorized")
  BY <1>1, <1>2, <1>5, StopKeeps
<1> QED BY <1>3, <1>4, <1>5 DEF Authenticate, freshToken

\* The second request is refused only by a registry that refuses a fresh token.
LEMMA RetryKeeps ==
    ASSUME StoreInv, Retry
    PROVE  StoreInv'
<1>1. /\ BlobsOK /\ AuthOK /\ auth = "retry" /\ UNCHANGED <<store, token, hist>>
  BY DEF StoreInv, Retry
<1>2. BlobsOK' /\ DOMAIN blobs \subseteq DOMAIN blobs' /\ index' = index
      /\ registry' = registry
  BY <1>1 DEF BlobsOK, store, hist
<1>3. CASE auth' = "granted" /\ UNCHANGED <<steps, ret>>
  <2>1. (busy("manifest") \/ busy("copy"))'
    BY <1>1, <1>3 DEF AuthOK, busy
  <2>2. AuthOK'
    BY <1>1, <1>2, <1>3, <2>1 DEF AuthOK
  <2> QED BY <1>1, <1>3, <2>2, QuietKeeps
<1>4. CASE ~(accepts \/ registry = "basic") /\ stop("unauthorized")
  <2>1. registry = "deny"
    BY <1>1, <1>4 DEF AuthOK, accepts
  <2> QED BY <1>1, <1>2, <1>4, <2>1, StopKeeps
<1> QED BY <1>3, <1>4 DEF Retry

\* A token expires between two requests, never during one.
LEMMA ExpireKeeps ==
    ASSUME StoreInv, Expire
    PROVE  StoreInv'
<1>1. UNCHANGED <<store, steps, ret, auth, hist>> /\ auth = "idle"
  BY DEF Expire
<1>2. AuthOK'
  BY <1>1 DEF AuthOK
<1> QED BY <1>1, <1>2, QuietKeeps

\* A blob is copied: it is what its descriptor names, or the pull ends.
LEMMA CopyBlobKeeps ==
    ASSUME StoreInv, busy("copy"), NEW got \in Answers(Head(steps).ref), CopyBlob(got)
    PROVE  StoreInv'
<1>1. /\ IsStore(steps[1]) \/ ~isDigest(steps[1].ref)
      /\ steps[1].do = "copy" /\ Head(steps) = steps[1]
      /\ Doomed \/ (Storing(steps[Len(steps)].doc) /\ Len(steps) > 1)
  BY FirstStep, DoomedCopies DEF StoreInv
<1>2. PICK d : d = steps[1].ref
  OBVIOUS
<1>3. isDigest(d) => d = digest(d[2]) /\ IsDoc(d[2]) /\ Adds(steps[1]) = d
  BY <1>1, <1>2 DEF IsStore, IsDoc, Adds
<1>4. got = Junk \/ (isDigest(d) /\ got = d[2])
  BY <1>1, <1>2 DEF Answers
<1>5. IsDoc(got) /\ ret = "busy" /\ BlobsOK /\ StepsOK /\ UNCHANGED <<index, hist>>
  BY <1>3, <1>4 DEF busy, StoreInv, CopyBlob, IsDoc
<1>6. CASE /\ PutBlobStream(got, d) /\ isDigest(d) /\ blobMatches(d, got)
           /\ steps' = Tail(steps) /\ auth' = "idle" /\ UNCHANGED ret
  <2>1. digest(got) = d /\ blobs' = Put(digest(got), got)
    BY <1>6 DEF blobMatches, PutBlobStream
  <2>2. Adds(steps[1]) = digest(got) /\ UNCHANGED <<index, ret, hist>>
    BY <1>3, <1>5, <1>6, <2>1
  <2>3. CASE Storing(steps[Len(steps)].doc) /\ Len(steps) > 1
    BY <1>5, <1>6, <2>1, <2>2, <2>3, MoveKeeps
  <2>4. CASE Doomed
    <3>1. StepsOK'
      BY <1>2, <1>5, <1>6, <2>4, DoomedGoesOn
    <3> QED BY <1>5, <1>6, <2>1, <2>2, <3>1, BlobKept
  <2> QED BY <1>1, <2>3, <2>4
<1>7. CASE PutBlobStream(got, d) /\ stop("mismatch")
  <2>1. BlobsOK' /\ DOMAIN blobs \subseteq DOMAIN blobs'
    BY <1>5, <1>7, PutKeeps DEF PutBlobStream
  <2> QED BY <1>5, <1>7, <2>1, StopKeeps
<1>8. CASE UNCHANGED blobs /\ (stop("io") \/ stop("digest"))
  <2>1. BlobsOK' /\ DOMAIN blobs \subseteq DOMAIN blobs'
    BY <1>5, <1>8 DEF BlobsOK
  <2> QED BY <1>5, <1>8, <2>1, StopKeeps
<1> QED BY <1>1, <1>2, <1>6, <1>7, <1>8 DEF CopyBlob

-----------------------------------------------------------------------------
(* How an operation starts, or a pull learns its manifest. *)

\* An operation takes up new steps: the layout is as it was.
LEMMA TakeUpKeeps ==
    ASSUME StoreInv, UNCHANGED <<store, registry, creds>>, TrailOK', StepsOK',
           ret' = "busy", auth' = "idle"
    PROVE  StoreInv'
<1>1. BlobsOK' /\ IndexOK' /\ AuthOK' /\ registry' \in Registries
  BY DEF StoreInv, BlobsOK, IndexOK, AuthOK, store
<1>2. IndexSound' /\ PullIsPinned' /\ RefusalIsReal'
  BY DEF StoreInv, IndexSound, IndexLeadsToBlobs, SuccessIsComplete, leadsTo,
         PullIsPinned, RefusalIsReal, store
<1> QED BY <1>1, <1>2 DEF StoreInv

\* Short sequences, written out.
LEMMA Splice ==
    ASSUME NEW a, NEW b, NEW c, NEW d
    PROVE  /\ <<a>> \o <<b, c, d>> = <<a, b, c, d>>
           /\ <<a>> \o <<b>> \o <<c, d>> = <<a, b, c, d>>
<1> DEFINE S == {a, b, c, d}
<1>1. /\ <<a>> \in Seq(S) /\ <<b>> \in Seq(S) /\ <<a, b>> \in Seq(S) /\ <<c, d>> \in Seq(S)
      /\ <<b, c, d>> \in Seq(S) /\ <<a, b, c, d>> \in Seq(S)
  OBVIOUS
<1> HIDE DEF S
<1>2. <<a>> \o <<b, c, d>> = <<a, b, c, d>>
  <2>1. <<a>> \o <<b, c, d>> \in Seq(S) /\ Len(<<a>> \o <<b, c, d>>) = 4 /\ Len(<<a, b, c, d>>) = 4
    BY <1>1
  <2>2. \A i \in 1 .. 4 : (<<a>> \o <<b, c, d>>)[i] = <<a, b, c, d>>[i]
    BY <1>1
  <2> QED BY <1>1, <2>1, <2>2, SeqEqual
<1>3. <<a>> \o <<b>> = <<a, b>>
  <2>1. <<a>> \o <<b>> \in Seq(S) /\ Len(<<a>> \o <<b>>) = 2 /\ Len(<<a, b>>) = 2
    BY <1>1
  <2>2. \A i \in 1 .. 2 : (<<a>> \o <<b>>)[i] = <<a, b>>[i]
    BY <1>1
  <2> QED BY <1>1, <2>1, <2>2, SeqEqual
<1>4. <<a, b>> \o <<c, d>> = <<a, b, c, d>>
  <2>1. <<a, b>> \o <<c, d>> \in Seq(S) /\ Len(<<a, b>> \o <<c, d>>) = 4 /\ Len(<<a, b, c, d>>) = 4
    BY <1>1
  <2>2. \A i \in 1 .. 4 : (<<a, b>> \o <<c, d>>)[i] = <<a, b, c, d>>[i]
    BY <1>1
  <2> QED BY <1>1, <2>1, <2>2, SeqEqual
<1> QED BY <1>2, <1>3, <1>4, Zenon

\* What follows a manifest of one layer.
LEMMA OneLayerSteps ==
    ASSUME NEW man, NEW S, man.layers \in Seq(S), Len(man.layers) = 1
    PROVE  pullSteps(man) = <<copy(man.config), copy(man.layers[1]), bytes(man), point(man)>>
<1>1. \A q \in Seq(S) : Len(q) = 1 => [i \in 1 .. Len(q) |-> copy(q[i])] = <<copy(q[1])>>
  OBVIOUS
<1>2. [i \in 1 .. Len(man.layers) |-> copy(man.layers[i])] = <<copy(man.layers[1])>>
  BY <1>1, Zenon
<1>3. <<copy(man.config)>> \o <<copy(man.layers[1])>> \o <<bytes(man), point(man)>>
        = <<copy(man.config), copy(man.layers[1]), bytes(man), point(man)>>
  BY Splice, Zenon
<1> QED BY <1>2, <1>3, Zenon DEF pullSteps

\* The manifests a registry serves are images of one layer.
LEMMA ServedAreManifests ==
    ASSUME NEW man \in ServedManifests
    PROVE  /\ IsManifest(man) /\ Len(man.layers) = 1 /\ man.layers # <<>>
           /\ pullSteps(man)
                = <<copy(man.config), copy(man.layers[1]), bytes(man), point(man)>>
<1>1. PICK t \in Served : man = ServedManifest(t)
  BY DEF ServedManifests
<1> DEFINE ls == <<digest(Layer(t, TRUE))>>
<1>2. ls \in Seq(LayerDigests) /\ Len(ls) = 1
  <2>1. digest(Layer(t, TRUE)) \in LayerDigests
    BY LayerInModel
  <2>2. \A S : \A d \in S : <<d>> \in Seq(S) /\ Len(<<d>>) = 1
    OBVIOUS
  <2> QED BY <2>1, <2>2, Zenon
<1>3. Tars(ls) = <<t>>
  <2>1. \A x : Len(<<x>>) = 1 /\ <<x>>[1] = x
    OBVIOUS
  <2>2. Len(ls) = 1 /\ ls[1] = digest(Layer(t, TRUE))
    BY <2>1, Zenon
  <2> HIDE DEF ls
  <2>5. ls[1][2].tar = t
    <3>1. PICK l : l = Layer(t, TRUE)
      OBVIOUS
    <3>2. l.tar = t
      BY <3>1, KindsMade, Zenon
    <3>3. ls[1][2] = l
      BY <2>2, <3>1, DigestNames, Zenon
    <3> QED BY <3>2, <3>3
  <2>6. \A i \in 1 .. 1 : i = 1
    OBVIOUS
  <2>7. \A i \in 1 .. 1 : ls[i][2].tar = t
    BY <2>5, <2>6, Zenon
  <2>3. Tars(ls) = [i \in 1 .. 1 |-> t]
    BY <2>2, <2>7, Zenon DEF Tars
  <2>4. [i \in 1 .. 1 |-> t] = <<t>>
    OBVIOUS
  <2> QED BY <2>3, <2>4, Zenon
<1> HIDE DEF ls
<1>4. IsManifest(man) /\ man.layers = ls
  BY <1>1, <1>2, <1>3, ManifestMade DEF ServedManifest, ls
<1>5. pullSteps(man) = <<copy(man.config), copy(man.layers[1]), bytes(man), point(man)>>
  BY <1>2, <1>4, OneLayerSteps
<1> QED BY <1>2, <1>4, <1>5

\* Three steps that store all an index leads to that is not whole yet, and the
\* index.
LEMMA PlanCovers ==
    ASSUME NEW a, NEW b, NEW c, NEW man, IsManifest(man),
           steps' = <<a, b, c, point(man)>>, IsStore(a), IsStore(b), IsStore(c),
           \A d \in Names(man) : present(d)' \/ d \in {Adds(a), Adds(b), Adds(c)},
           Ends(man)'
    PROVE  StepsOK'
<1>1. /\ Len(steps') = 4 /\ steps'[4] = point(man)
      /\ steps'[1] = a /\ steps'[2] = b /\ steps'[3] = c
  OBVIOUS
<1>2. \A i \in 1 .. Len(steps') - 1 : IsStore(steps'[i])
  BY <1>1
<1>3. ASSUME NEW d \in Names(man)
      PROVE  present(d)' \/ \E i \in 1 .. Len(steps') - 1 : Adds(steps'[i]) = d
  BY <1>1
<1>4. steps'[Len(steps')].doc = man
  BY <1>1 DEF point
<1>5. steps' \in Seq({steps'[i] : i \in 1 .. Len(steps')})
  <2>1. PICK q : q = steps'
    OBVIOUS
  <2>2. q \in Seq({a, b, c, point(man)})
    BY <2>1
  <2> QED BY <2>1, <2>2, SeqOfItsValues
<1>6. Storing(steps[Len(steps)].doc)'
  BY <1>1, <1>2, <1>3, <1>4 DEF Storing
<1> QED BY <1>5, <1>6 DEF StepsOK

\* After its manifest a pull copies all that the index will lead to.
LEMMA PullCovers ==
    ASSUME NEW man \in ServedManifests, steps' = pullSteps(man),
           Ends(man)'
    PROVE  StepsOK'
<1>1. /\ IsManifest(man) /\ Len(man.layers) = 1
      /\ steps' = <<copy(man.config), copy(man.layers[1]), bytes(man), point(man)>>
  BY ServedAreManifests
<1>2. IsStore(copy(man.config)) /\ IsStore(copy(man.layers[1])) /\ IsStore(bytes(man))
  BY <1>1, ManifestNames, KindsMade, DigestNames DEF IsStore, copy, bytes
<1>3. /\ Adds(copy(man.config)) = man.config /\ Adds(copy(man.layers[1])) = man.layers[1]
      /\ Adds(bytes(man)) = digest(man)
  BY DEF Adds, copy, bytes
<1>4. Names(man) = {man.config, man.layers[1], digest(man)}
  BY <1>1 DEF Names
<1> QED BY <1>1, <1>2, <1>3, <1>4, PlanCovers

\* A manifest with a layer that no digest names dooms the pull.
LEMMA UnverifiableDooms ==
    ASSUME NEW man \in Unverifiable, steps' = pullSteps(man)
    PROVE  StepsOK'
<1>1. PICK t \in Served, o \in Opaque : man = Manifest(Config(<<t>>), <<o>>)
  BY DEF Unverifiable
<1>2. man.config = digest(Config(<<t>>)) /\ man.layers = <<o>> /\ ~isDigest(o)
  BY <1>1 DEF Manifest, Opaque, isDigest
<1>3. man.layers \in Seq({o}) /\ Len(man.layers) = 1 /\ man.layers[1] = o
  BY <1>2
<1>4. steps' = <<copy(man.config), copy(o), bytes(man), point(man)>>
  BY <1>3, OneLayerSteps
<1>5. Len(steps') = 4 /\ steps'[1] = copy(man.config) /\ steps'[2] = copy(o)
  BY <1>4
<1>6. copy(man.config).do = "copy" /\ IsStore(copy(man.config))
  BY <1>2, KindsMade, DigestNames DEF IsStore, copy
<1>7. copy(o).do = "copy" /\ ~isDigest(copy(o).ref)
  BY <1>2 DEF copy
<1>8. Doomed'
  <2>1. 2 \in 1 .. Len(steps') /\ \A j \in 1 .. 2 - 1 : j = 1
    BY <1>5
  <2> QED BY <1>5, <1>6, <1>7, <2>1 DEF Doomed
<1>9. steps' \in Seq({steps'[i] : i \in 1 .. Len(steps')})
  <2>1. PICK q : q = steps'
    OBVIOUS
  <2>2. q \in Seq({copy(man.config), copy(o), bytes(man), point(man)})
    BY <1>4, <2>1
  <2> QED BY <2>1, <2>2, SeqOfItsValues
<1> QED BY <1>8, <1>9 DEF StepsOK

\* The trail grows by what a verified index names, or begins anew.
LEMMA TrailGrows ==
    ASSUME TrailOK, trail # <<>>, NEW body, body.type = "index", verified(LastRef, body),
           trail' = followed(body.manifest), pinned' = pinned
    PROVE  TrailOK' /\ trail' # <<>> /\ LastRef' = body.manifest
<1> DEFINE V == {trail[i] : i \in 1 .. Len(trail)}
<1>1. PICK x : x = body.manifest
  OBVIOUS
<1>2. trail \in Seq(V) /\ Len(trail) \in Nat /\ Len(trail) > 0
  BY DEF TrailOK
<1>3. CASE isDigest(x)
  <2>1. trail' = Append(trail, x)
    BY <1>1, <1>3 DEF followed
  <2> HIDE DEF V
  <2>2. PICK n : n = Len(trail)
    OBVIOUS
  <2>3. n \in Nat /\ n > 0
    BY <1>2, <2>2
  <2>4. trail \in Seq(V \cup {x})
    BY <1>2
  <2>5. /\ Len(trail') = n + 1 /\ trail'[n + 1] = x /\ trail' \in Seq(V \cup {x})
        /\ \A i \in 1 .. n : trail'[i] = trail[i]
    BY <2>1, <2>2, <2>4
  <2>6. trail' \in Seq({trail'[i] : i \in 1 .. Len(trail')})
    <3>1. \A q \in Seq(V \cup {x}) : q \in Seq({q[i] : i \in 1 .. Len(q)})
      BY SeqOfItsValues
    <3> QED BY <2>5, <3>1, Zenon
  <2>7. ASSUME NEW i \in 1 .. Len(trail') - 1, isDigest(trail'[i])
        PROVE  trail'[i][2].type = "index" /\ trail'[i][2].manifest = trail'[i + 1]
    <3>1. CASE i = n
      <4>1. trail[n] = LastRef /\ isDigest(trail[n]) /\ trail'[i] = trail[n] /\ trail'[i + 1] = x
        BY <2>2, <2>3, <2>5, <2>7, <3>1 DEF LastRef
      <4>2. digest(body) = trail[n]
        BY <4>1 DEF verified
      <4> QED BY <1>1, <4>1, <4>2, DigestNames
    <3>2. CASE i # n
      <4>1. i \in 1 .. n - 1 /\ i \in 1 .. n /\ i + 1 \in 1 .. n
        BY <2>3, <2>5, <3>2
      <4>2. trail'[i] = trail[i] /\ trail'[i + 1] = trail[i + 1]
        BY <2>5, <4>1
      <4> QED BY <2>2, <2>7, <4>1, <4>2 DEF TrailOK
    <3> QED BY <3>1, <3>2
  <2>8. trail'[1] = trail[1] /\ trail' # <<>>
    BY <2>3, <2>5
  <2>9. TrailOK'
    BY <2>6, <2>7, <2>8 DEF TrailOK
  <2> QED BY <1>1, <2>5, <2>8, <2>9 DEF LastRef
<1>4. CASE ~isDigest(x)
  <2>1. trail' = <<x>>
    BY <1>1, <1>4 DEF followed
  <2>2. Len(trail') = 1 /\ trail'[1] = x /\ trail' # <<>>
    BY <2>1
  <2>3. trail' \in Seq({trail'[i] : i \in 1 .. Len(trail')})
    BY <2>1
  <2> QED BY <1>1, <1>4, <2>2, <2>3 DEF TrailOK, LastRef
<1> QED BY <1>3, <1>4

\* The answer to a pull's request for a manifest: if it was asked for by digest it is
\* the document that the trail ends in.
LEMMA FetchManifestKeeps ==
    ASSUME StoreInv, NEW body \in Bodies, FetchManifest(body)
    PROVE  StoreInv'
<1> DEFINE ref == steps[1].ref
<1>1. /\ ret = "busy" /\ steps # <<>> /\ Head(steps).do = "manifest"
      /\ BlobsOK /\ TrailOK /\ StepsOK /\ UNCHANGED <<store, registry, creds, pinned, ops>>
  BY DEF StoreInv, FetchManifest, busy
<1>2. Head(steps) = steps[1] /\ Looking
  <2>1. Len(steps) \in Nat /\ Len(steps) > 0 /\ Head(steps) = steps[1]
    BY <1>1 DEF StepsOK
  <2>2. 1 \in 1 .. Len(steps) - 1 => steps[1].do # "manifest" \/ ~Storing(steps[Len(steps)].doc)
    BY DEF Storing, IsStore
  <2>3. Len(steps) = 1 => steps[1].do # "manifest" \/ ~Storing(steps[Len(steps)].doc)
    BY DEF Storing, point
  <2>4. PICK n : n = Len(steps)
    OBVIOUS
  <2>5. n = 1 \/ 1 \in 1 .. n - 1
    BY <2>1, <2>4
  <2>6. ~Doomed
    BY <1>1, <2>1, DoomedCopies
  <2> QED BY <1>1, <2>1, <2>2, <2>3, <2>4, <2>5, <2>6 DEF StepsOK
<1>3. trail # <<>> /\ ref = LastRef
  BY <1>2 DEF Looking
<1>4. CASE /\ verified(ref, body) /\ body.type = "index" /\ body # OtherPlatform
           /\ steps' = <<fetch(body.manifest)>> /\ trail' = followed(body.manifest)
           /\ auth' = "idle" /\ UNCHANGED ret
  <2>1. TrailOK' /\ trail' # <<>> /\ LastRef' = body.manifest
    BY <1>1, <1>3, <1>4, TrailGrows
  <2>2. Looking'
    BY <1>4, <2>1 DEF Looking, fetch
  <2>3. steps' \in Seq({steps'[i] : i \in 1 .. Len(steps')})
    BY <1>4
  <2>4. StepsOK' /\ ret' = "busy"
    BY <1>1, <1>4, <2>2, <2>3 DEF StepsOK
  <2> QED BY <1>1, <1>4, <2>1, <2>4, TakeUpKeeps
<1>5. CASE /\ verified(ref, body) /\ body.type = "manifest" /\ body.layers # <<>>
           /\ steps' = pullSteps(body) /\ auth' = "idle" /\ UNCHANGED <<ret, trail>>
  <2>1. body \in ServedManifests \cup Unverifiable
    BY <1>5 DEF Bodies, Indexes, Nested, Index, NoLayers, OtherPlatform, Junk, Manifest
  <2>2. TrailOK' /\ ret' = "busy"
    BY <1>1, <1>5 DEF TrailOK
  <2>3. Ends(body)'
    BY <1>3, <1>5 DEF Ends, LastRef, verified
  <2>4. StepsOK'
    BY <1>5, <2>1, <2>3, PullCovers, UnverifiableDooms
  <2> QED BY <1>1, <1>5, <2>2, <2>4, TakeUpKeeps
<1>6. CASE stop("manifest") /\ UNCHANGED trail
  <2>1. BlobsOK' /\ DOMAIN blobs \subseteq DOMAIN blobs' /\ index' = index /\ UNCHANGED hist
    BY <1>1, <1>6 DEF BlobsOK, store, hist
  <2> QED BY <1>6, <2>1, StopKeeps
<1> QED BY <1>2, <1>4, <1>5, <1>6 DEF FetchManifest

\* The contents of a stack of layers and one more.
LEMMA TarsOfAppend ==
    ASSUME NEW base \in Seq(LayerDigests), NEW d \in LayerDigests
    PROVE  Tars(Append(base, d)) = Append(Tars(base), d[2].tar)
<1> DEFINE V == Tar \cup Served
<1>1. PICK n : n = Len(base)
  OBVIOUS
<1>2. n \in Nat /\ \A i \in 1 .. n : base[i] \in LayerDigests
  BY <1>1
<1>3. PICK ls : ls = Append(base, d)
  OBVIOUS
<1>4. Len(ls) = n + 1 /\ ls[n + 1] = d /\ \A i \in 1 .. n : ls[i] = base[i]
  BY <1>1, <1>3
<1>5. \A x \in LayerDigests : x[2].tar \in V
  BY DEF LayerDigests, Layers, digest
<1> HIDE DEF V
<1>6. PICK old : old = Tars(base)
  OBVIOUS
<1>7. old \in [1 .. n -> V] /\ \A i \in 1 .. n : old[i] = base[i][2].tar
  BY <1>1, <1>2, <1>5, <1>6, Zenon DEF Tars
<1>8. old \in Seq(V) /\ Len(old) = n
  BY <1>2, <1>7
<1>9. PICK ids : ids = Append(old, d[2].tar)
  OBVIOUS
<1>10. /\ ids \in Seq(V) /\ Len(ids) = n + 1 /\ ids[n + 1] = d[2].tar
       /\ \A i \in 1 .. n : ids[i] = base[i][2].tar
  <2>1. PICK x \in V : x = d[2].tar
    BY <1>5
  <2>2. /\ ids \in Seq(V) /\ Len(ids) = n + 1 /\ ids[n + 1] = x
        /\ \A i \in 1 .. n : ids[i] = old[i]
    BY <1>8, <1>9, <2>1
  <2> QED BY <1>7, <2>1, <2>2
<1>11. ids \in [1 .. n + 1 -> V]
  BY <1>10, LenProperties
<1>12. \A i \in 1 .. n + 1 : ids[i] = ls[i][2].tar
  <2>1. \A i \in 1 .. n + 1 : i \in 1 .. n \/ i = n + 1
    BY <1>2
  <2> QED BY <1>4, <1>10, <2>1, Zenon
<1>13. Tars(ls) = [i \in 1 .. n + 1 |-> ls[i][2].tar]
  BY <1>4, Zenon DEF Tars
<1>14. ids = [i \in 1 .. n + 1 |-> ids[i]]
  BY <1>11, Zenon
<1>15. ids = [i \in 1 .. n + 1 |-> ls[i][2].tar]
  BY <1>12, <1>14, Zenon
<1> QED BY <1>3, <1>6, <1>9, <1>13, <1>15, Zenon

\* Build and AddLayer store the layer, the config and the manifest that the index
\* will lead to; the layers below are whole already.
LEMMA ImageCovers ==
    ASSUME NEW base \in Seq(LayerDigests), \A i \in 1 .. Len(base) : present(base[i]),
           NEW t \in Tar, NEW gz \in BOOLEAN,
           NEW ids, ids = Append(Tars(base), t),
           steps' = <<stream(Layer(t, gz))>>
                    \o writeImageMeta(Append(base, digest(Layer(t, gz))), Config(ids)),
           blobs' = blobs, trail' = <<>>
    PROVE  StepsOK'
<1>1. PICK l : l = Layer(t, gz)
  OBVIOUS
<1>2. PICK ls : ls = Append(base, digest(l))
  OBVIOUS
<1>3. PICK man : man = Manifest(Config(ids), ls)
  OBVIOUS
<1>4. IsLayer(l) /\ digest(l) \in LayerDigests /\ digest(l)[2].tar = t
  <2>1. IsLayer(l) /\ l.tar = t
    BY <1>1, KindsMade, Zenon
  <2>2. digest(l) \in LayerDigests
    BY <1>1, LayerInModel, Zenon
  <2>3. digest(l)[2] = l
    BY DigestNames
  <2> QED BY <2>1, <2>2, <2>3
<1>5. /\ ls \in Seq(LayerDigests) /\ Len(ls) = Len(base) + 1 /\ ls[Len(ls)] = digest(l)
      /\ \A i \in 1 .. Len(base) : ls[i] = base[i]
  BY <1>2, <1>4
<1>6. ids = Tars(ls)
  BY <1>2, <1>4, TarsOfAppend, Zenon
<1>7. IsManifest(man) /\ man.config = digest(Config(ids)) /\ man.layers = ls
  BY <1>3, <1>5, <1>6, ManifestMade
<1>8. steps' = <<stream(l), bytes(Config(ids)), bytes(man), point(man)>>
  <2>1. <<stream(l)>> \o <<bytes(Config(ids)), bytes(man), point(man)>>
          = <<stream(l), bytes(Config(ids)), bytes(man), point(man)>>
    BY Splice, Zenon
  <2>2. writeImageMeta(ls, Config(ids)) = <<bytes(Config(ids)), bytes(man), point(man)>>
    BY <1>3, Zenon DEF writeImageMeta
  <2> QED BY <1>1, <1>2, <2>1, <2>2, Zenon
<1>9. IsStore(stream(l)) /\ IsStore(bytes(Config(ids))) /\ IsStore(bytes(man))
  BY <1>4, <1>7, KindsMade DEF IsStore, stream, bytes
<1>10. /\ Adds(stream(l)) = digest(l) /\ Adds(bytes(Config(ids))) = man.config
       /\ Adds(bytes(man)) = digest(man)
  BY <1>7 DEF Adds, stream, bytes
<1>11. ASSUME NEW d \in Names(man), d \notin {digest(l), man.config, digest(man)}
       PROVE  present(d)'
  <2>1. PICK i \in 1 .. Len(ls) : d = ls[i]
    BY <1>7, <1>11 DEF Names
  <2>2. i \in 1 .. Len(base)
    BY <1>5, <1>11, <2>1
  <2>3. present(d)
    BY <1>5, <2>1, <2>2
  <2> QED BY <2>3 DEF present
<1>12. Ends(man)'
  BY DEF Ends
<1> QED BY <1>7, <1>8, <1>9, <1>10, <1>11, <1>12, PlanCovers

\* Build is ImageCovers over no layer.
LEMMA BuildKeeps ==
    ASSUME StoreInv, NEW t \in Tar, NEW gz \in BOOLEAN, Build(t, gz)
    PROVE  StoreInv'
<1>1. /\ steps' = <<stream(Layer(t, gz))>>
                   \o writeImageMeta(<<digest(Layer(t, gz))>>, Config(<<t>>))
      /\ ret # "busy" /\ ret' = "busy" /\ auth' = auth /\ trail' = <<>>
      /\ UNCHANGED <<store, registry, creds>>
  BY DEF Build, begin
<1>2. auth' = "idle" /\ TrailOK' /\ blobs' = blobs
  BY <1>1 DEF StoreInv, AuthOK, busy, TrailOK, store
<1>3. \A x : Append(<<>>, x) = <<x>>
  OBVIOUS
<1>4. Tars(<<>>) = <<>> /\ <<>> \in Seq(LayerDigests) /\ Len(<<>>) = 0
  BY DEF Tars
<1>5. StepsOK'
  <2>1. \A i \in 1 .. Len(<<>>) : present(<<>>[i])
    BY <1>4
  <2>2. <<t>> = Append(Tars(<<>>), t)
    BY <1>3, <1>4, Zenon
  <2>3. steps' = <<stream(Layer(t, gz))>>
                 \o writeImageMeta(Append(<<>>, digest(Layer(t, gz))), Config(<<t>>))
    BY <1>1, <1>3, Zenon
  <2> QED BY <1>1, <1>2, <1>4, <2>1, <2>2, <2>3, ImageCovers, Zenon
<1> QED BY <1>1, <1>2, <1>5, TakeUpKeeps

\* What resolve reads is a whole image: its manifest and its config are the ones
\* named, and a layer it names is stored and never torn.
LEMMA ResolvedImage ==
    ASSUME StoreInv, resolves
    PROVE  /\ IsManifest(blobs[index])
           /\ blobs[blobs[index].config].diffIDs = Tars(blobs[index].layers)
           /\ \A i \in 1 .. Len(blobs[index].layers) : present(blobs[index].layers[i])
<1>1. PICK man : man = blobs[index]
  OBVIOUS
<1>2. index = digest(index[2]) /\ IsManifest(index[2])
  BY DEF StoreInv, IndexOK, resolves
<1>3. digest(man) = index
  BY <1>1 DEF StoreInv, BlobsOK, resolves, present
<1>4. index[2] = man /\ IsManifest(man)
  BY <1>2, <1>3, DigestNames
<1>5. blobs[man.config] = Config(Tars(man.layers))
  <2>1. digest(blobs[man.config]) = man.config
    BY <1>1 DEF StoreInv, BlobsOK, resolves, present
  <2> QED BY <1>4, <2>1, ManifestNames, DigestNames
<1>6. ASSUME NEW i \in 1 .. Len(man.layers)
      PROVE  present(man.layers[i])
  <2>1. man.layers[i] \in leadsTo
    BY <1>4 DEF leadsTo, resolves
  <2>2. man.layers[i] \in DOMAIN blobs
    BY <2>1 DEF StoreInv, IndexSound, IndexLeadsToBlobs
  <2>3. man.layers[i][2].type = "layer"
    BY <1>4, <1>6, ManifestNames DEF IsLayer
  <2> QED BY <2>2, <2>3, DocIsNotTorn DEF StoreInv, BlobsOK, present
<1>7. blobs[man.config].diffIDs = Tars(man.layers)
  BY <1>5, KindsMade
<1> QED BY <1>1, <1>4, <1>6, <1>7

\* AddLayer is ImageCovers over the layers of the image in the index.
LEMMA AddLayerKeeps ==
    ASSUME StoreInv, NEW t \in Tar, NEW gz \in BOOLEAN, AddLayer(t, gz)
    PROVE  StoreInv'
<1>1. PICK man : man = blobs[index]
  OBVIOUS
<1>2. PICK ids : ids = Append(blobs[man.config].diffIDs, t)
  OBVIOUS
<1>3. /\ steps' = <<stream(Layer(t, gz))>>
                   \o writeImageMeta(Append(man.layers, digest(Layer(t, gz))), Config(ids))
      /\ ret # "busy" /\ ret' = "busy" /\ auth' = auth /\ trail' = <<>>
      /\ UNCHANGED <<store, registry, creds>> /\ resolves
  BY <1>1, <1>2, Zenon DEF AddLayer, begin, appended
<1>4. /\ man.layers \in Seq(LayerDigests) /\ ids = Append(Tars(man.layers), t)
      /\ \A i \in 1 .. Len(man.layers) : present(man.layers[i])
  BY <1>1, <1>2, <1>3, ResolvedImage, Zenon DEF IsManifest
<1>5. auth' = "idle" /\ TrailOK' /\ blobs' = blobs
  <2>1. ret # "busy" /\ auth' = auth /\ trail' = <<>> /\ store' = store
    BY <1>3, Zenon
  <2> QED BY <2>1 DEF StoreInv, AuthOK, busy, TrailOK, store
<1>6. StepsOK'
  BY <1>3, <1>4, <1>5, ImageCovers, Zenon
<1> QED BY <1>3, <1>5, <1>6, TakeUpKeeps, Zenon

\* A layout that does not resolve is left as it is.
LEMMA AddLayerRefusedKeeps ==
    ASSUME StoreInv, AddLayerRefused
    PROVE  StoreInv'
<1>1. /\ ret # "busy" /\ ret' = "unresolved" /\ UNCHANGED <<store, steps, net, hist>>
  BY DEF AddLayerRefused
<1>2. BlobsOK' /\ IndexOK' /\ TrailOK' /\ registry' \in Registries
  BY <1>1 DEF StoreInv, BlobsOK, IndexOK, TrailOK, store, hist
<1>3. AuthOK' /\ StepsOK'
  BY <1>1 DEF StoreInv, AuthOK, StepsOK, busy, net, hist
<1>4. IndexSound' /\ PullIsPinned' /\ RefusalIsReal'
  BY <1>1 DEF StoreInv, IndexSound, IndexLeadsToBlobs, SuccessIsComplete, leadsTo,
              PullIsPinned, RefusalIsReal, store
<1> QED BY <1>2, <1>3, <1>4 DEF StoreInv

\* A pull starts by looking for what it was asked for.
LEMMA PullKeeps ==
    ASSUME StoreInv, NEW d \in PullRefs, Pull(d)
    PROVE  StoreInv'
<1>1. /\ ret # "busy" /\ steps' = <<fetch(d)>> /\ ret' = "busy" /\ auth' = auth
      /\ pinned' = d /\ trail' = <<d>> /\ UNCHANGED <<store, registry, creds>>
  BY DEF Pull, begin
<1>2. auth' = "idle"
  BY <1>1 DEF StoreInv, AuthOK, busy
<1>3. TrailOK'
  BY <1>1 DEF TrailOK
<1>4. Looking'
  BY <1>1 DEF Looking, LastRef, fetch
<1>5. steps' \in Seq({steps'[i] : i \in 1 .. Len(steps')})
  BY <1>1
<1>6. StepsOK'
  BY <1>4, <1>5 DEF StepsOK
<1> QED BY <1>1, <1>2, <1>3, <1>6, TakeUpKeeps

-----------------------------------------------------------------------------
(* The theorems. *)

\* An empty layout.
LEMMA StoreInvInit ==
    ASSUME Init
    PROVE  StoreInv
<1>1. DOMAIN blobs = {} /\ BlobsOK /\ IndexOK /\ TrailOK /\ registry \in Registries
  BY DEF Init, BlobsOK, IndexOK, TrailOK, Registries
<1>2. StepsOK /\ AuthOK
  BY DEF Init, StepsOK, AuthOK
<1>3. IndexSound /\ PullIsPinned /\ RefusalIsReal
  BY DEF Init, IndexSound, IndexLeadsToBlobs, SuccessIsComplete, leadsTo,
         PullIsPinned, RefusalIsReal
<1> QED BY <1>1, <1>2, <1>3 DEF StoreInv

\* Every operation, step, failure and expiry keeps the invariant.
LEMMA StoreInvInductive ==
    ASSUME StoreInv, [Next]_vars
    PROVE  StoreInv'
<1>1. ASSUME NEW t \in Tar, NEW gz \in BOOLEAN, Build(t, gz) PROVE StoreInv'
  BY <1>1, BuildKeeps
<1>2. ASSUME NEW t \in Tar, NEW gz \in BOOLEAN, AddLayer(t, gz) PROVE StoreInv'
  BY <1>2, AddLayerKeeps
<1>3. CASE AddLayerRefused
  BY <1>3, AddLayerRefusedKeeps
<1>4. ASSUME NEW d \in PullRefs, Pull(d) PROVE StoreInv'
  BY <1>4, PullKeeps
<1>5. CASE StoreStream
  BY <1>5, StoreStreamKeeps
<1>6. CASE StoreBytes
  BY <1>6, StoreBytesKeeps
<1>7. CASE WriteIndex
  BY <1>7, WriteIndexKeeps
<1>8. CASE WriteFails
  BY <1>8, WriteFailsKeeps
<1>9. CASE Send
  BY <1>9, SendKeeps
<1>10. CASE Authenticate
  BY <1>10, AuthenticateKeeps
<1>11. CASE Retry
  BY <1>11, RetryKeeps
<1>12. ASSUME NEW body \in Bodies, FetchManifest(body) PROVE StoreInv'
  BY <1>12, FetchManifestKeeps
<1>13. ASSUME busy("copy"), NEW got \in Answers(Head(steps).ref), CopyBlob(got)
       PROVE  StoreInv'
  BY <1>13, CopyBlobKeeps
<1>14. CASE Expire
  BY <1>14, ExpireKeeps
<1>15. CASE UNCHANGED vars
  <2>1. UNCHANGED <<store, steps, ret, hist>> /\ UNCHANGED <<auth, token, registry>>
    BY <1>15 DEF vars, net, hist
  <2>2. AuthOK'
    BY <2>1 DEF StoreInv, AuthOK, busy
  <2> QED BY <2>1, <2>2, QuietKeeps
<1>16. CASE Begin
  BY <1>1, <1>2, <1>3, <1>4, <1>16, Zenon DEF Begin
<1>17. CASE Step
  BY <1>5, <1>6, <1>7, <1>8, <1>9, <1>10, <1>11, <1>12, <1>13, <1>17, Zenon DEF Step
<1> QED BY <1>14, <1>15, <1>16, <1>17, Zenon DEF Next

\* So it holds of every behaviour.
LEMMA StoreInvHolds == Spec => []StoreInv
  BY StoreInvInit, StoreInvInductive, PTL DEF Spec

\* Whichever writes fail, every blob is the document its name is the digest of, but
\* for a config or a manifest that os.WriteFile has cut short: a layer is never torn.
THEOREM LayoutIsContentAddressed == Spec => []ContentAddressed
<1>1. StoreInv => ContentAddressed
  BY ManifestNames DEF StoreInv, BlobsOK, IndexOK, ContentAddressed
<1> QED BY <1>1, StoreInvHolds, PTL

\* At every moment the index leads to blobs of the layout, and after a success to
\* whole ones: layers, config and manifest are stored before the index names them.
THEOREM IndexIsSound == Spec => []IndexSound
<1>1. StoreInv => IndexSound
  BY DEF StoreInv
<1> QED BY <1>1, StoreInvHolds, PTL

\* Every manifest stored lists the contents of its layers in its config, after
\* any number of AddLayer and over images that were pulled.
THEOREM DiffIDsFollowLayers == Spec => []DiffIDsMatch
<1>1. ASSUME StoreInv, NEW d \in DOMAIN blobs, blobs[d] # Torn, blobs[d].type = "manifest"
      PROVE  blobs[d].config[2].diffIDs
                 = [i \in 1 .. Len(blobs[d].layers) |-> blobs[d].layers[i][2].tar]
  <2>1. IsDoc(blobs[d])
    BY <1>1 DEF StoreInv, BlobsOK
  <2>2. IsManifest(blobs[d])
    BY <1>1, <2>1 DEF IsDoc, IsLayer, IsConfig, Junk
  <2>3. blobs[d].config[2].diffIDs = Tars(blobs[d].layers)
    BY <2>2, ManifestNames, DigestNames, KindsMade
  <2> QED BY <2>3 DEF Tars
<1>2. StoreInv => DiffIDsMatch
  BY <1>1 DEF DiffIDsMatch
<1> QED BY <1>2, StoreInvHolds, PTL

\* A pull that succeeds has followed every SHA-256 digest on its way to the document it
\* is of, whatever the registry answered: it ends in the image the caller pinned, or in
\* one that an index named otherwise than by such a digest.
THEOREM PullEndsInPinnedImage == Spec => []PullIsPinned
<1>1. StoreInv => PullIsPinned
  BY DEF StoreInv
<1> QED BY <1>1, StoreInvHolds, PTL

\* No pull is refused because its token expired: the one retry goes out with a
\* token fetched for it.
THEOREM RefusalsAreReal == Spec => []RefusalIsReal
<1>1. StoreInv => RefusalIsReal
  BY DEF StoreInv
<1> QED BY <1>1, StoreInvHolds, PTL
=============================================================================
