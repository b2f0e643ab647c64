---------------------------- MODULE Distribution ----------------------------
(* How an extension's file gets from a checkout to a session: `ducklink    *)
(* publish` into the bucket, `ducklink ext install` out of it or out of    *)
(* the checkout (extcli.rs), the choice among providers (resolver.rs).     *)
(* Bytes are versions, and a digest is the version it is taken of.         *)
EXTENDS Naturals, FiniteSets, SequencesExt

CONSTANTS
  Providers,
  Order,        \* the extensions in catalog order
  ProvidersOf,  \* extension -> sequence of its providers, in catalog order
  KindOf,       \* provider -> "native", "wasm", "browser" (a wasm one) or "remote"
  Reference,    \* the providers marked as reference
  Linked,       \* the providers whose artifact is an https URL
  Artifact,     \* wasm provider -> file of the checkout its artifact names
  ByName,       \* extension -> <artifacts dir>/<name>.wasm
  Versions, Suites,
  Records,      \* the conformance records the catalog may hold, by provider
  Policies,     \* the denied providers and the forced one, as commands and sessions set them
  Publishers, Installers,
  Absent, Empty, Torn, None,
  MaxBuilds     \* bound on the builds

VARIABLES
  tree,      \* the artifacts of the checkout
  index,     \* its catalog, registry/index.json
  suite,     \* the conformance suites on disk
  builds,    \* how often an artifact was built
  plan,      \* publisher -> objects it still has to PUT
  objects,   \* the bucket: key -> bytes
  catalog,   \* the bucket: ducklink/catalog.json
  install,   \* installer -> what cmd_install holds
  files,     \* the extension directory
  vouched,   \* history: extension -> digests that an install was given for it
  unpinned   \* history: extension -> what an install without a digest had fetched

Exts == Range(Order)
source == <<tree, index, suite, builds>>
bucket == <<objects, catalog>>
pins == <<vouched, unpinned>>
local == <<install, files, pins>>
distVars == <<source, plan, bucket, local>>

Wasm(p) == KindOf[p] \in {"wasm", "browser"}
WasmOf(n) == {p \in Range(ProvidersOf[n]) : Wasm(p)}

ASSUME DistAssumption ==
  /\ Order \in Seq(Exts)
  /\ ProvidersOf \in [Exts -> Seq(Providers)]
  /\ \A n \in Exts : \A p \in WasmOf(n) : p \in DOMAIN Artifact
  /\ ByName \in [Exts -> Range(Artifact)]
  /\ \A n, m \in Exts : ByName[n] = ByName[m] => n = m
  /\ MaxBuilds \in Nat
  /\ Versions # {} /\ Versions \cap {Absent, Empty, Torn, None} = {}

-----------------------------------------------------------------------------
(* The resolver.                                                           *)

\* A record counts where it passed at the live contract.
Passed(record) == record # None /\ record.good

\* The gate: with a canonical suite every provider must have passed that
\* suite; without one a reference wasm provider needs no record.
ConformanceOk(cat, p, canonical) ==
  IF canonical # None THEN Passed(cat.record[p]) /\ cat.record[p].suite = canonical
  ELSE (p \in Reference /\ Wasm(p)) \/ Passed(cat.record[p])

\* Neither native nor remote providers have a loader or a trust policy.
SubstrateAvailable(p) == Wasm(p)

Precedence(p) ==
  CASE KindOf[p] = "native" -> 0 [] KindOf[p] = "wasm" -> 1
    [] KindOf[p] = "browser" -> 2 [] KindOf[p] = "remote" -> 3

\* policy: the denied providers and the forced one.
Admitted(cat, n, canonical, policy) ==
  {i \in DOMAIN ProvidersOf[n] :
     LET p == ProvidersOf[n][i] IN
     /\ ConformanceOk(cat, p, canonical) /\ SubstrateAvailable(p)
     /\ p \notin policy.denied
     /\ policy.forced \in {None, p}}

\* The admitted providers of the lowest rank, the first of them.
Resolved(cat, n, canonical, policy) ==
  LET admitted == Admitted(cat, n, canonical, policy)
      Rank(i) == Precedence(ProvidersOf[n][i])
  IN {ProvidersOf[n][i] : i \in {i \in admitted :
        \A k \in admitted : Rank(i) < Rank(k) \/ (Rank(i) = Rank(k) /\ i <= k)}}

\* The suite the CLI holds providers to: the one their records agree on.
AgreedSuite(cat, n) ==
  LET suites == {cat.record[p].suite : p \in {q \in Range(ProvidersOf[n]) : cat.record[q] # None}}
  IN IF Cardinality(suites) = 1 THEN CHOOSE s \in suites : TRUE ELSE None

-----------------------------------------------------------------------------
(* The checkout.                                                           *)

Stamp == [p \in DOMAIN Artifact |-> IF tree[Artifact[p]] = Absent THEN None ELSE tree[Artifact[p]]]

\* The catalog of a checkout where nothing was built yet.
Unstamped == [p \in DOMAIN Artifact |-> None]

DistInit ==
  /\ tree \in [Range(Artifact) -> {CHOOSE v \in Versions : TRUE}]
  /\ index \in [digest : {Stamp, Unstamped}, record : Records]
  /\ suite \in [Exts -> Suites \cup {None}]
  /\ builds = 0
  /\ plan = [u \in Publishers |-> <<>>]
  /\ objects = <<>> /\ catalog = None
  /\ install = [i \in Installers |-> None]
  /\ files = [f \in Range(Artifact) |-> Absent]
  /\ vouched = [n \in Exts |-> {}] /\ unpinned = [n \in Exts |-> {}]

\* An artifact is built anew, or lost.
Build(a) ==
  /\ builds < MaxBuilds
  /\ \E v \in (Versions \cup {Absent}) \ {tree[a]} : tree' = [tree EXCEPT ![a] = v]
  /\ builds' = builds + 1
  /\ UNCHANGED <<index, suite, plan, bucket, local>>

\* tooling/gen-catalog.py stamps the digests of the built artifacts.
GenCatalog ==
  /\ index.digest # Stamp
  /\ index' = [index EXCEPT !.digest = Stamp]
  /\ UNCHANGED <<tree, suite, builds, plan, bucket, local>>

-----------------------------------------------------------------------------
(* ducklink publish.                                                       *)

\* A path that is a file of the checkout, else <artifacts dir>/<name>.wasm.
ResolveArtifact(p, n) ==
  IF p \notin Linked /\ tree[Artifact[p]] # Absent THEN Artifact[p] ELSE ByName[n]

WasmKey(digest, n) == <<digest, n>>

\* One object per digest and name, the first that asks for it.
WasmObjects(n) ==
  LET Add(done, p) ==
        LET o == [key |-> WasmKey(index.digest[p], n), digest |-> index.digest[p],
                  file |-> ResolveArtifact(p, n)]
        IN IF p \in WasmOf(n) /\ \A x \in Range(done) : x.key # o.key THEN Append(done, o) ELSE done
  IN FoldLeft(Add, <<>>, ProvidersOf[n])

CatalogKey == <<"catalog">>
CatalogObject == [key |-> CatalogKey, content |-> index]

Store == FlattenSeq([i \in DOMAIN Order |-> WasmObjects(Order[i])])

\* Faulty variant: the catalog goes first.
ObjectsCatalogFirst == <<CatalogObject>> \o Store

\* The artifacts, then the catalog that names them (then the native
\* repository's files, which no catalog names and are left out here).
Objects == Store \o <<CatalogObject>>

\* DUCKLINK_PUBLISH_VERIFY: every file has its digest.
VerifyObjects == \A o \in Range(Store) : tree[o.file] = o.digest

\* plan_publish; a wasm artifact without a digest, or the gate, stops it.
PlanPublish(u, verify) ==
  /\ plan[u] = <<>>
  /\ \A n \in Exts : \A p \in WasmOf(n) : index.digest[p] # None
  /\ verify => VerifyObjects
  /\ plan' = [plan EXCEPT ![u] = Objects]
  /\ UNCHANGED <<source, bucket, local>>

\* The file is read again for its PUT and has to have its digest still.
ObjectBytes(o) == tree[o.file]
Uploadable(o) ==
  ObjectBytes(o) = o.digest

PutArtifact(u) ==
  LET o == Head(plan[u]) IN
  /\ plan[u] # <<>> /\ o.key # CatalogKey /\ Uploadable(o)
  /\ objects' = [k \in DOMAIN objects \cup {o.key} |-> IF k = o.key THEN ObjectBytes(o) ELSE objects[k]]
  /\ plan' = [plan EXCEPT ![u] = Tail(@)]
  /\ UNCHANGED <<source, catalog, local>>

PutCatalog(u) ==
  LET o == Head(plan[u]) IN
  /\ plan[u] # <<>> /\ o.key = CatalogKey
  /\ catalog' = o.content
  /\ plan' = [plan EXCEPT ![u] = Tail(@)]
  /\ UNCHANGED <<source, objects, local>>

\* A mismatch, a refused PUT or a kill ends the command where it is.
PublishStops(u) ==
  /\ plan[u] # <<>>
  /\ plan' = [plan EXCEPT ![u] = <<>>]
  /\ UNCHANGED <<source, bucket, local>>

-----------------------------------------------------------------------------
(* ducklink ext install, uninstall.                                        *)

\* load_catalog: the file of the checkout, or the bucket's over https.
Catalogs == {index, catalog} \ {None}

BeginInstall(i, n, policy) ==
  /\ install[i] = None
  /\ \E cat \in Catalogs : \E p \in Resolved(cat, n, AgreedSuite(cat, n), policy) :
       install' = [install EXCEPT ![i] =
         [step |-> "fetch", ext |-> n, from |-> p, digest |-> cat.digest[p],
          published |-> cat = catalog, bytes |-> None]]
  /\ UNCHANGED <<source, plan, bucket, files, pins>>

\* fetch_url_artifact or resolve_wasm_source: an https artifact comes out of
\* the bucket under its digest, a path from the checkout.
Fetched(r) ==
  IF r.from \in Linked
  THEN IF WasmKey(r.digest, r.ext) \in DOMAIN objects THEN objects[WasmKey(r.digest, r.ext)] ELSE Absent
  ELSE tree[Artifact[r.from]]

\* Faulty variant: what came over https is not hashed, nor what was copied.
VerifyNothing(bytes, digest) == TRUE

\* verify_content_digest: bytes without a digest pass.
VerifyContentDigest(bytes, digest) == digest # None => bytes = digest

Writing(n, bytes) == [step |-> "write", ext |-> n, from |-> None, digest |-> None,
                      published |-> FALSE, bytes |-> bytes]

FetchArtifact(i) ==
  LET r == install[i] IN
  /\ r # None /\ r.step = "fetch"
  /\ Fetched(r) # Absent /\ VerifyContentDigest(Fetched(r), r.digest)
  /\ install' = [install EXCEPT ![i] = Writing(r.ext, Fetched(r))]
  /\ \/ r.digest # None /\ vouched' = [vouched EXCEPT ![r.ext] = @ \cup {r.digest}] /\ UNCHANGED unpinned
     \/ r.digest = None /\ unpinned' = [unpinned EXCEPT ![r.ext] = @ \cup {Fetched(r)}] /\ UNCHANGED vouched
  /\ UNCHANGED <<source, plan, bucket, files>>

\* fs::write truncates the file, then writes it.
Truncate(i) ==
  LET r == install[i] IN
  /\ r # None /\ r.step = "write"
  /\ install' = [install EXCEPT ![i].step = "writing"]
  /\ files' = [files EXCEPT ![ByName[r.ext]] = Empty]
  /\ UNCHANGED <<source, plan, bucket, pins>>

\* Over the bytes of another writer a shorter file leaves their tail; a file
\* that was removed in between is written where nobody finds it.
WriteFile(i) ==
  LET r == install[i]
      file == ByName[r.ext]
  IN
  /\ r # None /\ r.step \in {"writing", "removed"}
  /\ \/ r.step = "removed" /\ UNCHANGED files
     \/ r.step = "writing" /\ files' = [files EXCEPT ![file] = r.bytes]
     \/ /\ r.step = "writing" /\ files[file] \notin {Empty, r.bytes}
        /\ files' = [files EXCEPT ![file] = Torn]
  /\ install' = [install EXCEPT ![i] = None]
  /\ UNCHANGED <<source, plan, bucket, pins>>

\* A failed fetch, a digest that differs, a write cut short, a kill.
InstallStops(i) ==
  LET r == install[i] IN
  /\ r # None
  /\ install' = [install EXCEPT ![i] = None]
  /\ UNCHANGED files \/ (r.step = "writing" /\ files' = [files EXCEPT ![ByName[r.ext]] = Torn])
  /\ UNCHANGED <<source, plan, bucket, pins>>

Uninstall(n) ==
  /\ files[ByName[n]] # Absent
  /\ files' = [files EXCEPT ![ByName[n]] = Absent]
  /\ install' = [i \in Installers |->
       IF install[i] # None /\ install[i].ext = n /\ install[i].step = "writing"
       THEN [install[i] EXCEPT !.step = "removed"] ELSE install[i]]
  /\ UNCHANGED <<source, plan, bucket, pins>>

DistNext ==
  \/ \E a \in Range(Artifact) : Build(a)
  \/ GenCatalog
  \/ \E u \in Publishers : PutArtifact(u) \/ PutCatalog(u) \/ PublishStops(u)
  \/ \E u \in Publishers, verify \in BOOLEAN : PlanPublish(u, verify)
  \/ \E i \in Installers : FetchArtifact(i) \/ Truncate(i) \/ WriteFile(i) \/ InstallStops(i)
  \/ \E i \in Installers, n \in Exts, policy \in Policies : BeginInstall(i, n, policy)
  \/ \E n \in Exts : Uninstall(n)

-----------------------------------------------------------------------------
(* Properties.                                                             *)

Served(digest, n) ==
  WasmKey(digest, n) \in DOMAIN objects /\ objects[WasmKey(digest, n)] = digest

\* Every artifact that a published catalog names, the current one or the one
\* an install has read, is in the bucket with the bytes of its digest ("no
\* bad artifact reaches the CDN"), wherever a publish was stopped, whoever
\* published meanwhile and whatever was built.
Fetchable ==
  /\ catalog # None => \A n \in Exts : \A p \in WasmOf(n) : Served(catalog.digest[p], n)
  /\ \A i \in Installers :
       install[i] # None /\ install[i].published => Served(install[i].digest, install[i].ext)
=============================================================================
