------------------------------ MODULE BlobServe ------------------------------
(***************************************************************************)
(* One path of one site: the variants a deploy makes of a file, the one a  *)
(* blob server chooses for a browser, the server's caches of that choice   *)
(* and of bodies, and the copy the browser keeps and revalidates           *)
(* (deploy.service.ts, services/blob-server/src/handler.go).               *)
(*                                                                         *)
(* A deployment's files are of one content, numbered in the order of their *)
(* upload: the ETag of a blob is the blob, its Last-Modified the number.   *)
(* That the version a request goes by and the deployment it resolves       *)
(* belong together is ServeCache's matter.                                 *)
(***************************************************************************)
EXTENDS Naturals, Sequences

CONSTANTS
    Browsers,
    Accepts,        \* [Browsers -> SUBSET {"br", "gzip", "webp"}]
    Absent,
    Scenes,         \* what the path is, who asks for it, how often it changes
    MaxActivations, \* bound: activations, each a version of the site
    Reverts,        \* deployments made before may be activated again
    StoreFails      \* MinIO may say once that an object is not there

ASSUME ScenesAssumption ==
    Scenes \subseteq [kind : {"route", "page", "style", "image", "photo", "video"},
                      browsers : SUBSET Browsers, activations : 1..MaxActivations]

(* A route has no extension, a page has .html.  They and a style sheet are *)
(* compressed, rasters get a WebP; a photo has an extension that is not in *)
(* the server's fallback_except.                                           *)
VariantSuffixes == {"", ".br", ".gz", ".webp"}

(* about/index.html, about.html or the path itself, and /index.html.       *)
Bases == {"dir", "file", "index"}
Blobs == [base : Bases, suffix : VariantSuffixes, content : 1..MaxActivations]
Manifests == [Bases \X VariantSuffixes -> Blobs \cup {Absent}]
ServedVersions == 1..MaxActivations
EncodingKeys == {"webp", "br", "gz", "raw"}
ContentEncodings == {"", "br", "gzip"}

Selections == [blob : Blobs, encoding : ContentEncodings]
ServeAnswers == [status : {200, 206, 304, 307}, what : Selections]
                \cup [status : {0, 404}]  \* 0: none yet

(* No file, no choice and no preference is Absent.                         *)
ASSUME BlobConstants ==
    /\ MaxActivations \in Nat \ {0} /\ StoreFails \in BOOLEAN
    /\ Absent \notin Blobs /\ Absent \notin Selections /\ Absent \notin Bases
    /\ Absent \notin VariantSuffixes \X ContentEncodings

VARIABLES
    scene,      \* the one that is played
    large,      \* its files exceed max_cache_size
    manifest,   \* [ServedVersions -> Manifests]: of the deployment then active
    version,    \* the version of the site
    paths,      \* LRU: [ServedVersions -> [EncodingKeys -> choice]]
    nowhere,    \* LRU: versions under which the path is known not to exist
    bodies,     \* LRU: [ServedVersions -> [EncodingKeys -> body or metadata]]
    ask,        \* of each browser: the step of its request, and its version
    choice,     \* what the server has chosen for it
    answer,     \* what it was last answered
    kept,       \* the copy it keeps, which it sends the validators of
    storeFails

serveVars == <<scene, large, manifest, version, paths, nowhere, bodies, ask,
               choice, answer, kept, storeFails>>
caches == <<paths, nowhere, bodies>>
site == <<scene, large, manifest, version>>

(* An entry under a body key: a blob with its body or without, or that     *)
(* MinIO did not have it.                                                  *)
CachedBodies == [what : Selections, holds : {"body", "metadata", "nothing"}] \cup {Absent}

BlobTypeOK ==
    /\ scene \in Scenes /\ large \in BOOLEAN
    /\ version \in ServedVersions
    /\ \A v \in 1..version : manifest[v] \in Manifests
    /\ \A v \in ServedVersions, k \in EncodingKeys :
           paths[v][k] \in Selections \cup {Absent} /\ bodies[v][k] \in CachedBodies
    /\ nowhere \subseteq ServedVersions
    /\ ask \in [Browsers -> [step : {"idle", "serve", "fetch"}, at : ServedVersions]]
    /\ choice \in [Browsers -> Selections \cup {Absent}]
    /\ answer \in [Browsers -> ServeAnswers]
    /\ kept \in [Browsers -> Selections \cup {Absent}]
    /\ storeFails \in BOOLEAN

-----------------------------------------------------------------------------
(* expandFileVariants and storeExpandedVariants: the original, and the     *)
(* variants that could be made of it.                                      *)

kind == scene.kind
Compressible == kind \in {"route", "page", "style"}
Raster == kind \in {"image", "photo"}
FallsBack == kind \in {"route", "page", "photo", "video"}

BugVariantsOf(base) == {".br", ".gz", ".webp"}
VariantsOf(base) ==
    IF base = "index" \/ Compressible THEN {".br", ".gz"}
    ELSE IF Raster THEN {".webp"} ELSE {}

ManifestOf(bases, content, failed) ==
    [n \in Bases \X VariantSuffixes |->
        IF n[1] \in bases /\ (n[2] = "" \/ n[2] \in VariantsOf(n[1]) \ failed)
        THEN [base |-> n[1], suffix |-> n[2], content |-> content]
        ELSE Absent]

(* The path may be missing; at most one kind of variant could not be made.  *)
Deployable(content) ==
    LET there == SUBSET (IF kind = "route" THEN {"dir", "file"} ELSE {"file"})
        failed == {{}} \cup {{suffix} : suffix \in VariantSuffixes \ {""}}
    IN  {ManifestOf(p[1] \cup IF FallsBack THEN {"index"} ELSE {}, content, p[2]) :
            p \in there \X failed}

NoEntries == [v \in ServedVersions |-> [k \in EncodingKeys |-> Absent]]

BlobInit ==
    /\ scene \in Scenes /\ large \in BOOLEAN
    /\ \E m \in Deployable(1) : manifest = [v \in ServedVersions |-> m]
    /\ version = 1
    /\ paths = NoEntries /\ bodies = NoEntries /\ nowhere = {}
    /\ ask = [b \in Browsers |-> [step |-> "idle", at |-> 1]]
    /\ choice = [b \in Browsers |-> Absent]
    /\ answer = [b \in Browsers |-> [status |-> 0]]
    /\ kept = [b \in Browsers |-> Absent]
    /\ storeFails = StoreFails

(* A deployment of new files, or one of before.                            *)
ActivateSite ==
    /\ version < scene.activations
    /\ version' = version + 1
    /\ \E m \in Deployable(version + 1)
                \cup IF Reverts THEN {manifest[v] : v \in 1..version} ELSE {} :
           manifest' = [manifest EXCEPT ![version + 1] = m]
    /\ UNCHANGED <<scene, large, caches, ask, choice, answer, kept, storeFails>>

-----------------------------------------------------------------------------
(* pathCandidates, requestEncodingKey, pickVariantMap, resolveBlob         *)

PathCandidates == IF kind = "route" THEN <<"dir", "file">> ELSE <<"file">>

EncodingKey(b) ==
    IF Raster /\ "webp" \in Accepts[b] THEN "webp"
    ELSE IF "br" \in Accepts[b] THEN "br"
    ELSE IF "gzip" \in Accepts[b] THEN "gz" ELSE "raw"

(* VariantSuffixes a browser may be given of a file, the best first, with the     *)
(* encoding each is sent in.                                               *)
Preferences(b, base) ==
    (IF Raster /\ base # "index" /\ "webp" \in Accepts[b] THEN <<<<".webp", "">>>> ELSE <<>>)
    \o (IF "br" \in Accepts[b] THEN <<<<".br", "br">>>>
        ELSE IF "gzip" \in Accepts[b] THEN <<<<".gz", "gzip">>>> ELSE <<>>)
    \o <<<<"", "">>>>

(* The first member of the sequence that is one of these.                  *)
FirstOf(s, these) ==
    LET hits == {i \in DOMAIN s : s[i] \in these}
    IN  IF hits = {} THEN Absent ELSE s[CHOOSE i \in hits : \A j \in hits : i <= j]

PickVariant(m, b, base) ==
    LET p == FirstOf(Preferences(b, base),
                     {x \in VariantSuffixes \X ContentEncodings : m[<<base, x[1]>>] # Absent})
    IN  IF p = Absent THEN Absent ELSE [blob |-> m[<<base, p[1]>>], encoding |-> p[2]]

ResolveBlob(m, b) ==
    LET tried == PathCandidates \o (IF FallsBack THEN <<"index">> ELSE <<>>)
        base == FirstOf(tried, {x \in Bases : PickVariant(m, b, x) # Absent})
    IN  IF base = Absent THEN Absent ELSE PickVariant(m, b, base)

-----------------------------------------------------------------------------
(* ServeHTTP, from the version on: what is cached, or resolved and then   *)
(* cached for all requests of that encoding key.                           *)

AnswerWith(b, a) ==
    /\ answer' = [answer EXCEPT ![b] = a]
    /\ ask' = [ask EXCEPT ![b].step = "idle"]
    /\ choice' = [choice EXCEPT ![b] = Absent]
    /\ kept' = [kept EXCEPT ![b] = IF a.status = 200 THEN a.what ELSE @]

Choose(b) ==
    LET known == paths[version][EncodingKey(b)]
        found == IF known # Absent THEN known ELSE ResolveBlob(manifest[version], b)
    IN  /\ ask[b].step = "idle"
        /\ IF version \in nowhere \/ found = Absent
           THEN /\ nowhere' = nowhere \cup {version}
                /\ AnswerWith(b, [status |-> 404])
                /\ UNCHANGED paths
           ELSE /\ choice' = [choice EXCEPT ![b] = found]
                /\ paths' = [paths EXCEPT ![version][EncodingKey(b)] = found]
                /\ ask' = [ask EXCEPT ![b] = [step |-> "serve", at |-> version]]
                /\ answer' = [answer EXCEPT ![b] = [status |-> 0]]
                /\ UNCHANGED <<nowhere, kept>>
        /\ UNCHANGED <<site, bodies, storeFails>>

(* checkConditionalHeaders: the validators of what the browser keeps are   *)
(* its blob, and the time that blob was stored, no matter which differs.   *)
BugNotModified(b, what) == kept[b] # Absent /\ kept[b].blob.base = what.blob.base
NotModified(b, what) ==
    /\ kept[b] # Absent
    /\ kept[b].blob = what.blob \/ what.blob.content <= kept[b].blob.content

BodyOf(b) == bodies[ask[b].at][EncodingKey(b)]
PutBody(b, entry) == bodies' = [bodies EXCEPT ![ask[b].at][EncodingKey(b)] = entry]

(* The Caddyfile sends media to MinIO; the caches are the same.            *)
Redirects == Raster \/ kind = "video"

(* serveBlob.  A cached entry that states no encoding takes the one that  *)
(* was chosen; a body comes under its own.                                 *)
LabelFor(b, entry) ==
    IF entry.what.encoding = "" THEN [entry.what EXCEPT !.encoding = choice[b].encoding]
    ELSE entry.what

ServeCached(b, partial) ==
    /\ ask[b].step = "serve" /\ BodyOf(b) # Absent
    /\ IF BodyOf(b).holds = "nothing" THEN AnswerWith(b, [status |-> 404])
       ELSE IF Redirects
       THEN AnswerWith(b, [status |-> 307, what |-> choice[b]])
       ELSE IF NotModified(b, BodyOf(b).what)
       THEN AnswerWith(b, [status |-> 304, what |-> choice[b]])
       ELSE IF BodyOf(b).holds = "body"
       THEN AnswerWith(b, [status |-> IF partial THEN 206 ELSE 200,
                           what |-> LabelFor(b, BodyOf(b))])
       ELSE ask' = [ask EXCEPT ![b].step = "fetch"] /\ UNCHANGED <<choice, answer, kept>>
    /\ UNCHANGED <<site, caches, storeFails>>

MissBody(b) ==
    /\ ask[b].step = "serve" /\ BodyOf(b) = Absent
    /\ ask' = [ask EXCEPT ![b].step = "fetch"]
    /\ UNCHANGED <<site, caches, choice, answer, kept, storeFails>>

(* GetObject: MinIO lets an ETag overrule a date.                          *)
Fetch(b, partial) ==
    /\ ask[b].step = "fetch"
    /\ IF ~Redirects /\ kept[b] # Absent /\ kept[b].blob = choice[b].blob
       THEN AnswerWith(b, [status |-> 304, what |-> choice[b]]) /\ UNCHANGED bodies
       ELSE /\ AnswerWith(b, [status |-> IF Redirects THEN 307 ELSE IF partial THEN 206 ELSE 200,
                              what |-> choice[b]])
            /\ IF partial /\ ~Redirects THEN UNCHANGED bodies
               ELSE PutBody(b, [what |-> choice[b], holds |-> IF large \/ Redirects THEN "metadata" ELSE "body"])
    /\ UNCHANGED <<site, paths, nowhere, storeFails>>

FailFetch(b) ==
    /\ ask[b].step = "fetch" /\ storeFails
    /\ storeFails' = FALSE
    /\ PutBody(b, [what |-> choice[b], holds |-> "nothing"])
    /\ AnswerWith(b, [status |-> 404])
    /\ UNCHANGED <<site, paths, nowhere>>

-----------------------------------------------------------------------------
(* Entries expire and are evicted one by one, and browsers forget.         *)

LapseChoice(v, k) ==
    /\ paths[v][k] # Absent
    /\ paths' = [paths EXCEPT ![v][k] = Absent]
    /\ UNCHANGED <<site, nowhere, bodies, ask, choice, answer, kept, storeFails>>

LapseBody(v, k) ==
    /\ bodies[v][k] # Absent
    /\ bodies' = [bodies EXCEPT ![v][k] = Absent]
    /\ UNCHANGED <<site, paths, nowhere, ask, choice, answer, kept, storeFails>>

LapseNowhere ==
    /\ nowhere # {} /\ nowhere' = {}
    /\ UNCHANGED <<site, paths, bodies, ask, choice, answer, kept, storeFails>>

ForgetCopy(b) ==
    /\ kept[b] # Absent /\ ask[b].step = "idle"
    /\ kept' = [kept EXCEPT ![b] = Absent]
    /\ UNCHANGED <<site, caches, ask, choice, answer, storeFails>>

BlobNext ==
    \/ ActivateSite
    \/ \E b \in scene.browsers :
           \/ Choose(b) \/ MissBody(b) \/ FailFetch(b) \/ ForgetCopy(b)
           \/ \E partial \in BOOLEAN : ServeCached(b, partial) \/ Fetch(b, partial)
    \/ \E v \in ServedVersions, k \in EncodingKeys : LapseChoice(v, k) \/ LapseBody(v, k)
    \/ LapseNowhere

BlobSpec == BlobInit /\ [][BlobNext]_serveVars

-----------------------------------------------------------------------------
(* What the browser can make sense of.                                     *)
EncodingOf(suffix) == CASE suffix = ".br" -> "br" [] suffix = ".gz" -> "gzip" [] OTHER -> ""

(* Whatever browsers share an entry and whichever entries have lapsed, a   *)
(* browser gets a file of the path, or the fallback if there is none,      *)
(* under the encoding it is really in, in a form it has said it accepts.   *)
RightRepresentation ==
    \A b \in Browsers : answer[b].status \in {200, 206, 307} =>
        LET w == answer[b].what IN
            /\ w.encoding = EncodingOf(w.blob.suffix)
            /\ w.encoding \in Accepts[b] \cup {""}
            /\ w.blob.suffix = ".webp" => "webp" \in Accepts[b]
            /\ w.blob.base = "index" =>
                   \A base \in {"dir", "file"} : manifest[ask[b].at][<<base, "">>] = Absent

(* "MUST validate with server on every load": a browser that is told its   *)
(* copy is good has a copy of what the version it asked for has there.     *)
NotModifiedIsTrue ==
    \A b \in Browsers : answer[b].status = 304 /\ kept[b] # Absent =>
        kept[b].blob = answer[b].what.blob
==============================================================================
