------------------------------- MODULE MCFiles -------------------------------
(***************************************************************************)
(* Stored files, side by side: their garbage collection (BlobGC), how one  *)
(* path of a site is served (BlobServe), and the LRU in between (LruCache);*)
(* with them the key of a deploy (Idempotency), the names of its files     *)
(* (Publish), the start of API instances (Migrations) and a blob server    *)
(* for a single tenant (SingleTenant).  They share no state: a behaviour   *)
(* is one of one part, and leaves the others as they began.                *)
(***************************************************************************)
EXTENDS MCBlobGC, BlobServe, LruCache, Migrations, MCIdempotency, Publish,
        SingleTenant

(* "twin" accepts what "new" does, and so shares its entries.              *)
MCAccepts == [b \in Browsers |->
                 IF b = "old" THEN {"gzip", "webp"} ELSE {"br", "gzip", "webp"}]

Scene(path, browsers, activations) ==
    [kind |-> path, browsers |-> browsers, activations |-> activations]
Style == Scene("style", {"new", "twin"}, 1)
Restyled == Scene("style", {"new", "twin"}, 2)
MCScenes == {Style, Restyled, Scene("style", {"new"}, 2), Scene("route", {"new", "old"}, 1),
             Scene("image", {"new", "old"}, 2), Scene("video", {"new", "old"}, 1)}

(* Tables of the first release only, of the newest, of a push, and of a    *)
(* push on top of the first release.                                       *)
MCDatabases == {FreshDatabase, PushedDatabase, PushedPast(1),
                MigratedDatabase(1), MigratedDatabase(Newest)}

(* Paths of a client's list, the last five odd; of a build's output, the    *)
(* last two.  No path has blanks around a slash: each normalization takes  *)
(* one of them away, and the blob server makes one more than the API.      *)
Page == <<"a", ".html">>
Image == <<"a", ".png">>
CliPaths == {Page, <<"a", "/">> \o Page, <<"a", ".zip">>, <<".gz">>, Image,
             Append(Image, ".webp"), <<"/">> \o Page,
             <<"..", "/">> \o Page, <<"a", "/", "/">> \o Page, <<" ">> \o Page,
             <<"%2e", "/">> \o Page, Append(Page, "/")}
OutputPaths == {Page, <<"a", "/">> \o Page, <<"a">>, <<"index", ".html">>, Image,
                Append(Image, ".webp"), Append(Page, ".br"), Append(Page, ".gz"),
                <<"a", ".zip">>, <<" ">> \o Page, <<"%2e">> \o Page}

Magic(path) == IF ExtensionOf(path) = ".html" THEN "" ELSE ExtensionOf(path)
ListedFiles(names, sizes) ==
    {[path |-> p, size |-> n, magic |-> Magic(p)] : p \in names, n \in sizes}
Disguised == [path |-> Page, size |-> 1, magic |-> ".zip"]

MCCliLists ==
    BoundedSeq(ListedFiles(CliPaths, {1, 2}) \cup ListedFiles({Page}, {0, 3}) \cup {Disguised}, 2)
MCBuildLists ==
    {list \in BoundedSeq(ListedFiles(OutputPaths, {1}), 3) : IsInjective(list)}

(* Of the settings: a route kept as a body; a page that may fall back,     *)
(* kept as metadata, being large or redirected to, and not kept at all.    *)
Serving(name, cacheOn, redirect, big) ==
    [path |-> name, fallback |-> TRUE, caches |-> cacheOn, redirects |-> redirect,
     large |-> big]
MCServices == {Serving("route", TRUE, FALSE, FALSE), Serving("page", TRUE, FALSE, TRUE),
               Serving("page", TRUE, TRUE, FALSE), Serving("page", FALSE, FALSE, FALSE)}

VARIABLE part

Play(name) == part = name /\ UNCHANGED part

FilesInit ==
    /\ part \in {"gc", "serve", "lru", "start", "key", "names", "single"}
    /\ GcInit /\ (part # "gc" => regime = Crossed)
    /\ BlobInit /\ (scene = Restyled => ~large)   \* a bound
    /\ (part # "serve" => /\ scene = Style /\ ~large
                          /\ manifest = [v \in ServedVersions |-> ManifestOf({}, 1, {})])
    /\ LruInit
    /\ MigrationInit /\ (part # "start" => applied = {})
    /\ Init
    /\ PublishInit /\ (part # "names" => origin = "build" /\ listed = <<>>)
    /\ SingleInit /\ (part # "single" => setting = Serving("route", TRUE, FALSE, FALSE))

AllListen == (\A i \in Instances : start[i] = "up") /\ UNCHANGED migrationVars

FilesNext ==
    \/ /\ Play("gc") /\ GcNext
       /\ UNCHANGED <<serveVars, lruVars, migrationVars, vars, publishVars, singleVars>>
    \/ /\ Play("serve") /\ BlobNext
       /\ UNCHANGED <<gcVars, lruVars, migrationVars, vars, publishVars, singleVars>>
    \/ /\ Play("lru") /\ LruNext
       /\ UNCHANGED <<gcVars, serveVars, migrationVars, vars, publishVars, singleVars>>
    \/ /\ Play("start") /\ (MigrationNext \/ AllListen)
       /\ UNCHANGED <<gcVars, serveVars, lruVars, vars, publishVars, singleVars>>
    \/ /\ Play("key") /\ Next
       /\ UNCHANGED <<gcVars, serveVars, lruVars, migrationVars, publishVars, singleVars>>
    \/ /\ Play("names") /\ PublishNext
       /\ UNCHANGED <<gcVars, serveVars, lruVars, migrationVars, vars, singleVars>>
    \/ /\ Play("single") /\ SingleNext
       /\ UNCHANGED <<gcVars, serveVars, lruVars, migrationVars, vars, publishVars>>

allVars == <<part, gcVars, serveVars, lruVars, migrationVars, vars, publishVars, singleVars>>

FilesSpec == FilesInit /\ [][FilesNext]_allVars
==============================================================================
