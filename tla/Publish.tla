------------------------------- MODULE Publish -------------------------------
(***************************************************************************)
(* The names of a deployment's files on their way from a client's list or  *)
(* a build's output directory to a visitor's request: three checks of the  *)
(* list, the variants made of each file, the rows of the tree, the         *)
(* manifest the API writes and the same manifest read by a blob server.    *)
(*                                                                         *)
(* A path is a sequence of tokens.  A file's blob is <<i, suffix>>: the    *)
(* i-th file of the list, or a variant the server makes of it.             *)
(***************************************************************************)
EXTENDS Naturals, SequencesExt, Lists

CONSTANTS
    CliLists,       \* file lists of clients: [path, size, magic], magic being
    BuildLists,     \* the extension the first bytes tell, or ""; of builds
    MaxFileCount,   \* MAX_FILE_COUNT
    MaxFileBytes,   \* MAX_SINGLE_FILE_BYTES
    MaxTotalBytes   \* MAX_FILE_SIZE

Blanks == {" "}
Escapes == {"..", "%2e"}
Extensions == {".html", ".png", ".webp", ".br", ".gz", ".zip"}
Tokens == {"/", "a", "index"} \cup Blanks \cup Escapes \cup Extensions

(* No slash is followed by a blank: each normalization takes one such pair *)
(* away at the front, and the blob server makes one more than the API.     *)
Firm(p) == \A i \in 1..(Len(p) - 1) : p[i] = "/" => p[i + 1] \notin Blanks

ListedFile == [path : Seq(Tokens), size : Nat, magic : Extensions \cup {""}]

(* A directory holds each name once.                                       *)
ASSUME PublishAssumption ==
    /\ CliLists \cup BuildLists \subseteq Seq(ListedFile)
    /\ \A list \in CliLists \cup BuildLists : \A i \in DOMAIN list : Firm(list[i].path)
    /\ \A list \in BuildLists : \A i, j \in DOMAIN list :
           list[i].path # <<>> /\ (list[i].path = list[j].path => i = j)

VARIABLES
    listed,     \* the list of files
    origin,     \* "cli" or "build"
    standing,   \* how far the deployment has come
    treeRows,   \* blob_tree_entries, as pairs of a path and a blob
    published,  \* files of the manifest object, a function
    served      \* files of the manifest in a blob server's cache

publishVars == <<listed, origin, standing, treeRows, published, served>>

NoFiles == [p \in {} |-> <<>>]

PublishInit ==
    /\ \/ origin = "cli" /\ listed \in CliLists
       \/ origin = "build" /\ listed \in BuildLists
    /\ standing = "listed"
    /\ treeRows = {} /\ published = NoFiles /\ served = NoFiles

-----------------------------------------------------------------------------
(* Paths.                                                                  *)

TrimBoth(p, drop) ==
    LET kept == {i \in DOMAIN p : p[i] \notin drop}
    IN  IF kept = {} THEN <<>> ELSE SubSeq(p, Min(kept), Max(kept))

WithoutHead(p, token) == IF p # <<>> /\ Head(p) = token THEN Tail(p) ELSE p

JoinSlashes(p) ==
    Picked(p, {i \in DOMAIN p : ~(i > 1 /\ p[i] = "/" /\ p[i - 1] = "/")})

BaseName(p) ==
    LET clean == TrimBoth(p, {"/"})
        cuts == {i \in DOMAIN clean : clean[i] = "/"}
    IN  SubSeq(clean, Max(cuts \cup {0}) + 1, Len(clean))

(* A dotfile has no extension.                                             *)
ExtensionOf(p) ==
    LET base == BaseName(p)
    IN  IF Len(base) > 1 /\ Last(base) \in Extensions THEN Last(base) ELSE ""

(* normalizeManifestPath, null being Invalid.                              *)
Invalid == <<"invalid">>
NormalizePath(p) ==
    LET bare == WithoutHead(TrimBoth(p, Blanks), "/")
    IN  IF p = <<>> \/ ToSet(bare) \cap Escapes # {} THEN Invalid
        ELSE WithoutHead(JoinSlashes(bare), "/")

(* The files of a set of pairs under their normalized paths, if those are  *)
(* valid and differ.                                                       *)
Normalized(pairs) == {<<NormalizePath(e[1]), e[2]>> : e \in pairs}
AllValid(pairs) ==
    /\ \A e \in pairs : NormalizePath(e[1]) # Invalid
    /\ \A e, f \in pairs : NormalizePath(e[1]) = NormalizePath(f[1]) => e = f

FilesOf(pairs) == [p \in {e[1] : e \in pairs} |-> (CHOOSE e \in pairs : e[1] = p)[2]]
PairsOf(files) == {<<p, files[p]>> : p \in DOMAIN files}

-----------------------------------------------------------------------------
(* What the API asks of a list.                                            *)

(* deployFileSchema                                                        *)
InSchema(f) ==
    f.path # <<>> /\ Head(f.path) # "/" /\ ".." \notin ToSet(f.path) /\ f.size > 0

(* validateManifest                                                        *)
WithinLimits(list) ==
    /\ Len(list) <= MaxFileCount
    /\ \A i \in DOMAIN list :
           list[i].size <= MaxFileBytes /\ ExtensionOf(list[i].path) # ".zip"

(* validateFile: what is not known by its first bytes must have an         *)
(* extension of texts, what is known must have its own.                    *)
TypeAllowed(f) ==
    LET ext == ExtensionOf(f.path) IN
    /\ ext \notin {".gz", ".zip"} /\ f.magic \notin {".gz", ".zip"}
    /\ ext = (IF f.magic = "" THEN ".html" ELSE f.magic)

TotalSize(list) == FoldLeft(LAMBDA sum, f : sum + f.size, 0, list)
PathsOf(list) == {list[i].path : i \in DOMAIN list}

Refuse(s) == standing' = s /\ UNCHANGED <<treeRows, published, served>>

(* prepareDeploy                                                           *)
PrepareList ==
    /\ standing = "listed" /\ origin = "cli"
    /\ IF /\ listed # <<>>
          /\ \A i \in DOMAIN listed : InSchema(listed[i]) /\ TypeAllowed(listed[i])
          /\ WithinLimits(listed)
          /\ Cardinality(PathsOf(listed)) = Len(listed)
          /\ TotalSize(listed) <= MaxTotalBytes
       THEN standing' = "accepted" ELSE standing' = "refused"
    /\ UNCHANGED <<treeRows, published, served>>

(* validateOutputDir; deployFromLocalDirectory then lists what is there.   *)
CheckOutput ==
    /\ standing = "listed" /\ origin = "build"
    /\ standing' = IF WithinLimits(listed) THEN "accepted" ELSE "refused"
    /\ UNCHANGED <<treeRows, published, served>>

-----------------------------------------------------------------------------
(* storeExpandedVariants                                                   *)

MadeOf(path) ==
    CASE ExtensionOf(path) = ".html" -> {".br", ".gz"}
      [] ExtensionOf(path) = ".png" -> {".webp"}
      [] OTHER -> {}

(* A path the client has used itself is not given to a variant.            *)
BugClaimable(path) == TRUE
Claimable(path) == path \notin PathsOf(listed)

ExpandList(failed) ==
    /\ standing = "accepted"
    /\ standing' = "expanded"
    /\ treeRows' =
           {<<listed[i].path, <<i, "">>>> : i \in DOMAIN listed}
           \cup UNION {{<<Append(listed[i].path, s), <<i, s>>>> :
                           s \in {s \in MadeOf(listed[i].path) \ failed :
                                      Claimable(Append(listed[i].path, s))}} :
                       i \in DOMAIN listed}
    /\ UNCHANGED <<published, served>>

(* An empty tree is refused, and a path that is there twice by the tree's  *)
(* index; buildManifestFromBlobTree normalizes every path, and             *)
(* validateDeploymentManifest does so again.                               *)
UniquePaths(pairs) == \A e, f \in pairs : e[1] = f[1] => e = f

PublishTree ==
    /\ standing = "expanded"
    /\ IF /\ treeRows # {} /\ UniquePaths(treeRows)
          /\ AllValid(treeRows) /\ AllValid(Normalized(treeRows))
       THEN /\ standing' = "published"
            /\ published' = FilesOf(Normalized(Normalized(treeRows)))
            /\ UNCHANGED <<treeRows, served>>
       ELSE Refuse("failed")

(* The blob server's validateDeploymentManifest                            *)
LoadPublished ==
    /\ standing = "published"
    /\ IF AllValid(PairsOf(published))
       THEN /\ standing' = "served"
            /\ served' = FilesOf(Normalized(PairsOf(published)))
            /\ UNCHANGED <<treeRows, published>>
       ELSE Refuse("broken")

PublishNext ==
    /\ UNCHANGED <<listed, origin>>
    /\ \/ PrepareList \/ CheckOutput \/ PublishTree \/ LoadPublished
       \/ \E failed \in SUBSET {".br", ".gz", ".webp"} : ExpandList(failed)

PublishSpec == PublishInit /\ [][PublishNext]_publishVars

-----------------------------------------------------------------------------
(* A request for a path, from a browser that accepts no encoding.          *)
RequestPaths(url) ==
    LET clean == TrimBoth(url, {"/"})
    IN  IF clean = <<>> THEN <<<<"index", ".html">>>>
        ELSE IF ExtensionOf(clean) # "" THEN <<clean>>
        ELSE <<clean \o <<"/", "index", ".html">>, Append(clean, ".html"), clean>>

FileFor(url) ==
    LET hits == Filter(RequestPaths(url), DOMAIN served)
    IN  IF hits = <<>> THEN <<>> ELSE served[Head(hits)]

(* A plain path is its own normal form, and no request for a route.        *)
Plain(p) ==
    /\ TrimBoth(p, {"/"} \cup Blanks) = p
    /\ ToSet(p) \cap Escapes = {}
    /\ ~\E i \in 1..(Len(p) - 1) : p[i] = "/" /\ p[i + 1] \in {"/", " "}

-----------------------------------------------------------------------------
PublishTypeOK ==
    /\ origin \in {"cli", "build"}
    /\ standing \in {"listed", "refused", "accepted", "expanded", "failed",
                  "published", "broken", "served"}
    /\ \A e \in treeRows : e[1] \in Seq(Tokens)

(* What the API's checks let through and its manifest says, the blob       *)
(* server reads alike: no manifest that was published is refused there,    *)
(* each file of the list is still there as it was given, no variant or     *)
(* other file in its place, and a plain path with an extension is what a   *)
(* request for it gets.  Only an empty output directory, or a list with a  *)
(* path that is not plain, may fail after its files were accepted.         *)
PublishedIsServed ==
    /\ standing # "broken"
    /\ standing = "failed" => listed = <<>> \/ \E p \in PathsOf(listed) : ~Plain(p)
    /\ standing = "served" => \A i \in DOMAIN listed :
           /\ <<i, "">> \in {served[p] : p \in DOMAIN served}
           /\ Plain(listed[i].path) /\ ExtensionOf(listed[i].path) # "" =>
                  FileFor(<<"/">> \o listed[i].path) = <<i, "">>
==============================================================================
