------------------------------ MODULE RefTarget ------------------------------
(***************************************************************************)
(* Where the bundle of a ref is, for the host (ref_resolve.go) and for the *)
(* venv (preset_ref.py, resolve.py, marker.py, catalog.py), and how the    *)
(* venv fetches a document that is on no disk (flashhub.py).               *)
(*                                                                         *)
(* A ref is its form ("path", "short" or "url"), its namespace, and what   *)
(* follows its @.  The bundle's name and version are the same everywhere   *)
(* here, so that every ref of FlashHub has the same cache key.             *)
(*                                                                         *)
(* disk.here is the document in the directory the ref's text names,        *)
(* disk.tree the one in the cache, disk.root where the completion marker   *)
(* says the tree is, disk.index the venv's cached index of the repository, *)
(* disk.file the temporary copy of a fetched document.                     *)
(***************************************************************************)
EXTENDS Naturals, Sequences

None == "none"
NoTree == [version |-> "none"]
NoIndex == <<>>

\* is_flashhub_ref, IsFlashHub
IsFlashHub(ref) == ref.form \in {"short", "url"}

\* _split_variant, SplitVariant: an @ with nothing after it is refused.
RefFits(ref) == ref.at # "blank"

\* _repo_url_from_body, parse_preset_ref: the repository is of one namespace.
RepoUrl(ref) == ref.namespace

\* cache_key, cache_key_from_coordinates, TreeKey: bundle and version only, so
\* that every namespace has the same tree.
CacheKey(ref) == IF IsFlashHub(ref) THEN "tree" ELSE None

\* ensureBundleRef: what looks like a FlashHub ref is one.
GoTarget(ref) == IF IsFlashHub(ref) THEN CacheKey(ref) ELSE "here"

\* resolve_run_target: a directory that holds a bundle comes first.
PyTarget(ref, disk) ==
    IF disk.here # NoTree THEN "here" ELSE CacheKey(ref)

\* read_preset_marker: the marker is in the cached tree.
MarkedTree(disk) ==
    IF disk.tree # NoTree /\ disk.root = "tree" THEN disk.tree ELSE NoTree

\* resolve_bundle_root: FLASHCLI_BUNDLE_ROOT, the directory, or the marker's.
Root(disk, target, env) ==
    IF env # None /\ disk[env] # NoTree THEN disk[env]
    ELSE IF target = "here" THEN disk.here
    ELSE MarkedTree(disk)

-----------------------------------------------------------------------------
(* A document from FlashHub.  An index is a sequence of files: path ("top" *)
(* or a directory), document, and whether the MD5 is known.                *)

\* RepoIndex.find, Index.Find: the path, or else the first of that name
Found(index) ==
    LET top == {i \in DOMAIN index : index[i].path = "top"}
        candidates == IF top # {} THEN top ELSE DOMAIN index
    IN  index[CHOOSE i \in candidates : \A j \in candidates : i <= j]

\* fetch_repo_index: a cached index is never too old.
Index(disk, hub) == IF disk.index # NoIndex THEN disk.index ELSE hub

\* download_repo_file: a file is used again when its MD5 is right, or unknown.
Reuses(file, entry) == file # NoTree /\ (entry.md5 => file = entry.doc)

\* download_url_to_path: through a .part file, whole or not at all
Downloads(file, entry) == {file, entry.doc}

\* download_manifest_from_repo: what it leaves, and whether it gave the document.
\* FlashHub may not answer, for the index or for the file, and a file of another
\* MD5 than the index's is deleted.
Fetches(disk, hub) ==
    LET index == Index(disk, hub)
        entry == Found(index)
        left(file, done) == [disk |-> [disk EXCEPT !.index = index, !.file = file], done |-> done]
    IN  IF Reuses(disk.file, entry) THEN {left(disk.file, TRUE)}
        ELSE {left(f, f = entry.doc) : f \in Downloads(disk.file, entry)}
             \cup {left(NoTree, FALSE)}

\* fetch_json_url
Answers(disk, hub) ==
    Fetches(disk, hub)
    \cup (IF disk.index = NoIndex THEN {[disk |-> disk, done |-> FALSE]} ELSE {})
=============================================================================
