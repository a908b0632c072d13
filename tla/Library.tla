------------------------------ MODULE Library ------------------------------
(***************************************************************************)
(* The music library as crates/mba-player/src/library.rs sees it: what one *)
(* system call on the file tree answers, and what the code makes of it.    *)
(* The calls of one request are separate steps (HttpApi), because rsync    *)
(* changes the tree at any time.                                           *)
(*                                                                         *)
(* A path is the sequence of its names; a requested path may also hold the *)
(* parts DOT (".") and FOREIGN, which stands for whatever makes it         *)
(* absolute, a URI or invalid.  A tree gives the kind of each path; a      *)
(* "closed" directory is one this process may neither list nor enter.      *)
(***************************************************************************)
EXTENDS Integers, Sequences, SequencesExt

CONSTANTS
    NameOrder,  \* the names, as compare_names orders them
    Hidden,     \* the names that begin with a dot, ".." among them
    Audio,      \* the names with a supported extension
    Trimmed,    \* each name without the blanks at its end (those at its start alike)
    DOT, FOREIGN,
    LibraryPaths  \* the paths something may be found at

Names == ToSet(NameOrder)
Parts == Names \cup {DOT, FOREIGN}
Directories == {"dir", "closed"}
Trees == [LibraryPaths -> Directories \cup {"file", "link", "absent"}]

ASSUME NamesAssumption == /\ IsInjective(NameOrder) /\ Hidden \subseteq Names
                          /\ Audio \subseteq Names /\ Trimmed \in [Names -> Names]
                          /\ NameOrder \in Seq(Names) /\ DOT \notin Names /\ FOREIGN \notin Names

Prefix(path, k) == SubSeq(path, 1, k)
Below(path, dir) == Len(dir) < Len(path) /\ Prefix(path, Len(dir)) = dir

ASSUME PathsAssumption ==
    /\ LibraryPaths \subseteq Seq(Names) /\ <<>> \in LibraryPaths
    /\ \A path \in LibraryPaths : \A k \in 0..Len(path) : Prefix(path, k) \in LibraryPaths

(* What there is, is in directories.                                       *)
IsTree(tree) ==
    \A path \in LibraryPaths :
        tree[path] # "absent" => \A k \in 0..(Len(path) - 1) : tree[Prefix(path, k)] \in Directories

(* The elements of a sequence that are in a set, in their order (SelectSeq,*)
(* by a recursive function).                                               *)
Kept(s, S) ==
    LET kept[k \in 0..Len(s)] ==
            IF k = 0 THEN <<>>
            ELSE IF s[k] \in S THEN Append(kept[k - 1], s[k]) ELSE kept[k - 1]
    IN kept[Len(s)]

-----------------------------------------------------------------------------
(* normalize_library_path: the requested path is trimmed, a "." after the  *)
(* first part is dropped, and what could leave the library is refused.     *)
Trim(raw) == IF raw = <<>> \/ Last(raw) \notin Names THEN raw
             ELSE [raw EXCEPT ![Len(raw)] = Trimmed[@]]
Refused(raw) == LET path == Trim(raw) IN
    \E i \in DOMAIN path : path[i] \in Hidden \cup {FOREIGN} \/ (i = 1 /\ path[i] = DOT)
Normalized(raw) == Kept(Trim(raw), Parts \ {DOT})

(* symlink_metadata of a path, and what resolve_existing makes of it.      *)
Blocked(tree, path) ==
    \E k \in 0..(Len(path) - 1) : tree[Prefix(path, k)] \in {"closed", "file"}
Found(tree, path) == IF path \in LibraryPaths THEN tree[path] ELSE "absent"
LookupStatus(tree, path) ==
    CASE Blocked(tree, path) -> 500
      [] Found(tree, path) = "absent" -> 404
      [] Found(tree, path) = "link" -> 400
      [] OTHER -> 200

(* read_visible_children: directories first, each kind in order; whatever  *)
(* is hidden, a link or not a track is passed over.                        *)
Readable(tree, dir) == ~ Blocked(tree, dir) /\ tree[dir] = "dir"
ChildrenOf(tree, dir, kinds, names) ==
    LET visible == Kept(NameOrder, {name \in names \ Hidden : /\ Append(dir, name) \in LibraryPaths
                                                              /\ tree[Append(dir, name)] \in kinds}) IN
    [i \in DOMAIN visible |-> Append(dir, visible[i])]
DirectoriesIn_Links(tree, dir) ==   \* Mutant: links are followed.
    ChildrenOf(tree, dir, Directories \cup {"link"}, Names)
DirectoriesIn(tree, dir) == ChildrenOf(tree, dir, Directories, Names)
TracksIn(tree, dir) == ChildrenOf(tree, dir, {"file"}, Audio)

-----------------------------------------------------------------------------
(* References the properties compare with.                                 *)

(* The tracks a directory holds at one instant, at any depth, readable or  *)
(* not.                                                                    *)
TracksUnder(tree, dir) ==
    {path \in LibraryPaths :
        /\ path # <<>> /\ Below(path, dir) /\ tree[path] = "file" /\ Last(path) \in Audio
        /\ \A k \in 0..(Len(path) - 1) : tree[Prefix(path, k)] \in Directories
        /\ \A k \in DOMAIN path : path[k] \notin Hidden}

(* Depth first, a directory before the files beside it.                    *)
Rank(name) == CHOOSE i \in DOMAIN NameOrder : NameOrder[i] = name
Before(a, b) ==
    \E k \in DOMAIN a \cap DOMAIN b :
        /\ Prefix(a, k - 1) = Prefix(b, k - 1) /\ a[k] # b[k]
        /\ IF (k < Len(a)) = (k < Len(b)) THEN Rank(a[k]) < Rank(b[k]) ELSE k < Len(a)
=============================================================================
