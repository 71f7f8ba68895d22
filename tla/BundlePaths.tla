---------------------------- MODULE BundlePaths ----------------------------
(***************************************************************************)
(* The names of files in a bundle: what a ZIP entry or a content URL calls *)
(* a file, and the path under files/ that it means.                        *)
(*                                                                         *)
(* A name is the sequence of its segments, split at "/" (cleanRelative     *)
(* turns "\" into "/" first): "/a" is <<"", "a">>, "a/" is <<"a", "">>.    *)
(* The segment "x..y" stands for those that contain ".." within, "NUL" for *)
(* those with a NUL character.                                             *)
(***************************************************************************)
EXTENDS Integers, SequencesExt

CONSTANTS
    Names,    \* the names entries and requests use
    MaxBytes, \* RENDERCASE_MAX_BUNDLE_BYTES
    None      \* no path, no object

ASSUME NamesAssumption == Names \subseteq Seq(STRING) \ {<<>>}
ASSUME MaxBytesAssumption == MaxBytes \in Nat \ {0}

\* Variant: ".." takes away nothing below the root, as in a rooted path.
PushRooted(path, segment) ==
    IF segment \in {"", "."} THEN path
    ELSE IF segment = ".." THEN Front(path)
    ELSE Append(path, segment)

\* path.Clean, one segment: ".." takes away the segment before it and stays
\* where there is none to take away.
Push(path, segment) ==
    IF segment \in {"", "."} THEN path
    ELSE IF segment = ".." /\ path # <<>> /\ Last(path) # ".."
      THEN Front(path)
    ELSE Append(path, segment)

Clean(name) == FoldLeft(Push, <<>>, name)

\* cleanRelative, and containedPath, which a cleaned path always passes: None is
\* its error.  The empty path is path.Clean's ".".
CleanRelative(name) ==
    LET rooted == Len(name) > 1 /\ Head(name) = ""
        path == Clean(name)
    IN
    IF rooted \/ Contains(name, "NUL") \/ path = <<>> \/ Head(path) = ".."
      THEN None ELSE path

\* strings.Contains(name, ".."), which StageZIP asks of the name as it is.
Dotted(name) == Contains(name, "..") \/ Contains(name, "x..y")

\* A name that ends in "/" is a directory's.
Directory(name) == Last(name) = ""

Paths == {CleanRelative(name) : name \in Names} \ {None}

Least(a, b) == IF a < b THEN a ELSE b
=============================================================================
