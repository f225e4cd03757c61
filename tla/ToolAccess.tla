----------------------------- MODULE ToolAccess -----------------------------
(***************************************************************************)
(* The resources a tool call declares and the test that decides whether    *)
(* two calls may run side by side (tool/toolContract.ts).  A path is the   *)
(* sequence of its segments, the root being << >>: splitting at "/" is     *)
(* what the prefix test with a trailing "/" computes on the string.        *)
(***************************************************************************)
EXTENDS Naturals, Sequences

CONSTANTS
    Segment,    \* path segments, as a tool spells them
    CaseFold,   \* the segment after toLowerCase()
    Path        \* the paths tools may name

ASSUME CaseFoldAssumption == CaseFold \in [Segment -> Segment]
ASSUME PathAssumption == Path \subseteq Seq(Segment)

All == [kind |-> "all"]

FileAccess ==
    [kind : {"file"}, operation : {"read", "search", "write", "readwrite"},
     path : Path, recursive : BOOLEAN]

ResourceAccess == {All} \cup FileAccess

(* A call's accesses: a set, for the code only asks whether some pair of    *)
(* them conflicts.                                                          *)
Accesses == SUBSET ResourceAccess

NormalizePath(p) == [i \in DOMAIN p |-> CaseFold[p[i]]]

FileOperationWrites(operation) == operation \in {"write", "readwrite"}

FileOperationsConflict(left, right) ==
    FileOperationWrites(left) \/ FileOperationWrites(right)

(* p lies strictly below dir: p.startsWith(dir + "/").                      *)
StartsWith(p, dir) ==
    /\ Len(dir) < Len(p)
    /\ \A i \in 1..Len(dir) : p[i] = dir[i]

(* Seeded fault: a tree declared by the later call is taken for one file.   *)
FileAccessesOverlapOneSided(left, right) ==
    LET leftPath == NormalizePath(left.path)
        rightPath == NormalizePath(right.path)
    IN  \/ leftPath = rightPath
        \/ left.recursive /\ StartsWith(rightPath, leftPath)

FileAccessesOverlap(left, right) ==
    LET leftPath == NormalizePath(left.path)
        rightPath == NormalizePath(right.path)
    IN  \/ leftPath = rightPath
        \/ left.recursive /\ StartsWith(rightPath, leftPath)
        \/ right.recursive /\ StartsWith(leftPath, rightPath)

ResourceAccessesConflict(left, right) ==
    \/ left = All
    \/ right = All
    \/ /\ All \notin {left, right}
       /\ FileOperationsConflict(left.operation, right.operation)
       /\ FileAccessesOverlap(left, right)

Conflict(left, right) ==
    \E l \in left, r \in right : ResourceAccessesConflict(l, r)

-----------------------------------------------------------------------------
(* What the declarations mean, independently of the test above: the files a *)
(* call may read or modify.                                                 *)
Touches(access, p) ==
    \/ access = All
    \/ /\ access # All
       /\ \/ NormalizePath(p) = NormalizePath(access.path)
          \/ /\ access.recursive
             /\ StartsWith(NormalizePath(p), NormalizePath(access.path))

Modifies(access, p) ==
    /\ Touches(access, p)
    /\ access = All \/ FileOperationWrites(access.operation)

(* Two calls race when one may modify a file the other touches.             *)
Race(left, right) ==
    \E l \in left, r \in right, p \in Path :
        /\ Touches(l, p) /\ Touches(r, p)
        /\ Modifies(l, p) \/ Modifies(r, p)
=============================================================================
