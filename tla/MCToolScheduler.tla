-------------------------- MODULE MCToolScheduler --------------------------
(* A small file system for ToolScheduler: the root, a directory spelled in  *)
(* two cases, a file in it and a sibling, and the access lists tools        *)
(* declare on them.                                                         *)
EXTENDS ToolScheduler

MCSegment == {"src", "SRC", "a", "b"}
MCCaseFold == [s \in MCSegment |-> IF s = "SRC" THEN "src" ELSE s]
MCPath == {<<>>, <<"src">>, <<"SRC">>, <<"src", "a">>, <<"SRC", "a">>, <<"b">>}

File(operation, path, recursive) ==
    [kind |-> "file", operation |-> operation, path |-> path,
     recursive |-> recursive]

(* none(), all(), readFile, writeFile, searchTree, writeTree and a tool     *)
(* with two accesses.                                                       *)
MCDeclaredAccesses ==
    { {}, {All},
      {File("read", <<"SRC", "a">>, FALSE)},
      {File("readwrite", <<"src", "a">>, FALSE)},
      {File("search", <<>>, TRUE)},
      {File("write", <<"src">>, TRUE)},
      {File("read", <<"src", "a">>, FALSE), File("write", <<"b">>, FALSE)} }
=============================================================================
