--------------------------- MODULE MCToolExecutor ---------------------------
(* Three tool calls over one directory: a writer of a file, a reader of the *)
(* tree around it and a tool that declares nothing about itself.            *)
EXTENDS ToolExecutor

MCSegment == {"src", "SRC", "a"}
MCCaseFold == [s \in MCSegment |-> IF s = "SRC" THEN "src" ELSE s]
MCPath == {<<>>, <<"src">>, <<"src", "a">>, <<"SRC", "a">>}

File(operation, path, recursive) ==
    [kind |-> "file", operation |-> operation, path |-> path,
     recursive |-> recursive]

MCDeclaredAccesses ==
    { {All},
      {File("write", <<"SRC", "a">>, FALSE)},
      {File("search", <<"src">>, TRUE)} }
=============================================================================
