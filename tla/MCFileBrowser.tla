--------------------------- MODULE MCFileBrowser ---------------------------
(* A node with the tree  /e/  /a/f  /a/s/x  and one where /a/f is a directory. *)
EXTENDS FileBrowser

MCNodes == {"n1", "n2"}
MCItems == {"/", "e", "a", "f", "s", "x"}
MCParent == [p \in MCItems |-> CASE p \in {"f", "s"} -> "a" [] p = "x" -> "s" [] OTHER -> "/"]
MCAbove == [p \in MCItems |-> CASE p = "/" -> {}
                                [] p \in {"f", "s"} -> {"a", "/"}
                                [] p = "x" -> {"s", "a", "/"}
                                [] OTHER -> {"/"}]
Tree1 == [p \in {"/", "e", "a", "s"} |->
            CASE p = "/" -> {"e", "a"} [] p = "a" -> {"f", "s"}
              [] p = "s" -> {"x"} [] OTHER -> {}]
Tree2 == [p \in {"/", "a", "f"} |->
            CASE p = "/" -> {"a"} [] p = "a" -> {"f"} [] OTHER -> {}]
MCTree == [n \in MCNodes |-> IF n = "n1" THEN Tree1 ELSE Tree2]

Folder(p) == [path |-> p, slash |-> TRUE]
MCOpenedWith == {[node |-> "none", selected |-> {}],
                 [node |-> "n1", selected |-> {}],
                 [node |-> "n1", selected |-> {Folder("s")}],
                 [node |-> "n1", selected |-> {[path |-> "f", slash |-> FALSE], Folder("e")}]}
EditedJob == {[node |-> "n1", selected |-> {Folder("s")}]}
=============================================================================
