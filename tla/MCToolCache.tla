------------------------------ MODULE MCToolCache ------------------------------
(* Instances of ToolCache for TLC. *)
EXTENDS ToolCache, TLC

CONSTANTS f1, f2

\* The file f1 is src/a/x, the file f2 is src/y.
TwoFiles == {f1, f2}
TreeNames == {"src", "src/a", "src/a/x", "./src/a/x", "src/y"}
TreeFileNames == {"src/a/x", "./src/a/x", "src/y"}
TreeSpells == "src" :> {f1, f2} @@ "src/a" :> {f1} @@ "src/a/x" :> {f1} @@ "./src/a/x" :> {f1} @@ "src/y" :> {f2}
TreeParent == "src" :> NoName @@ "src/a" :> "src" @@ "src/a/x" :> "src/a"
              @@ "./src/a/x" :> NoName @@ "src/y" :> "src"
TreeNameOf == f1 :> "src/a/x" @@ f2 :> "src/y"
TreeDirOf == f1 :> "src/a" @@ f2 :> "src"
Lifetimes == "fs_read" :> 2 @@ "fs_grep" :> 1 @@ "fs_glob" :> 1
=============================================================================
