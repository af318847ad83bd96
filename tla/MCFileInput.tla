----------------------------- MODULE MCFileInput ---------------------------
(***************************************************************************)
(* Instances of FileInput for TLC: files a, b, a backup of a from earlier, *)
(* a directory, a file which does not exist, and standard input.           *)
(***************************************************************************)
EXTENDS FileInput

Text(n, count) == [kind |-> "file", text |-> [k \in 1 .. count |-> <<n, k>>]]
Other(kind) == [kind |-> kind, text |-> <<>>]

MCOriginal ==
  [n \in {"a", "a.bak", "a.bak.bak", "b", "b.bak", "dir", "dir.bak", "gone", "gone.bak",
          "-", "-.bak", "end"} |->
     IF n = "a" THEN Text(n, 3) ELSE IF n \in {"b", "a.bak", "-"} THEN Text(n, 1)
     ELSE IF n = "dir" THEN Other("dir") ELSE Other("missing")]
MCBackup ==
  [n \in DOMAIN MCOriginal |->
     CASE n = "a" -> "a.bak" [] n = "a.bak" -> "a.bak.bak" [] n = "b" -> "b.bak"
       [] n = "dir" -> "dir.bak" [] n = "gone" -> "gone.bak" [] n = "-" -> "-.bak"
       [] OTHER -> "end"]

Entry(n) == [name |-> n, err |-> FALSE]
Unreadable(n) == [name |-> n, err |-> TRUE]

Cases(sources, methods, modes, consoles, faults, loops) ==
  {[source |-> s, cached |-> c, method |-> m, inplace |-> p[1], suffix |-> p[2],
    console |-> o, faults |-> f, ranges |-> loops] :
     s \in sources, c \in BOOLEAN, m \in methods, p \in modes, o \in consoles, f \in faults}

Reading == {<<FALSE, FALSE>>}
Editing == {<<TRUE, FALSE>>, <<TRUE, TRUE>>}

MCCase ==
  \* Every kind of entry, an error in the middle or at the end.
  Cases({<<Entry("a"), Entry("dir"), Entry("b")>>, <<Entry("gone"), Entry("b")>>,
         <<Unreadable("b"), Entry("b")>>, <<>>}, Method, Reading, {TRUE}, {{}, {"read"}}, 1)
  \cup
  \* A second range loop over the same FileInput.
  Cases({<<Entry("b"), Entry("b")>>}, {"Lines"}, Reading, {TRUE}, {{}}, 2)
  \cup
  \* Two files, one twice, a file and its backup, standard input, files which
  \* cannot be written.
  Cases({<<Entry("b"), Entry("a")>>, <<Entry("b"), Entry("b")>>,
         <<Entry("a"), Entry("a.bak")>>, <<Entry("-"), Entry("b")>>,
         <<Entry("dir"), Entry("gone")>>},
        {"Lines", "Contents"}, Editing, {TRUE}, {{}, {"copy"}, {"create"}}, 1)
  \cup Cases({<<Entry("b"), Entry("b")>>}, {"Scanners"}, Editing, {TRUE}, {{}}, 1)
  \cup Cases({<<Entry("-")>>}, {"Lines"}, Editing, {FALSE}, {{}}, 1)
=============================================================================
