----------------------------- MODULE StaticFiles ----------------------------
(***************************************************************************)
(* StaticFileServer::serve_file, run by a worker thread as                 *)
(* execute_filesystem_task, while the operator deploys files.  Every step  *)
(* looks at the filesystem again, by name.                                 *)
(*                                                                         *)
(* A path is a sequence of components, a component a text; the filesystem  *)
(* maps the canonical path of every entry to it.  A link holds the         *)
(* canonical path it leads to, which need not exist.                       *)
(***************************************************************************)
EXTENDS HttpMessage

CONSTANTS InitialFiles, \* the filesystem at the start
          Deployable,   \* paths where a regular file may be put or removed
          MaxDeploys    \* bound: deployments

Empty == <<>>
Dot == <<".">>
DotDot == <<"..">>

\* An entry other than / has a name and is in a directory, by canonical path.
InDirectory(files, path) ==
  /\ path # <<>> /\ Last(path) \notin {Empty, Dot, DotDot}
  /\ Front(path) \in DOMAIN files /\ files[Front(path)].kind = "dir"

ASSUME FilesAssumption ==
  /\ DOMAIN InitialFiles \subseteq Seq(Seq(STRING))
  /\ <<>> \in DOMAIN InitialFiles /\ InitialFiles[<<>>].kind = "dir"
  /\ \A p \in DOMAIN InitialFiles \ {<<>>} : InDirectory(InitialFiles, p)
  /\ MaxDeploys \in Nat

\* Deployments put files into directories that are there.  A link may lead to
\* one of them.
ASSUME DeployAssumption ==
  /\ Deployable \subseteq Seq(Seq(STRING))
  /\ \A p \in Deployable :
       /\ InDirectory(InitialFiles, p)
       /\ p \in DOMAIN InitialFiles => InitialFiles[p].kind = "file"

VARIABLES fs,       \* the filesystem
          deploys,  \* deployments so far
          job       \* the worker's task: where it is, and what it has

fileVars == <<fs, deploys, job>>

-----------------------------------------------------------------------------
(* std::filesystem, as serve_file uses it *)

\* One component further, from a directory; <<>> when there is nothing.
Enter(files, at, c) ==
  IF at = <<>> \/ files[at[1]].kind # "dir" THEN <<>>
  ELSE IF c \in {Empty, Dot} THEN at
  ELSE IF c = DotDot THEN <<IF at[1] = <<>> THEN <<>> ELSE Front(at[1])>>
  ELSE LET kid == Append(at[1], c)
       IN IF kid \notin DOMAIN files THEN <<>>
          ELSE IF files[kid].kind # "link" THEN <<kid>>
          ELSE IF files[kid].to \in DOMAIN files THEN <<files[kid].to>> ELSE <<>>

\* The entry that an absolute path leads to, as the kernel finds it.
Walk(files, path) ==
  LET at[n \in 0..Len(path)] == IF n = 0 THEN << <<>> >> ELSE Enter(files, at[n - 1], path[n])
  IN at[Len(path)]
Lookup(path) == Walk(fs, path)
Exists(path) == Lookup(path) # <<>>
IsKind(path, kind) == Exists(path) /\ fs[Lookup(path)[1]].kind = kind

\* A path without its dots and the components they undo.
Push(done, c) == IF c \in {Empty, Dot} THEN done
                 ELSE IF c # DotDot THEN Append(done, c)
                 ELSE IF done = <<>> THEN done ELSE Front(done)
Normal(path) ==
  LET done[n \in 0..Len(path)] == IF n = 0 THEN <<>> ELSE Push(done[n - 1], path[n])
  IN done[Len(path)]

\* lexically_normal: a path that ends in a separator or dots keeps a separator.
LexicallyNormal(path) ==
  IF Normal(path) # <<>> /\ path # <<>> /\ Last(path) \in {Empty, Dot, DotDot}
  THEN Append(Normal(path), Empty) ELSE Normal(path)

\* weakly_canonical: the part that exists is canonical, the rest is text.
WeaklyCanonical(path) ==
  IF Exists(path) THEN Lookup(path)[1]
  ELSE LET missing == {n \in 1..Len(path) : ~Exists(SubSeq(path, 1, n))}
           first == CHOOSE n \in missing : \A m \in missing : n <= m
       IN LexicallyNormal(Lookup(SubSeq(path, 1, first - 1))[1] \o SubSeq(path, first, Len(path)))

\* relative, of canonical paths.
LexicallyRelative(path, base) ==
  LET shared == Max({n \in 0..Len(base) : IsPrefix(SubSeq(base, 1, n), path)})
      rest == SubSeq(path, shared + 1, Len(path))
  IN IF shared = Len(base) /\ rest \in {<<>>, <<Empty>>} THEN <<Dot>>
     ELSE [i \in 1..(Len(base) - shared) |-> DotDot] \o rest

Relative(path, base) == LexicallyRelative(WeaklyCanonical(path), WeaklyCanonical(base))

-----------------------------------------------------------------------------
(* static_file_server.cpp *)

\* url_decode, symbol by symbol: "%.." stands for the escaped dots, "%%" for an
\* escaped percent sign, "%zz" for a percent sign that no digits follow.
Decoded == [s \in {"%..", "%/", "%a", "%%", "+"} |->
              CASE s = "%.." -> ".." [] s = "%/" -> "/" [] s = "%a" -> "a"
                [] s = "%%" -> "%" [] s = "+" -> "SP"]
DecodeSymbol(s) == IF s \in DOMAIN Decoded THEN Decoded[s] ELSE s

\* A percent sign left after decoding rejects the target.
UrlDecode(target) == [i \in DOMAIN target |-> DecodeSymbol(target[i])]
DoubleEncoded(target) == Range(UrlDecode(target)) \cap {"%", "%zz"} # {}

\* One leading slash goes, and an empty path is the index.
RelativeTarget(target) ==
  LET decoded == UrlDecode(target)
      text == IF decoded # <<>> /\ decoded[1] = "/" THEN Tail(decoded) ELSE decoded
  IN IF text = <<>> THEN << <<"index.html">> >> ELSE SplitAt(text, {"/"})

\* root / path: an absolute path replaces the root.
Join(root, path) == IF Len(path) > 1 /\ Head(path) = Empty THEN Tail(path) ELSE root \o path

\* normalize_path, then resolve_path.
ResolvePath(root, target) ==
  LexicallyNormal(root \o Relative(Join(root, RelativeTarget(target)), root))

\* Mutant of ValidatePath: the root is a prefix of the text.
ValidatePathByText(root, path) ==
  LET Text(p) == FlattenSeq([i \in DOMAIN p |-> <<"/">> \o p[i]])
  IN IsPrefix(Text(WeaklyCanonical(root)), Text(WeaklyCanonical(path)))

\* validate_path: the canonical path has no ".." relative to the canonical root.
ValidatePath(root, path) == DotDot \notin Range(Relative(path, root))

-----------------------------------------------------------------------------
(* The worker's steps *)

\* found is history: the path led somewhere when validate_path looked.
NoJob == [pc |-> "none", target |-> <<>>, root |-> <<>>, path |-> <<>>, found |-> FALSE,
          status |-> 0, size |-> 0, served |-> <<>>]

NewJob(root, target) == [NoJob EXCEPT !.pc = "open", !.root = root, !.target = target]

Finish(status) == job' = [job EXCEPT !.pc = "done", !.status = status]
Go(pc) == job' = [job EXCEPT !.pc = pc]

\* One step of serve_file: the constructor, then normalize and resolve, then
\* each question in turn, then read_file.  An empty file is an error, and an
\* entry that goes away between two steps is found missing.
StepFile ==
  /\ CASE job.pc = "open" ->
            IF IsKind(job.root, "dir") THEN Go("resolve") ELSE Finish(500)
       [] job.pc = "resolve" ->
            IF DoubleEncoded(job.target) THEN Finish(400)
            ELSE job' = [job EXCEPT !.pc = "validate", !.path = ResolvePath(job.root, job.target)]
       [] job.pc = "validate" ->
            IF ValidatePath(job.root, job.path)
            THEN job' = [job EXCEPT !.pc = "exists", !.found = Exists(job.path)]
            ELSE Finish(403)
       [] job.pc = "exists" -> IF Exists(job.path) THEN Go("directory") ELSE Finish(404)
       [] job.pc = "directory" -> IF IsKind(job.path, "dir") THEN Finish(403) ELSE Go("regular")
       [] job.pc = "regular" -> IF IsKind(job.path, "file") THEN Go("read") ELSE Finish(403)
       [] job.pc = "read" ->
            IF IsKind(job.path, "file") /\ fs[Lookup(job.path)[1]].size > 0
            THEN job' = [job EXCEPT !.pc = "done", !.status = 200,
                                    !.size = fs[Lookup(job.path)[1]].size,
                                    !.served = Lookup(job.path)]
            ELSE Finish(500)
       [] OTHER -> FALSE
  /\ UNCHANGED <<fs, deploys>>

\* The operator puts a file in place, by renaming, or removes one.
Deploy(path, size) ==
  /\ deploys < MaxDeploys
  /\ deploys' = deploys + 1
  /\ path \in Deployable
  /\ fs' = [p \in DOMAIN fs \cup {path} |-> IF p = path THEN [kind |-> "file", size |-> size] ELSE fs[p]]
  /\ UNCHANGED job

Withdraw(path) ==
  /\ deploys < MaxDeploys
  /\ deploys' = deploys + 1
  /\ path \in Deployable \cap DOMAIN fs
  /\ fs' = Restrict(fs, DOMAIN fs \ {path})
  /\ UNCHANGED job

-----------------------------------------------------------------------------
(* Reference *)

\* What the target names: the entry the kernel finds from the root.
Named(root, target) == Lookup(Join(root, RelativeTarget(target)))

\* Inside the document root, links followed.
Inside(root, node) == IsPrefix(Lookup(root)[1], node)

ServableFile(root, node) == Inside(root, node) /\ fs[node].kind = "file" /\ fs[node].size > 0

\* A link in the root led nowhere when validate_path looked, which took it for a
\* plain name (weakly_canonical), and leads to node since.
AppearedBehindLink(node) ==
  /\ ~job.found
  /\ \E p \in DOMAIN fs : fs[p].kind = "link" /\ fs[p].to = node /\ Inside(job.root, p)

\* "Static paths are decoded, resolved and confirmed to stay inside
\* document_root before the file is opened": what is served is a file inside
\* the canonical root, while files come and go between the confirmation and the
\* opening, with one exception, which the code does not exclude: a file that
\* appears, anywhere, as the target of a link of the root that dangled at the
\* confirmation.  And a target that names a file of the root, by any detour,
\* gets that file when none comes or goes.
FilesStayInRoot ==
  /\ job.pc = "done" /\ job.status = 200 =>
       Inside(job.root, job.served[1]) \/ AppearedBehindLink(job.served[1])
  /\ /\ job.pc = "done" /\ deploys = 0 /\ ~DoubleEncoded(job.target) /\ IsKind(job.root, "dir")
     /\ DotDot \notin Range(job.root)
     /\ Named(job.root, job.target) # <<>>
     /\ ServableFile(job.root, Named(job.root, job.target)[1])
     => job.status = 200 /\ job.served = Named(job.root, job.target)
=============================================================================
