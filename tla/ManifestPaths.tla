---- MODULE ManifestPaths ----
(***************************************************************************)
(* Paths, from src/utils.rs: under which name load_project records the     *)
(* directory of a dependency, which manifests spell as they like, and      *)
(* which package a handler takes a file to belong to.  The two must agree, *)
(* for a handler finds its project by looking for the second among the     *)
(* first.  Packages lie anywhere, inside of each other too; links are left *)
(* out: the code does not resolve them.                                    *)
(***************************************************************************)
EXTENDS ManifestLoad, SequencesExt

CONSTANTS
  PlainName,  \* names of directories that mean nothing to the server
  Depth,      \* bound on the depth of a package's directory
  Nesting,    \* bound on the directories between layout directory and file
  Components  \* bound on the components of a dependency's spelling

ASSUME PathsAssumption ==
  /\ Depth \in Nat /\ Nesting \in Nat /\ Components \in Nat
  /\ PlainName \cap {"/", ".", "..", "tests", "sources", "scripts"} = {}

LayoutDir == {"tests", "sources", "scripts"}
Name == PlainName \cup LayoutDir

\* An absolute path is the sequence of its components, "/" the first.
Below(dir, names, n) == {dir \o s : s \in BoundedSeq(names, n)}
Directory == Below(<<"/">>, Name, Depth)

----------------------------------------------------------------------------
(* utils.rs *)

\* PathBuf::pop stops at the root, and at nothing.
Pop(path) == IF path \in {<< >>, <<"/">>} THEN path ELSE Front(path)

\* One round of normal_path_components, with PathBuf::push.
Push(done, c) ==
  CASE c = "/" -> <<"/">>
    [] c = "." -> done
    [] c = ".." -> Pop(done)
    [] OTHER -> Append(done, c)

Normalized(path) ==
  LET done[i \in 0..Len(path)] == IF i = 0 THEN << >> ELSE Push(done[i - 1], path[i])
      whole == done[Len(path)]
  IN IF whole = << >> THEN <<".">> ELSE whole

\* path_concat; it fails on an empty second path
PathConcat(p, q) == Normalized(IF Head(q) = "/" THEN q ELSE p \o q)

NoPackage == << >>

\* discover_manifest_and_kind: upwards from the file, from one layout directory
\* to the next, until there is a manifest beside one.
LayoutPlaces(path) == {k \in DOMAIN path : k < Len(path) /\ path[k] \in LayoutDir}
DiscoverInnermost(withManifest, path) ==
  LET beside == LayoutPlaces(path) IN
  IF beside = {} THEN NoPackage
  ELSE LET dir == SubSeq(path, 1, Max(beside) - 1)
       IN IF dir \in withManifest THEN dir ELSE NoPackage
Discover(withManifest, path) ==
  LET beside == {k \in LayoutPlaces(path) : SubSeq(path, 1, k - 1) \in withManifest}
  IN IF beside = {} THEN NoPackage ELSE SubSeq(path, 1, Max(beside) - 1)

\* load_project records a dependency under the path that it normalises again,
\* and takes for its sources what load_layout_files_v2 finds.
Recorded(dir, spelling) == Normalized(PathConcat(dir, spelling))
SourcesOf(dir) ==
  UNION {{Append(d, "m.move") : d \in Below(Append(dir, l), Name, Nesting)} : l \in LayoutDir}

\* What the handlers make of the path of a document's URI.
Opened(path) == PathConcat(<<"/", "cwd">>, path)

----------------------------------------------------------------------------
(* What the operating system opens, from a directory one component on. *)

Parent(dir) == IF dir = <<"/">> THEN dir ELSE SubSeq(dir, 1, Len(dir) - 1)

Enter(dir, c) ==
  CASE c = "/" -> <<"/">>
    [] c = "." -> dir
    [] c = ".." -> Parent(dir)
    [] OTHER -> dir \o <<c>>

Reached(dir, spelling) ==
  LET at[i \in 0..Len(spelling)] == IF i = 0 THEN dir ELSE Enter(at[i - 1], spelling[i])
  IN at[Len(spelling)]

Spelling ==
  LET relative == BoundedSeq(Name \cup {".", ".."}, Components)
  IN (relative \ {<< >>}) \cup {<<"/">> \o s : s \in relative}

\* However manifests spell it, a directory is recorded under one name.
NamedOnce ==
  \A dir \in Directory, spelling \in Spelling :
    Recorded(dir, spelling) = Reached(dir, spelling)

\* Do the handlers find the package of every source file, wherever the packages
\* lie, when these have a manifest?
Places == {at \in [Pkg -> Directory] : IsInjective(at)}
SourcesFound(present) ==
  \A at \in Places, p \in present : \A file \in SourcesOf(at[p]) :
    LET found == Discover({at[q] : q \in present}, Opened(file)) IN
    \E q \in present :
      /\ found = at[q]
      /\ IsPrefix(at[p], found)
      /\ file \in SourcesOf(found)
Findings == {<<present, SourcesFound(present)>> : present \in SUBSET Pkg}

\* When the walk has recorded its packages, each of them under the one name of
\* its directory however manifests spelled it, a document among the sources of
\* a package with a manifest belongs to that package, or to one that lies inside
\* of it and has the document among its sources as well: wherever they lie, and
\* whichever of them have a manifest by now, the loops of
\* discover_manifest_and_kind stop neither short of it nor behind it.
FilesFindTheirPackage ==
  stack = << >> => NamedOnce /\ <<{p \in Pkg : HasManifest(p)}, TRUE>> \in Findings
====
