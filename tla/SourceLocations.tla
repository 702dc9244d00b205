---- MODULE SourceLocations ----
(***************************************************************************)
(* From a compiler location to a place in a file: PathBufHashMap and       *)
(* FileLineMapping of src/utils.rs, kept by MultiProject and updated with  *)
(* every text the editor sends.  A location names its file by the hash of  *)
(* the file's text, so that a path is found from the hash and a line from  *)
(* the path.  Two files may have the same text.                            *)
(*                                                                         *)
(* A text is a sequence of "c" and of newlines; FileHash, a SHA-256, is    *)
(* taken to be injective, and a text stands for its hash.                  *)
(***************************************************************************)
EXTENDS Naturals, FiniteSets, SequencesExt

CONSTANTS
  Path,  \* files
  Text,  \* their texts
  None   \* neither

NL == "n"

ASSUME ConstantsAssumption ==
  /\ Text \subseteq Seq({"c", NL})
  /\ None \notin Path /\ None \notin Text

VARIABLES
  path_2_hash,  \* path -> hash
  hash_2_path,  \* hash -> path
  m,            \* path -> the byte at which each line starts
  sent          \* history: path -> the text the editor sent last

vars == <<path_2_hash, hash_2_path, m, sent>>

----------------------------------------------------------------------------
(* PathBufHashMap::update drops what the path's last hash led to. *)

ForgetNothing(path) == hash_2_path
Forget(path) ==
  IF path_2_hash[path] = None
  THEN hash_2_path
  ELSE [hash_2_path EXCEPT ![path_2_hash[path]] = None]

get_path(hash) == hash_2_path[hash]

----------------------------------------------------------------------------
(* FileLineMapping. *)

\* The starts of the lines up to byte i, for each i.
StartsUpTo(text) ==
  LET v[i \in 0..Len(text)] ==
        IF i = 0 THEN <<0>>
        ELSE IF text[i] = NL THEN Append(v[i - 1], i) ELSE v[i - 1]
  IN  v

\* The starts of the lines, and the end of a last line without newline.
LineStarts(text) ==
  LET starts == StartsUpTo(text)[Len(text)]
  IN  IF text # << >> /\ Last(text) # NL THEN Append(starts, Len(text)) ELSE starts

\* bisection::bisect_left (external), as a position from 1.
bisect_left(vec, byte) == 1 + Cardinality({i \in DOMAIN vec : vec[i] < byte})

searchExact(vec, byte) ==
  LET index == bisect_left(vec, byte) IN [line |-> index - 1, col |-> byte - vec[index]]
search(vec, byte) ==
  LET found == bisect_left(vec, byte)
      index == IF vec[found] # byte THEN found - 1 ELSE found
  IN  [line |-> index - 1, col |-> byte - vec[index]]

\* The end of a range is looked for on the line of its start first.
translateOneLine(path, start_index, end) ==
  LET end_index == IF end < start_index THEN start_index ELSE end
      vec == m[path]
      start == search(vec, start_index)
  IN  IF Last(vec) <= end_index
      THEN None
      ELSE [start |-> start,
            end |-> [line |-> start.line, col |-> end_index - vec[start.line + 1]]]
translate(path, start_index, end) ==
  LET end_index == IF end < start_index THEN start_index ELSE end
      vec == m[path]
      start == search(vec, start_index)
      onLine == start.line + 2 \in DOMAIN vec /\ vec[start.line + 2] > end_index
  IN  IF Last(vec) <= end_index
      THEN None
      ELSE [start |-> start,
            end |-> IF onLine
                    THEN [line |-> start.line, col |-> end_index - vec[start.line + 1]]
                    ELSE search(vec, end_index)]

\* convert_loc_range of a location in the file with the given text.
convert_loc_range(hash, start, end) ==
  LET path == get_path(hash) IN
  IF path = None THEN None ELSE [path |-> path, range |-> translate(path, start, end)]

----------------------------------------------------------------------------

\* update_defs_on_changed, as far as the two maps are concerned.
update(path, text) ==
  /\ path_2_hash' = [path_2_hash EXCEPT ![path] = text]
  /\ hash_2_path' = [Forget(path) EXCEPT ![text] = path]
  /\ m' = [m EXCEPT ![path] = LineStarts(text)]
  /\ sent' = [sent EXCEPT ![path] = text]

Init ==
  /\ path_2_hash = [p \in Path |-> None]
  /\ hash_2_path = [h \in Text |-> None]
  /\ m = [p \in Path |-> << >>]
  /\ sent = [p \in Path |-> None]

Next == \E path \in Path, text \in Text : update(path, text)

Spec == Init /\ [][Next]_vars

----------------------------------------------------------------------------
(* Properties. *)

Known == {p \in Path : sent[p] # None}

\* The three maps and what was sent are maps of their kinds.
TypeOK ==
  /\ path_2_hash \in [Path -> Text \cup {None}]
  /\ hash_2_path \in [Text -> Path \cup {None}]
  /\ m \in [Path -> Seq(Nat)]
  /\ sent \in [Path -> Text \cup {None}]

\* A location never resolves to a file that has another text by now: whatever
\* the edits, the path a hash leads to was last sent the text of that hash.
NeverStale == \A h \in Text : get_path(h) # None => sent[get_path(h)] = h

\* Where byte i of a text is, by counting the newlines before it.
PlaceOf(text, i) ==
  LET before == {j \in 1..i : text[j] = NL} IN
  [line |-> Cardinality(before),
   col |-> IF before = {} THEN i ELSE i - CHOOSE j \in before : \A l \in before : l <= j]

\* A range is translated to the lines and columns it covers, an inverted one
\* to the place of its start, and only one that reaches the end of the text
\* to nothing.
TranslatesExactly ==
  \A p \in Known :
    LET text == sent[p] IN
    \A s, e \in 0..Len(text) :
      LET last == IF e < s THEN s ELSE e IN
      translate(p, s, e) =
        IF last = Len(text)
        THEN None
        ELSE [start |-> PlaceOf(text, s), end |-> PlaceOf(text, last)]

\* The two maps agree: a location that converts at all converts to a place in
\* the very text it was made from.
ConvertsInOwnText ==
  \A h \in Text : \A i \in 0..Len(h) :
    LET found == convert_loc_range(h, i, i) IN
    (found # None /\ i < Len(h)) =>
      sent[found.path] = h /\ found.range.start = PlaceOf(h, i)
====
