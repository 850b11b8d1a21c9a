-------------------------------- MODULE Paths -------------------------------
(***************************************************************************)
(* ssr/lib/path.js.  A path is a sequence of characters; the state machine *)
(* types one, so that every path of up to Most pieces is looked at.        *)
(***************************************************************************)
EXTENDS Integers, Sequences, SequencesExt

CONSTANTS
  Piece,    \* what a path is put together from, each a sequence of characters
  Most      \* how many pieces

PieceAssumption == (\A piece \in Piece : Len(piece) > 0) /\ Most \in Nat

VARIABLES path, pieces

IsPathSeparator(c) == c \in {"/", "\\"}
LastSlash(s) == SelectLastInSeq(s, LAMBDA c : c = "/")

BaseName(p) == SubSeq(p, 1, LastSlash(p))

\* Faulty variant: the slash is taken along.
FileNameSlash(p) == SubSeq(p, Max({1, LastSlash(p)}), Len(p))

FileName(p) == SubSeq(p, LastSlash(p) + 1, Len(p))

\* The part after the last dot, '' when there is none.
ExtName(p) ==
  LET dot == SelectLastInSeq(p, LAMBDA c : c = ".")
  IN  IF dot = 0 THEN <<>> ELSE SubSeq(p, dot + 1, Len(p))

-----------------------------------------------------------------------------
\* One separator of normalizeString: s is [res, seg (length of the last
\* segment of res), slash (place of the last separator), dots (-1: not only
\* dots)].
Put(s, name) ==
  [s EXCEPT !.res = IF @ = <<>> THEN name ELSE @ \o <<"/">> \o name,
            !.seg = Len(name)]

EndsWithUp(s) ==
  Len(s.res) >= 2 /\ s.seg = 2 /\ Last(s.res) = "." /\ s.res[Len(s.res) - 1] = "."

\* Faulty variant: the length of the last segment is left as it was.
PopKeepsLength(s) ==
  [s EXCEPT !.res = SubSeq(@, 1, LastSlash(@) - 1)]

Pop(s) ==
  LET res == SubSeq(s.res, 1, LastSlash(s.res) - 1)
  IN  [s EXCEPT !.res = res, !.seg = IF res = <<>> THEN 0 ELSE Len(res) - LastSlash(res)]

Up(allowAboveRoot, s) ==
  IF ~EndsWithUp(s) /\ s.res # <<>> THEN Pop(s)
  ELSE IF allowAboveRoot THEN Put(s, <<".", ".">>) ELSE s

\* Faulty variant: an empty segment is not told from a name.
SeparatorEmpty(allowAboveRoot, p, s, i) ==
  [CASE s.dots = 1 -> s
     [] s.dots = 2 -> Up(allowAboveRoot, s)
     [] OTHER -> Put(s, SubSeq(p, s.slash + 1, i - 1))
   EXCEPT !.slash = i, !.dots = 0]

Separator(allowAboveRoot, p, s, i) ==
  [CASE s.slash = i - 1 \/ s.dots = 1 -> s
     [] s.slash # i - 1 /\ s.dots = 2 -> Up(allowAboveRoot, s)
     [] OTHER -> Put(s, SubSeq(p, s.slash + 1, i - 1))
   EXCEPT !.slash = i, !.dots = 0]

\* A path that does not end with a separator is read as if it did.
NormalizeString(p, allowAboveRoot) ==
  LET q == IF p # <<>> /\ IsPathSeparator(Last(p)) THEN p ELSE Append(p, "/")
      Read(s, i) ==
        IF IsPathSeparator(q[i]) THEN Separator(allowAboveRoot, q, s, i)
        ELSE [s EXCEPT !.dots = IF q[i] = "." /\ @ # -1 THEN @ + 1 ELSE -1]
  IN  FoldLeftDomain(Read, [res |-> <<>>, seg |-> 0, slash |-> 0, dots |-> 0], q).res

\* Faulty variant: the separator at the end is forgotten.
NormalizeNoEnd(p) ==
  IF p = <<>> THEN <<".">> ELSE
  LET root == IF p[1] = "/" THEN <<"/">> ELSE <<>>
      n == NormalizeString(p, root = <<>>)
  IN  IF n # <<>> THEN root \o n ELSE IF root # <<>> THEN root ELSE <<".">>

Normalize(p) ==
  IF p = <<>> THEN <<".">> ELSE
  LET root == IF p[1] = "/" THEN <<"/">> ELSE <<>>
      end == IF Last(p) = "/" THEN <<"/">> ELSE <<>>
      n == NormalizeString(p, root = <<>>)
  IN  IF n # <<>> THEN root \o n \o end
      ELSE IF root # <<>> THEN root ELSE <<".">> \o end

\* Faulty variant: the empty arguments are joined too.
JoinEmpty(args) ==
  IF Len(args) = 2 /\ args[2] # <<>> /\ args[2][1] = "/" THEN Normalize(args[2])
  ELSE Normalize(FoldLeft(LAMBDA j, a : j \o <<"/">> \o a, args[1], Tail(args)))

Join(args) ==
  LET given == SelectSeq(args, LAMBDA a : a # <<>>)
  IN  IF Len(args) = 2 /\ args[2] # <<>> /\ args[2][1] = "/" THEN Normalize(args[2])
      ELSE IF given = <<>> THEN <<".">>
      ELSE Normalize(FoldLeft(LAMBDA j, a : j \o <<"/">> \o a, given[1], Tail(given)))

-----------------------------------------------------------------------------
\* What a path means: the segments between separators, resolved with a stack.
Segments(p) ==
  FoldLeft(LAMBDA ss, c : IF IsPathSeparator(c) THEN Append(ss, <<>>)
                          ELSE [ss EXCEPT ![Len(ss)] = Append(@, c)],
           << <<>> >>, p)

IsAbsolute(p) == p # <<>> /\ p[1] = "/"

Place(p) ==
  LET Enter(at, seg) ==
        IF seg \in {<<>>, <<".">>} THEN at
        ELSE IF seg # <<".", ".">> THEN Append(at, seg)
        ELSE IF at # <<>> /\ Last(at) # seg THEN Front(at)
        ELSE IF IsAbsolute(p) THEN at ELSE Append(at, seg)
  IN  <<IsAbsolute(p), FoldLeft(Enter, <<>>, Segments(p))>>

Init == path = <<>> /\ pieces = 0
Type(piece) == pieces < Most /\ pieces' = pieces + 1 /\ path' = path \o piece
Next == \E piece \in Piece : Type(piece)
Spec == Init /\ [][Next]_<<path, pieces>>

\* The normal form of a path names the same place.
SamePlace == Place(Normalize(path)) = Place(path)

\* And it is its only spelling but for a separator at the end: names, and
\* before them only steps up out of a relative path.
Canonical ==
  LET n == Normalize(path)
      names == IF n \in {<<".">>, <<".", "/">>} THEN <<>> ELSE Place(n)[2]
      spelt == FoldLeft(LAMBDA s, seg : IF s = <<>> THEN seg ELSE s \o <<"/">> \o seg, <<>>, names)
  IN  n \in { r \o spelt \o e : r \in {<<>>, <<"/">>}, e \in {<<>>, <<"/">>} }
            \cup {<<".">>, <<".", "/">>}

\* A directory keeps its separator, a file gets none.
EndKept ==
  path # <<>> => (Last(path) = "/" <=> Last(Normalize(path)) = "/") \/ Normalize(path) = <<"/">>

\* A path is put together again from its directory and its file name, and has
\* the extension of its file name when that has one.
Reassembles ==
  /\ Join(<<BaseName(path), FileName(path)>>) = Normalize(path)
  /\ "." \in ToSet(FileName(path)) => ExtName(path) = ExtName(FileName(path))

\* However a path is cut in three, joining its parts at once or one after the
\* other leads to the same place, unless a later part starts at the root, and
\* below the root if and only if the first part is.
JoinInSteps ==
  \A i \in 0..Len(path) : \A j \in i..Len(path) :
    LET a == SubSeq(path, 1, i)  b == SubSeq(path, i + 1, j)
        c == SubSeq(path, j + 1, Len(path))
    IN  ~IsAbsolute(b) /\ ~IsAbsolute(c) =>
          /\ Place(Join(<<a, b, c>>)) = Place(Join(<<Join(<<a, b>>), c>>))
          /\ IsAbsolute(Join(<<a, b, c>>)) = IsAbsolute(a)

\* The functions on paths agree with one another and with the place meant.
Named == SamePlace /\ Canonical /\ EndKept /\ Reassembles /\ JoinInSteps
=============================================================================
