------------------------------ MODULE MCTools -------------------------------
(***************************************************************************)
(* The sequential programs and functions, checked in one run: directory    *)
(* walks, digests, the meters of the bench harness, paths, templates, and  *)
(* the text check, the digest and the frames of the WebSocket programs. A  *)
(* behaviour is one of theirs.                                             *)
(***************************************************************************)
EXTENDS Integers, OneOf

CONSTANTS
  Entries, Depths, Capacity,   \* of the walks: entries below the root, buffers, their size
  Iter, Runs, Total,           \* of the digests
  MaxCpu,                      \* of the meters: the processor time
  PathPiece, PathMost,         \* of paths: pieces, how many
  Texts, Names, File, TokenMost,   \* of templates: what they are written from
  TextPieces, TextMost,        \* of the texts is_valid looks at
  DigestLength,                \* of the texts that are hashed, the longest
  Sizes, Behind                \* of frames: their payloads, bytes behind them

\* Single characters of a path, and the segments that need several.
PathPieces == { <<"/">>, <<"\\">>, <<".">>, <<"a">>, <<".", ".", "/">>, <<"a", "/">> }

\* Texts of one and two bytes, a brace in a text, a file with a loop of its own.
TemplateNames == { <<"b", "c">> }
TemplateTexts == { <<"x">>, <<"x", "{", "y">>, <<"}", "x">> }
Directive(n, v) == [type |-> "directive", name |-> n, value |-> v]
IncludedFile ==
  <<Directive(<<"#", "each">>, <<"b", "c">>), Directive(<<"b", "c">>, <<>>),
    Directive(<<"/", "each">>, <<>>)>>

\* Both ends of every range of the table of UTF-8, and a run of ASCII.
Bytes ==
  { <<b>> : b \in {65, 128, 143, 144, 159, 160, 191, 192, 194, 223, 224, 225,
                   237, 239, 240, 241, 244, 245, 255} } \cup {<<65, 65, 65>>}

\* Both sides of each change of the frame format.
BytesBehind == {0, 1, 5}
PayloadSizes ==
  (0..9) \cup (120..130) \cup {255, 256, 65535, 65536, 65537, 16777216, 2147483000}

\* Every tree of so many entries.
Wa == INSTANCE Walk WITH N <- Entries, linux <- s1,
   parent <- s2, kind <- s3, next <- s4, buffer <- s5, filled <- s6,
   path <- s7, found <- s8, fds <- s9, phase <- s10
Di == INSTANCE Digests WITH program <- s1,
   phase <- s2, block <- s3, i <- s4, j <- s5, total <- s6, stage <- s7,
   ctx <- s8, digest <- s9, counted <- s10
\* lib/bench.mjs and fs/lib/bench.mjs.
Meters == {"bench", "fsbench"}
OfFiles(p) == p = "fsbench"
Me(p) == INSTANCE BenchMeter WITH Timed <- OfFiles(p), cpu <- s1,
   lastcpu <- s2, last_time <- s3, caller <- s4, next <- s5, start <- s6,
   called <- s7, taken <- s8, before <- s9, inside <- s10, report <- s11
Pa == INSTANCE Paths WITH Piece <- PathPiece, Most <- PathMost, path <- s1,
   pieces <- s2
Te == INSTANCE Template WITH Most <- TokenMost, tokens <- s1, parser <- s2
Ut == INSTANCE Utf8 WITH Pieces <- TextPieces, Most <- TextMost, text <- s1,
   pieces <- s2
Sh == INSTANCE ShaBlocks WITH MaxLength <- DigestLength, bytelength <- s1
Fr == INSTANCE Frame WITH size <- s1, masked <- s2, behind <- s3

ASSUME Assumptions ==
  /\ Wa!WalkAssumption /\ Di!DigestsAssumption
  /\ \A p \in Meters : Me(p)!MeterAssumption
  /\ Pa!PieceAssumption
  /\ Te!TextAssumption /\ Te!MostAssumption /\ Ut!PieceAssumption
  /\ Ut!MostAssumption /\ Sh!LengthAssumption /\ Fr!SizeAssumption

-----------------------------------------------------------------------------
Init ==
  \/ subject = "walk" /\ Wa!Init /\ Off11
  \/ subject = "digests" /\ Di!Init /\ Off11
  \/ \E p \in Meters : subject = p /\ Me(p)!Init /\ Off12
  \/ subject = "paths" /\ Pa!Init /\ Off3
  \/ subject = "template" /\ Te!Init /\ Off3
  \/ subject = "utf8" /\ Ut!Init /\ Off3
  \/ subject = "sha1" /\ Sh!Init /\ Off2
  \/ subject = "frame" /\ Fr!Init /\ Off4

WaStep == subject = "walk" /\ Wa!Next /\ UNCHANGED Rest11
DiStep == subject = "digests" /\ Di!Next /\ UNCHANGED Rest11
DiGoesOn == subject = "digests" /\ (Di!DigestInit \/ Di!Update \/ Di!Final \/ Di!Start \/ Di!End) /\ UNCHANGED Rest11
MeStep == \E p \in Meters : subject = p /\ Me(p)!Next /\ UNCHANGED Rest12
PaStep == subject = "paths" /\ Pa!Next /\ UNCHANGED Rest3
TeStep == subject = "template" /\ Te!Next /\ UNCHANGED Rest3
UtStep == subject = "utf8" /\ Ut!Next /\ UNCHANGED Rest3
ShStep == subject = "sha1" /\ Sh!Next /\ UNCHANGED Rest2
FrStep == subject = "frame" /\ Fr!Next /\ UNCHANGED Rest4

Next ==
  \/ WaStep \/ DiStep \/ MeStep
  \/ PaStep \/ TeStep \/ UtStep \/ ShStep \/ FrStep

\* The fairness of the specifications liveness is checked of.
Spec == Init /\ [][Next]_all /\ WF_all(WaStep \/ DiGoesOn)

-----------------------------------------------------------------------------
\* readdir-linux-lo.js, readdir-lo.js: a walk finds every file and directory
\* once, and closes what it opened.
Walked == subject = "walk" => Wa!Walked

\* The hash programs: a hash is that of its own text, its context not freed, and
\* what is reported are the hashes that were measured.
Hashed == subject = "digests" => Di!Hashed

\* lib/bench.mjs, fs/lib/bench.mjs: a report has the processor time that was used
\* while it took the time, and what its own calls used around that.
Metered == \A p \in Meters : subject = p => Me(p)!Metered

\* ssr/lib/path.js: the normal form names the same place, is its only spelling
\* and keeps its end; a path is put together from its parts, at once or in steps.
Named == subject = "paths" => Pa!Named

\* ssr/lib/html.js: a template is read as it was written and loops have their own
\* variables; fields are those of the innermost loop until one is closed inside of
\* it, and a loop over a field right inside #eachField makes no function.
Compiled == subject = "template" => Te!Compiled

\* websocket/sws.c: the text check accepts UTF-8 and nothing else, and the
\* blocks of the digest are those of SHA-1; websocket/socket.js, websocket.js:
\* what is echoed, written and read is of the frame format, within its limits.
Agrees ==
  /\ subject = "utf8" => Ut!Agrees
  /\ subject = "sha1" => Sh!Agrees
  /\ subject = "frame" => Fr!Agrees

\* The walks and the digests come to an end.
Ended ==
  \/ subject = "walk" /\ Wa!Ended
  \/ subject = "digests" /\ Di!Ended
Ends == (subject \in {"walk", "digests"}) ~> Ended

-----------------------------------------------------------------------------
\* The invariants of the programs: each inductive by itself.
IInv ==
  /\ subject = "walk" => Wa!IInv
  /\ subject = "digests" => Di!IInv
  /\ \A p \in Meters : subject = p => Me(p)!IInv
  /\ subject = "utf8" => Ut!Typed
  /\ subject = "sha1" => Sh!Typed
  /\ subject = "frame" => Fr!Typed
=============================================================================
