------------------------------ MODULE Template ------------------------------
(***************************************************************************)
(* ssr/lib/html.js: the tokenizer cuts a template, a sequence of bytes,    *)
(* into text and directives; the parser turns them into the statements of  *)
(* a function.  The state machine writes a template token by token; its    *)
(* loops are closed in order, and it may end anywhere.                     *)
(*                                                                         *)
(* A statement keeps what its expression starts with: Root for `this`, d   *)
(* for the variable of the loop at depth d, Bare for a name of its own,    *)
(* Nothing for a dot, of which no function is made.                        *)
(***************************************************************************)
EXTENDS Integers, Sequences, SequencesExt

CONSTANTS
  Texts,   \* texts between directives
  Names,   \* names and values: sequences of characters
  File,    \* the tokens of the file #template reads
  Most     \* the longest template that is looked at, in tokens

TextAssumption == \A s \in Texts \cup Names : Len(s) > 0
MostAssumption == Most \in Nat

VARIABLES
  tokens,  \* the template
  parser   \* its parser: source, args, depth, this

-----------------------------------------------------------------------------
(* The tokenizer.                                                          *)

Text(s) == [type |-> "string", value |-> s]
Directive(n, v) == [type |-> "directive", name |-> n, value |-> v]

\* in: text, name or value; chars: what was read of a name or value; name: the
\* name of the directive; start: the bytes before the text being read.
Scanner == [in |-> "text", chars |-> <<>>, name |-> <<>>, start |-> 0, tokens |-> <<>>]

\* The second brace begins a directive.  A text of one byte is dropped.
Open(t, u8, i) ==
  [t EXCEPT !.in = "name", !.name = <<>>,
            !.tokens = IF i - 1 - t.start > 2
                       THEN Append(@, Text(SubSeq(u8, t.start + 1, i - 2))) ELSE @]

\* Faulty variant: the text after a directive begins with its last brace.
CloseEarly(t, i) ==
  [t EXCEPT !.in = "text", !.chars = <<>>, !.start = i - 1,
            !.tokens = Append(@, IF t.name # <<>> THEN Directive(t.name, t.chars)
                                 ELSE Directive(t.chars, <<>>))]

\* What was read is the name when there is none yet, or else the value.
Close(t, i) ==
  [t EXCEPT !.in = "text", !.chars = <<>>, !.start = i,
            !.tokens = Append(@, IF t.name # <<>> THEN Directive(t.name, t.chars)
                                 ELSE Directive(t.chars, <<>>))]

\* The first blank ends the name; a brace that closes nothing is left out.
Collect(t, c) ==
  IF t.in = "name" /\ c = " " THEN [t EXCEPT !.in = "value", !.name = t.chars, !.chars = <<>>]
  ELSE IF c = "}" THEN t ELSE [t EXCEPT !.chars = Append(@, c)]

Tokenize(u8) ==
  LET Twice(c, i) == u8[i] = c /\ i > 1 /\ u8[i - 1] = c
      Byte(t, i) == CASE t.in = "text" /\ Twice("{", i) -> Open(t, u8, i)
                      [] t.in = "text" /\ ~Twice("{", i) -> t
                      [] t.in # "text" /\ Twice("}", i) -> Close(t, i)
                      [] OTHER -> Collect(t, u8[i])
      read == FoldLeftDomain(Byte, Scanner, u8)
  IN  IF Len(u8) > read.start
      THEN Append(read.tokens, Text(SubSeq(u8, read.start + 1, Len(u8)))) ELSE read.tokens

-----------------------------------------------------------------------------
(* The parser.                                                             *)

Root == 0
Bare == -1
Nothing == -2
This == <<"t">>   \* the name `this`

Hash(command) == <<"#", command>>
Slash(command) == <<"/", command>>
IsOpening(t) == t.type = "directive" /\ t.name \in {Hash("each"), Hash("eachField")}
IsClosing(t) == t.type = "directive" /\ t.name \in {Slash("each"), Slash("eachField")}
IsSlash(t) == t.type = "directive" /\ Head(t.name) = "/"

Start == [source |-> <<[op |-> "let"]>>, args |-> {}, depth |-> 0, this |-> Root]
Emit(p, statement) == [p EXCEPT !.source = Append(@, statement)]

\* `for (const v<depth> of this)`, or of a field of what this stands for: of
\* `.field` when it stands for nothing, inside of #eachField.
For(p, value) ==
  [op |-> "for", var |-> p.depth + 1,
   base |-> IF value = This THEN Root ELSE IF p.this = Bare THEN Nothing ELSE p.this]

\* Faulty variant: what this stands for is left as it was.
EachThis(p, value) == [Emit(p, For(p, value)) EXCEPT !.depth = @ + 1]

Each(p, value) ==
  [Emit(p, For(p, value)) EXCEPT !.depth = @ + 1, !.this = p.depth + 1]

EachField(p, value) ==
  [Emit(p, For(p, value)) EXCEPT !.depth = @ + 1, !.this = Bare]

\* Faulty variant: this still stands for the variable of the loop.
EndThis(p) == [Emit(p, [op |-> "end"]) EXCEPT !.depth = @ - 1]

\* The end of any loop makes this the outermost one again.
End(p) == [Emit(p, [op |-> "end"]) EXCEPT !.depth = @ - 1, !.this = Root]

Field(p, name) ==
  Emit(p, [op |-> "add",
           base |-> IF name = This THEN IF p.this = Bare THEN Root ELSE p.this
                    ELSE IF name \in p.args THEN Bare ELSE p.this])

\* All tokens but #template.  Another name after # does nothing; another one
\* after / closes no loop.
ParseOne(p, t) ==
  CASE t.type = "string" -> Emit(p, [op |-> "text"])
    [] t.type # "string" /\ t.name = Hash("code") -> Emit(p, [op |-> "code"])
    [] t.type # "string" /\ t.name = Hash("arg") -> [p EXCEPT !.args = @ \cup {t.value}]
    [] t.type # "string" /\ t.name = Hash("each") -> Each(p, t.value)
    [] t.type # "string" /\ t.name = Hash("eachField") -> EachField(p, t.value)
    [] t.type # "string" /\ t.name = Hash("other") -> p
    [] IsClosing(t) -> End(p)
    [] IsSlash(t) /\ ~IsClosing(t) -> [p EXCEPT !.this = Root]
    [] OTHER -> Field(p, t.name)

\* The tokens of a file are parsed where it is named.
Parse(p, t) ==
  IF t.type = "directive" /\ t.name = Hash("template") THEN FoldLeft(ParseOne, p, File)
  ELSE ParseOne(p, t)

-----------------------------------------------------------------------------
Init == tokens = <<>> /\ parser = Start

Take(t) ==
  /\ Len(tokens) < Most
  /\ tokens' = Append(tokens, t) /\ parser' = Parse(parser, t)

\* Two texts in a row are one text.
TakeText ==
  \E s \in Texts :
    /\ tokens # <<>> => Last(tokens).type # "string"
    /\ Take(Text(s))

TakeField == \E n \in Names \cup {This} : Take(Directive(n, <<>>))
\* No parameter is called `this`.
TakeCommand ==
  \E c \in {"code", "arg", "each", "eachField", "other"} : \E n \in Names \cup {This} :
    (c = "arg" => n # This) /\ Take(Directive(Hash(c), n))
TakeFile == Take(Directive(Hash("template"), <<"f">>))
TakeEnd ==
  \E c \in {"each", "eachField", "other"} :
    (c = "other" \/ parser.depth > 0) /\ Take(Directive(Slash(c), <<>>))

Next == TakeText \/ TakeField \/ TakeCommand \/ TakeFile \/ TakeEnd
Spec == Init /\ [][Next]_<<tokens, parser>>

-----------------------------------------------------------------------------
Spelling(t) ==
  IF t.type = "string" THEN t.value
  ELSE <<"{", "{">> \o t.name \o (IF t.value = <<>> THEN <<>> ELSE <<" ">> \o t.value) \o <<"}", "}">>

\* The loops that are open at the end of a source, outermost first.
OpenLoops(source) ==
  FoldLeft(LAMBDA open, st : CASE st.op = "for" -> Append(open, st.var)
                               [] st.op = "end" -> Front(open)
                               [] OTHER -> open,
           <<>>, source)

\* The tokenizer finds the tokens a template was written from, but for a text of
\* a single byte before a directive, which it drops.
RoundTrip ==
  Tokenize(FlattenSeq([i \in DOMAIN tokens |-> Spelling(tokens[i])])) =
    FoldLeftDomain(LAMBDA ts, i : IF tokens[i].type = "string" /\ Len(tokens[i].value) = 1
                                     /\ i < Len(tokens)
                                  THEN ts ELSE Append(ts, tokens[i]),
                   <<>>, tokens)

\* Every loop has its own variable, also when a file is read inside of it, and
\* no variable is used after its loop was closed.
Scoped ==
  /\ OpenLoops(parser.source) = [d \in 1..parser.depth |-> d]
  /\ \A i \in DOMAIN parser.source :
       parser.source[i].op \in {"for", "add"} =>
         parser.source[i].base \in
           {Root, Bare, Nothing} \cup ToSet(OpenLoops(SubSeq(parser.source, 1, i - 1)))

\* The template with the tokens of the files it names, and those of them that
\* open a loop or begin with a slash.
Expanded ==
  FlattenSeq([i \in DOMAIN tokens |->
    IF tokens[i].type = "directive" /\ tokens[i].name = Hash("template") THEN File
    ELSE <<tokens[i]>>])
Marks == SelectSeq(Expanded, LAMBDA t : IsOpening(t) \/ IsSlash(t))

\* The loops that are open at the end of the template, outermost first.
Around ==
  FoldLeft(LAMBDA loops, t : IF IsOpening(t) THEN Append(loops, t)
                             ELSE IF IsClosing(t) THEN Front(loops) ELSE loops,
           <<>>, Marks)

\* What a field belongs to: the innermost of them.
Innermost ==
  IF Around = <<>> THEN Root
  ELSE IF Last(Around).name = Hash("each") THEN Len(Around) ELSE Bare

\* The parser takes fields from the innermost loop as long as nothing was closed
\* inside of it, and then never again.
FieldsOf == parser.this = Innermost <=> Around = <<>> \/ IsOpening(Last(Marks))

\* A template makes a function when all of its loops are closed, unless a loop
\* over a field is the first thing inside of an #eachField, where the field would
\* be one of nothing.
Compiles ==
  (/\ parser.depth = 0
   /\ \A i \in DOMAIN parser.source :
        parser.source[i].op \in {"for", "add"} => parser.source[i].base # Nothing)
  <=> /\ Around = <<>>
      /\ \A i \in 2..Len(Marks) :
           Marks[i - 1].name = Hash("eachField") /\ IsOpening(Marks[i]) => Marks[i].value = This

\* A template is compiled as it was written, within these limits.
Compiled == RoundTrip /\ Scoped /\ FieldsOf /\ Compiles
=============================================================================
