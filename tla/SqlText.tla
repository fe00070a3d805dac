------------------------------ MODULE SqlText -------------------------------
(* The scanners that read SQL text without parsing it: SplitStatements       *)
(* (query/split.go), which cuts a script into statements, and                *)
(* CountPlaceholders and hasNamedParameters (api/validate.go), which find    *)
(* the parameters of an endpoint's statement. They are compared, symbol by   *)
(* symbol and over texts of any length, with the lexer of SQLite.            *)
(*                                                                           *)
(* A text is a sequence of symbols; each step consumes the symbol ch and     *)
(* chooses the next one, which is all the scanners look ahead. A symbol is a *)
(* character that matters to a scanner, or a whole word: "x" is any other    *)
(* word, "trigger" the words CREATE TRIGGER, after EXPLAIN or not, "spaced"  *)
(* the same words with something else than one space between them. "begin"   *)
(* and "end" are the words BEGIN and END where SQLite takes them for a name, *)
(* as it does wherever the keyword cannot stand, or for a part of a name.    *)
(* "question" is a parameter ? or ?NNN that gets the next number, "numbered" *)
(* a ?NNN with another; "parameter" is one of :, @ and $ with a name,        *)
(* "digit" one with a name that does not begin with a letter of ASCII or an  *)
(* underscore, and "dollar" a name with a $ before such a letter in it. Two  *)
(* words in a row stand for words with a space between them.                 *)
EXTENDS Naturals

CONSTANTS
    Nested, \* CASE expressions that may be open at a time
    Odd     \* forms that SplitStatements does not read as SQLite does, admitted in texts:
            \* "overlap"  a comment that begins with /*/
            \* "mention"  CREATE TRIGGER within a comment or a literal
            \* "spaced"   CREATE TRIGGER written with other white space
            \* "case"     CASE ... END in the body of a trigger
            \* "name"     BEGIN as a name in a trigger, or END in the body of one

Word == {"x", "trigger", "spaced", "BEGIN", "CASE", "END", "begin", "end", "dollar"}
Symbol == Word \cup {"quote", "double", "bracket", "closing", "backtick", "dash", "slash", "star",
                   "semicolon", "question", "numbered", "parameter", "digit", "newline"}
End == "eof"

VARIABLES
    ch,      \* the symbol to be consumed
    split,   \* SplitStatements: how far its scan is, and the statement so far
    count,   \* CountPlaceholders: its scan
    strip,   \* stripLiterals: its scan
    sqlite,  \* SQLite's lexer, and the statement it is in
    odd,     \* forms met in the text, up to ch
    read     \* what each made of the last symbol, and the forms met up to it

vars == <<ch, split, count, strip, sqlite, odd, read>>

-----------------------------------------------------------------------------
(* One scan: at the top level, in a comment, or in a literal that some       *)
(* character opened; skip when the symbol was consumed with the one before.  *)

At(in, skip) == [in |-> in, skip |-> skip]
Top == At("top", FALSE)
Sees(s) == s.in = "top" /\ ~s.skip
Close == [q \in {"quote", "double", "bracket", "backtick"} |->
              IF q = "bracket" THEN "closing" ELSE q]

\* quotes: the characters that open a literal; overlap: whether the * that opens
\* a comment may also be the one that closes it.
Scan(s, next, quotes, overlap) ==
    CASE s.skip -> At(s.in, FALSE)
      [] ~s.skip /\ s.in = "line" -> IF ch = "newline" THEN Top ELSE s
      [] ~s.skip /\ s.in = "block" ->
           IF ch = "star" /\ next = "slash" THEN At("top", TRUE) ELSE s
      [] ~s.skip /\ s.in \in quotes ->
           IF ch # Close[s.in] THEN s
           ELSE IF ch \in {"quote", "double"} /\ next = ch THEN At(s.in, TRUE)
           ELSE Top
      [] Sees(s) ->
           IF ch = "dash" /\ next = "dash" THEN At("line", TRUE)
           ELSE IF ch = "slash" /\ next = "star" THEN At("block", ~overlap)
           ELSE IF ch \in quotes THEN At(ch, FALSE)
           ELSE s

\* What a symbol that a scan sees adds to a statement: more than white space and
\* comments.
Executable(next) ==
    /\ ch \notin {"semicolon", "newline"}
    /\ ~(ch = "dash" /\ next = "dash") /\ ~(ch = "slash" /\ next = "star")

\* How a statement ends: with something to execute, or as an empty fragment.
Ended(executable) == IF executable THEN "statement" ELSE "empty"

-----------------------------------------------------------------------------
(* The scanners of the code.                                                 *)

SplitQuotesSome == {"quote", "double", "bracket"}  \* mutant: no names in backticks
SplitQuotes == {"quote", "double", "bracket", "backtick"}

\* isTriggerBody looks for the words anywhere in the statement so far.
IsTriggerBody == split.trigger

\* beginDepth
DepthAnyBegin ==  \* mutant: the BEGIN of a transaction nests, too
    IF ~Sees(split.scan) THEN split.depth
    ELSE IF ch \in {"BEGIN", "begin"} THEN split.depth + 1
    ELSE IF ch \in {"END", "end"} /\ split.depth > 0 THEN split.depth - 1
    ELSE split.depth

Depth ==
    IF ~Sees(split.scan) THEN split.depth
    ELSE IF ch \in {"BEGIN", "begin"} /\ IsTriggerBody THEN split.depth + 1
    ELSE IF ch \in {"END", "end"} /\ split.depth > 0 THEN split.depth - 1
    ELSE split.depth

SplitFrom(scan) == [scan |-> scan, trigger |-> FALSE, depth |-> 0, sql |-> FALSE]

\* A semicolon at the top level cuts, unless it separates the statements of a
\* body; hasSQL drops fragments of comments and white space.
SplitCuts == Sees(split.scan) /\ ch = "semicolon" /\ split.depth = 0

SplitStep(next) ==
    LET scan == Scan(split.scan, next, SplitQuotes, TRUE) IN
    IF SplitCuts THEN SplitFrom(scan)
    ELSE [scan |-> scan, trigger |-> split.trigger \/ ch = "trigger", depth |-> Depth,
          sql |-> split.sql \/ (Sees(split.scan) /\ Executable(next))]

\* ValidateSQL applies these two to the one statement of an endpoint: any of the
\* statements of the text may be that one.
CountQuotesSome == {"quote", "double"}  \* mutant: no names in brackets
CountQuotes == {"quote", "double", "bracket"}
CountStep(next) == IF SplitCuts THEN Top ELSE Scan(count, next, CountQuotes, FALSE)

StripQuotes == {"quote", "double"}
StripStep(next) == IF SplitCuts THEN Top ELSE Scan(strip, next, StripQuotes, FALSE)

-----------------------------------------------------------------------------
(* SQLite: its tokens, and the few places where the words that matter may    *)
(* stand in a statement that it accepts.                                     *)

\* part: nothing yet, the head of a trigger, its body, the text after the body's
\* END, or any other statement; cases: CASE expressions that are open; unlike: which
\* parameters of the statement, by position or by name, validate.go may misread.
SqliteFrom(scan) == [scan |-> scan, part |-> "nothing", cases |-> 0, unlike |-> {}]

\* The symbols after which it may: names that it does not skip, and the kinds of
\* parameters it does not tell apart.
Unlike == [position |-> {"backtick", "numbered"},
           name |-> {"backtick", "bracket", "digit", "dollar"}]

Part ==
    IF ch \in {"trigger", "spaced"} /\ sqlite.part = "nothing" THEN "head"
    ELSE IF ch = "BEGIN" /\ sqlite.part = "head" THEN "body"
    ELSE IF ch = "END" /\ sqlite.part = "body" /\ sqlite.cases = 0 THEN "done"
    ELSE IF sqlite.part = "nothing" THEN "other" ELSE sqlite.part

Cases ==
    IF ch = "CASE" THEN sqlite.cases + 1
    ELSE IF ch = "END" /\ sqlite.cases > 0 THEN sqlite.cases - 1
    ELSE sqlite.cases

SqliteEnds == Sees(sqlite.scan) /\ ch = "semicolon" /\ sqlite.part # "body"

SqliteStep(next) ==
    LET scan == Scan(sqlite.scan, next, DOMAIN Close, FALSE) IN
    IF SqliteEnds THEN SqliteFrom(scan)
    ELSE IF ~Sees(sqlite.scan) \/ ~Executable(next) THEN [sqlite EXCEPT !.scan = scan]
    ELSE [scan |-> scan, part |-> Part, cases |-> Cases,
          unlike |-> sqlite.unlike \cup {k \in DOMAIN Unlike : ch \in Unlike[k]}]

\* May next follow? s is where SQLite is when it comes to it.
MayFollow(s, next) ==
    IF ~Sees(s.scan)
    THEN next = End => s.scan.in \in {"line", "block", "top"} /\ s.part \notin {"head", "body"}
    ELSE /\ next \in {"trigger", "spaced"} => s.part = "nothing"
         /\ next = "BEGIN" => s.part \in {"nothing", "head"} /\ s.cases = 0
         /\ next \in {"begin", "end"} => s.part # "nothing"
         /\ next = "CASE" => s.part \in {"other", "head", "body"} /\ s.cases < Nested
         /\ next = "END" => s.cases > 0 \/ s.part \in {"nothing", "body"}
         /\ next = "semicolon" => s.cases = 0 /\ s.part # "head"
         /\ next = End => s.cases = 0 /\ s.part \notin {"head", "body"}
         /\ s.part = "done" => next \in {"semicolon", End, "newline", "dash", "slash"}

\* Is next one of the forms that the scanners misread?
Misread(s, next) ==
    UNION {IF s.scan.in = "block" /\ sqlite.scan.skip /\ next = "slash" THEN {"overlap"} ELSE {},
           IF next = "trigger" /\ ~Sees(s.scan) THEN {"mention"} ELSE {},
           IF next = "spaced" /\ Sees(s.scan) THEN {"spaced"} ELSE {},
           IF next = "CASE" /\ Sees(s.scan) /\ s.part = "body" THEN {"case"} ELSE {},
           IF Sees(s.scan) /\ s.part \in (CASE next = "begin" -> {"head", "body"}
                                          [] next = "end" -> {"body"}
                                          [] OTHER -> {})
           THEN {"name"} ELSE {}}

-----------------------------------------------------------------------------
\* What became of the symbol: whether it ended a statement for the code and for
\* SQLite, whether it was counted and is one more parameter by position, and
\* whether a named parameter was found and there is one.
Reading(next) ==
    [cut  |-> IF SplitCuts THEN Ended(split.sql) ELSE "no",
     ends |-> IF SqliteEnds THEN Ended(sqlite.part # "nothing") ELSE "no",
     counted |-> ch \in {"question", "numbered"} /\ Sees(count),
     bound |-> ch = "question" /\ Sees(sqlite.scan),
     found |-> ch \in {"parameter", "dollar"} /\ Sees(strip),
     named |-> ch \in {"parameter", "digit"} /\ Sees(sqlite.scan),
     odd |-> odd]

Nothing == [cut |-> "no", ends |-> "no", counted |-> FALSE, bound |-> FALSE,
            found |-> FALSE, named |-> FALSE, odd |-> {}]

Init ==
    /\ ch \in {c \in Symbol : MayFollow(SqliteFrom(Top), c)}
    /\ odd = Misread(SqliteFrom(Top), ch) /\ odd \subseteq Odd
    /\ split = SplitFrom(Top) /\ count = Top /\ strip = Top /\ sqlite = SqliteFrom(Top)
    /\ read = Nothing

Consume ==
    /\ ch # End
    /\ \E next \in Symbol \cup {End} :
          /\ MayFollow(SqliteStep(next), next)
          /\ odd' = odd \cup Misread(SqliteStep(next), next) /\ odd' \subseteq Odd
          /\ ch' = next
          /\ split' = SplitStep(next) /\ count' = CountStep(next) /\ strip' = StripStep(next)
          /\ sqlite' = SqliteStep(next)
          /\ read' = Reading(next)

\* The end of the text ends the last statement, too.
Finish ==
    /\ ch = End
    /\ read' = [Nothing EXCEPT !.cut = Ended(split.sql), !.ends = Ended(sqlite.part # "nothing"),
                               !.odd = odd]
    /\ ch' = "newline" /\ odd' = {}
    /\ split' = SplitFrom(Top) /\ count' = Top /\ strip' = Top /\ sqlite' = SqliteFrom(Top)

Next == Consume \/ Finish

Spec == Init /\ [][Next]_vars

-----------------------------------------------------------------------------
(* Correctness.                                                              *)

\* A script is cut where its statements end, and nowhere else, as far as it holds
\* none of the odd forms: not at semicolons in literals, names, comments and the
\* bodies of triggers, whatever is named BEGIN or END elsewhere; and fragments
\* without a statement are dropped, statements never.
CutWhereStatementsEnd == read.odd = {} => read.cut = read.ends

\* "Splitting on ";" alone would break scripts containing semicolons inside ...
\* trigger bodies, so this walks the text": in odd forms, too.
BodiesKeptWhole == read.cut = read.ends

\* As far as a text holds none of the odd forms, a placeholder is counted exactly
\* when SQLite binds one more parameter by position: in statements without names in
\* backticks and numbers of its own for a parameter.  And a named parameter is found
\* exactly when there is one: in statements without names in backticks or brackets,
\* without parameters whose name begins with a digit, and names with a $ in them.
ParametersAsBound ==
    read.odd = {} =>
        /\ "position" \notin sqlite.unlike => read.counted = read.bound
        /\ "name" \notin sqlite.unlike => read.found = read.named
=============================================================================
