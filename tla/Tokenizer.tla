------------------------------ MODULE Tokenizer ------------------------------
(***************************************************************************)
(* The text of a command: Tokens::new and Display of                       *)
(* src/shared/tokenizer.rs, and the line a slot builds from the tokens     *)
(* (src/shared/jobs.rs).  A text is a sequence of characters; "BS" is the  *)
(* backslash.                                                              *)
(***************************************************************************)
EXTENDS Naturals, Sequences, SequencesExt

Space == " "

Opening == "{"

Closing == "}"

(* The tokens that stand for something, and how they are written.           *)
Literal ==
    [placeholder |-> <<Opening, Closing>>,
     slot        |-> <<Opening, "%", Closing>>,
     job         |-> <<Opening, "#", Closing>>]

Text(t) == [kind |-> "text", text |-> t]

Special(k) == [kind |-> k, text |-> Literal[k]]

(* The tokens, where the text begins that is in none of them yet, the flag  *)
(* OPEN, and whether a backslash makes chars.next() drop the next one.      *)
Scanned(tokens, start, open, skip) ==
    [tokens |-> tokens, start |-> start, open |-> open, skip |-> skip]

OpenBrace(text, st, i) ==
    Scanned(IF st.start # i THEN Append(st.tokens, Text(SubSeq(text, st.start, i - 1)))
                            ELSE st.tokens,
            i, TRUE, FALSE)

(* Mutant of CloseBrace: OPEN stays set after braces that are no token.     *)
CloseTokenOnly(text, st, i) ==
    LET kinds == {k \in DOMAIN Literal : Literal[k] = SubSeq(text, st.start, i)}
    IN  IF kinds = {} THEN st
        ELSE Scanned(Append(st.tokens, Special(CHOOSE k \in kinds : TRUE)), i + 1, FALSE, FALSE)

CloseBrace(text, st, i) ==
    LET kinds == {k \in DOMAIN Literal : Literal[k] = SubSeq(text, st.start, i)}
    IN  IF kinds = {} THEN [st EXCEPT !.open = FALSE]
        ELSE Scanned(Append(st.tokens, Special(CHOOSE k \in kinds : TRUE)), i + 1, FALSE, FALSE)

Scan(text, st, i) ==
    CASE st.skip                      -> [st EXCEPT !.skip = FALSE]
      [] ~st.skip /\ text[i] = "BS"   -> [st EXCEPT !.skip = TRUE]
      [] ~st.skip /\ text[i] = Opening /\ ~st.open -> OpenBrace(text, st, i)
      [] ~st.skip /\ text[i] = Closing /\ st.open  -> CloseBrace(text, st, i)
      [] OTHER -> st

ScanAll(text) ==
    LET at[i \in 0 .. Len(text)] ==
            IF i = 0 THEN Scanned(<<>>, 1, FALSE, FALSE) ELSE Scan(text, at[i - 1], i)
    IN  at[Len(text)]

(* What is left behind the last token becomes a text.                       *)
Stragglers(text, st) ==
    IF st.start <= Len(text) THEN Append(st.tokens, Text(SubSeq(text, st.start, Len(text))))
    ELSE st.tokens

(* Without a placeholder one is appended, behind a space.                   *)
WithPlaceholder(tokens) ==
    LET n == Len(tokens)
        spaced == CASE n = 0 -> tokens
                    [] n > 0 /\ tokens[n].kind = "text" -> [tokens EXCEPT ![n].text = Append(@, Space)]
                    [] OTHER -> Append(tokens, Text(<<Space>>))
    IN  IF \E i \in 1 .. n : tokens[i].kind = "placeholder" THEN tokens
        ELSE Append(spaced, Special("placeholder"))

Tokens(text) == WithPlaceholder(Stragglers(text, ScanAll(text)))

Display(tokens) == FlattenSeq([i \in DOMAIN tokens |-> tokens[i].text])

(* The line a slot passes to the shell: value says what each kind of token  *)
(* stands for.                                                              *)
Expand(tokens, value) ==
    FlattenSeq([i \in DOMAIN tokens |->
        IF tokens[i].kind = "text" THEN tokens[i].text ELSE value[tokens[i].kind]])

-----------------------------------------------------------------------------
(* The reference: which parts of a text are tokens, said without a scan.    *)

(* A character counts unless an odd number of backslashes precedes it.      *)
Plain(text, i) ==
    \A k \in 0 .. i - 1 :
        (/\ \A m \in k + 1 .. i - 1 : text[m] = "BS"
         /\ k = 0 \/ text[k] # "BS")
            => (i - 1 - k) % 2 = 0

(* An opening brace counts if each one before it has been closed.           *)
Opens(text, i) ==
    /\ text[i] = Opening /\ Plain(text, i)
    /\ \A k \in 1 .. i - 1 : (text[k] = Opening /\ Plain(text, k)) =>
          \E m \in k + 1 .. i - 1 : text[m] = Closing /\ Plain(text, m)

Spans(text) ==
    {s \in (1 .. Len(text)) \X DOMAIN Literal :
        /\ Opens(text, s[1])
        /\ s[1] + Len(Literal[s[2]]) - 1 <= Len(text)
        /\ SubSeq(text, s[1], s[1] + Len(Literal[s[2]]) - 1) = Literal[s[2]]}

(* The text with each token replaced by what it stands for, and the value   *)
(* of the placeholder behind it if it has none.                             *)
Replaced(text, value) ==
    LET spans == Spans(text)
        starts(i, k) == <<i, k>> \in spans
        inside(i) == \E s \in spans : s[1] < i /\ i < s[1] + Len(Literal[s[2]])
        part(i) ==
            IF \E k \in DOMAIN Literal : starts(i, k)
            THEN value[CHOOSE k \in DOMAIN Literal : starts(i, k)]
            ELSE IF inside(i) THEN <<>> ELSE <<text[i]>>
        body == FlattenSeq([i \in 1 .. Len(text) |-> part(i)])
    IN  IF \E i \in 1 .. Len(text) : starts(i, "placeholder") THEN body
        ELSE (IF text = <<>> THEN <<>> ELSE Append(body, Space)) \o value["placeholder"]

=============================================================================
