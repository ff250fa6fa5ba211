--------------------------- MODULE Tokenizer_proofs ---------------------------
(***************************************************************************)
(* What Tokens::new makes of a text, for every text: its one scan, with a  *)
(* flag and a position, finds the very parts that the reference finds by   *)
(* looking at the whole text.                                              *)
(***************************************************************************)
EXTENDS Tokenizer, Lemmas

(* A text is a sequence of these. That a literal is a string is not known   *)
(* to the provers, so those that this module and Wire write are named.      *)
Characters ==
    STRING \cup {Opening, Closing, Space, "%", "#", "x", "y", "n", "LF", "CR", "BS"}
        \cup {"0", "1", "2", "3", "4", "5", "6", "7", "8", "9"}
        \cup {"com", "inp", "get", "del", "cores", "comms", "deleted", "job", "ERR"}

Kinds == {"placeholder", "slot", "job"}

LEMMA Braces ==
    /\ Opening \in Characters /\ Closing \in Characters /\ Opening # Closing
    /\ Opening \notin {"BS", "%", "#"} /\ Closing \notin {"BS", "%", "#"}
<1>1. Opening \in Characters /\ Closing \in Characters
  BY Zenon DEF Characters
<1>2. Opening # Closing
  BY Zenon DEF Opening, Closing
<1>3. Opening # "BS" /\ Opening # "%" /\ Opening # "#"
  BY Zenon DEF Opening
<1>4. Closing # "BS" /\ Closing # "%" /\ Closing # "#"
  BY Zenon DEF Closing
<1>. QED  BY ONLY <1>1, <1>2, <1>3, <1>4

LEMMA LiteralIs ==
    /\ DOMAIN Literal = Kinds
    /\ Literal["placeholder"] = <<Opening, Closing>>
    /\ Literal["slot"] = <<Opening, "%", Closing>>
    /\ Literal["job"] = <<Opening, "#", Closing>>
    /\ \A k \in Kinds : Literal[k] \in Seq(Characters)
<1>1. /\ DOMAIN Literal = Kinds
      /\ Literal["placeholder"] = <<Opening, Closing>>
      /\ Literal["slot"] = <<Opening, "%", Closing>>
      /\ Literal["job"] = <<Opening, "#", Closing>>
  BY DEF Literal, Kinds
<1>2. Opening \in Characters /\ Closing \in Characters /\ "%" \in Characters /\ "#" \in Characters
  BY Braces DEF Characters
<1>3. /\ <<Opening, Closing>> \in Seq(Characters) /\ <<Opening, "%", Closing>> \in Seq(Characters)
      /\ <<Opening, "#", Closing>> \in Seq(Characters)
  <2>1. \A a, b, c \in Characters : <<a, b>> \in Seq(Characters) /\ <<a, b, c>> \in Seq(Characters)
    OBVIOUS
  <2>. QED  BY ONLY <1>2, <2>1, Zenon
<1>. QED  BY ONLY <1>1, <1>3 DEF Kinds

-----------------------------------------------------------------------------
(* Backslashes: whether a character counts follows from the one before it.  *)

(* The backslashes before i begin behind k.                                 *)
Run(text, i, k) ==
    /\ \A m \in k + 1 .. i - 1 : text[m] = "BS"
    /\ k = 0 \/ text[k] # "BS"

LEMMA RunExists ==
    ASSUME NEW text, NEW i \in Nat \ {0}
    PROVE  \E k \in 0 .. i - 1 : Run(text, i, k)
<1>. DEFINE T == {j \in 0 .. i : j = 0 \/ \E k \in 0 .. j - 1 : Run(text, j, k)}
<1>1. 0 \in T
  OBVIOUS
<1>2. ASSUME NEW j \in 1 .. i, j - 1 \in T PROVE j \in T
  <2>1. CASE j = 1
    <3>1. Run(text, 1, 0) /\ 0 \in 0 .. 1 - 1
      BY DEF Run
    <3>. QED  BY <2>1, <3>1
  <2>2. CASE j # 1 /\ text[j - 1] # "BS"
    <3>1. Run(text, j, j - 1) /\ j - 1 \in 0 .. j - 1
      BY <2>2 DEF Run
    <3>. QED  BY <3>1
  <2>3. CASE j # 1 /\ text[j - 1] = "BS"
    <3>1. PICK k \in 0 .. (j - 1) - 1 : Run(text, j - 1, k)
      BY <1>2, <2>3
    <3>2. Run(text, j, k) /\ k \in 0 .. j - 1
      <4>1. \A m \in k + 1 .. j - 1 : m = j - 1 \/ m \in k + 1 .. (j - 1) - 1
        OBVIOUS
      <4>. QED  BY <2>3, <3>1, <4>1 DEF Run
    <3>. QED  BY <3>2
  <2>. QED  BY <2>1, <2>2, <2>3
<1>3. \A j \in 0 .. i : j \in T
  <2>. HIDE DEF T
  <2>. QED  BY <1>1, <1>2, Induction, Zenon
<1>. QED  BY <1>3

LEMMA PlainNext ==
    ASSUME NEW text, NEW i \in Nat \ {0}
    PROVE  /\ Plain(text, 1)
           /\ Plain(text, i + 1) <=> text[i] # "BS" \/ ~Plain(text, i)
<1>1. ASSUME NEW j
      PROVE  Plain(text, j) <=> \A k \in 0 .. j - 1 : Run(text, j, k) => (j - 1 - k) % 2 = 0
  BY Zenon DEF Plain, Run
<1>2. Plain(text, 1)
  <2>1. \A k \in 0 .. 1 - 1 : (1 - 1 - k) % 2 = 0
    OBVIOUS
  <2>. QED  BY <1>1, <2>1, Zenon
<1>3. CASE text[i] # "BS"
  <2>1. ASSUME NEW k \in 0 .. (i + 1) - 1, Run(text, i + 1, k) PROVE (i + 1 - 1 - k) % 2 = 0
    <3>1. k = i
      <4>. SUFFICES ASSUME k # i PROVE FALSE
        OBVIOUS
      <4>1. i \in k + 1 .. (i + 1) - 1
        OBVIOUS
      <4>. QED  BY <1>3, <2>1, <4>1 DEF Run
    <3>2. i + 1 - 1 - k = 0
      BY <3>1
    <3>. QED  BY <3>2
  <2>2. Plain(text, i + 1)
    BY <1>1, <2>1
  <2>. QED  BY <1>2, <1>3, <2>2
<1>4. CASE text[i] = "BS"
  <2>1. PICK k \in 0 .. i - 1 : Run(text, i, k)
    BY RunExists
  <2>2. Run(text, i + 1, k) /\ k \in 0 .. (i + 1) - 1
    <3>1. \A m \in k + 1 .. (i + 1) - 1 : m = i \/ m \in k + 1 .. i - 1
      OBVIOUS
    <3>. QED  BY <1>4, <2>1, <3>1 DEF Run
  <2>3. ASSUME NEW l \in 0 .. (i + 1) - 1, Run(text, i + 1, l) PROVE l = k
    <3>1. ~(l \in k + 1 .. (i + 1) - 1) /\ ~(k \in l + 1 .. (i + 1) - 1)
      BY <2>2, <2>3 DEF Run
    <3>. QED  BY <3>1
  <2>4. ASSUME NEW l \in 0 .. i - 1, Run(text, i, l) PROVE l = k
    <3>1. ~(l \in k + 1 .. i - 1) /\ ~(k \in l + 1 .. i - 1)
      BY <2>1, <2>4 DEF Run
    <3>. QED  BY <3>1
  <2>5. Plain(text, i + 1) <=> (i + 1 - 1 - k) % 2 = 0
    BY <1>1, <2>2, <2>3
  <2>6. Plain(text, i) <=> (i - 1 - k) % 2 = 0
    BY <1>1, <2>1, <2>4, Zenon
  <2>7. (i + 1 - 1 - k) % 2 = 0 <=> ~((i - 1 - k) % 2 = 0)
    <3>. DEFINE d == i - 1 - k
    <3>1. d \in Nat /\ i + 1 - 1 - k = d + 1
      OBVIOUS
    <3>. HIDE DEF d
    <3>2. (d + 1) % 2 = 0 <=> ~(d % 2 = 0)
      BY ONLY <3>1
    <3>. QED  BY ONLY <3>1, <3>2 DEF d
  <2>. QED  BY ONLY <1>2, <1>4, <2>5, <2>6, <2>7
<1>. QED  BY ONLY <1>3, <1>4

-----------------------------------------------------------------------------
(* The parts of a text that are tokens.                                     *)

Ends(s) == s[1] + Len(Literal[s[2]]) - 1

Closes(text, m) == text[m] = Closing /\ Plain(text, m)

LEMMA SpanIs ==
    ASSUME NEW text \in Seq(Characters), NEW s \in Spans(text)
    PROVE  /\ s[1] \in 1 .. Len(text) /\ s[2] \in Kinds /\ s = <<s[1], s[2]>>
           /\ Ends(s) \in s[1] + 1 .. Len(text)
           /\ text[s[1]] = Opening /\ Plain(text, s[1]) /\ Opens(text, s[1])
           /\ Closes(text, Ends(s))
           /\ \A j \in s[1] + 1 .. Ends(s) : text[j] # Opening
           /\ \A j \in s[1] + 1 .. Ends(s) - 1 : text[j] # Closing
           /\ s[2] = "placeholder" <=> text[s[1] + 1] = Closing
           /\ s[2] = "slot" <=> text[s[1] + 1] = "%"
           /\ SubSeq(text, s[1], Ends(s)) = Literal[s[2]]
<1>. DEFINE n == Len(text)
            p == s[1]
            k == s[2]
            x == Len(Literal[k])
            e == p + x - 1
            c == SubSeq(text, p, e)
<1>0. n \in Nat /\ p \in 1 .. n /\ k \in Kinds /\ s = <<p, k>>
  <2>. DEFINE P == 1 .. n
  <2>1. s \in P \X Kinds
    BY LiteralIs, Zenon DEF Spans
  <2>. HIDE DEF P
  <2>2. p \in P /\ k \in Kinds /\ s = <<p, k>>
    BY ONLY <2>1
  <2>. QED  BY <2>2 DEF P
<1>1. n \in Nat /\ p \in 1 .. n /\ k \in Kinds
  BY <1>0
<1>2. Opens(text, p) /\ e <= n /\ c = Literal[k]
  BY DEF Spans
<1>3. text[p] = Opening /\ Plain(text, p)
  BY <1>2 DEF Opens
<1>4. e = Ends(s)
  BY DEF Ends
<1>5. /\ k = "placeholder" => Literal[k] = <<Opening, Closing>>
      /\ k = "slot" => Literal[k] = <<Opening, "%", Closing>>
      /\ k = "job" => Literal[k] = <<Opening, "#", Closing>>
  BY LiteralIs
<1>. HIDE DEF p, k, n
<1>6. x \in {2, 3} /\ (k = "placeholder" <=> x = 2)
  <2>1. /\ k = "placeholder" => x = 2
        /\ k \in {"slot", "job"} => x = 3
    BY ONLY <1>5
  <2>. HIDE DEF x
  <2>. QED  BY ONLY <1>1, <2>1 DEF Kinds
<1>. HIDE DEF x
<1>7. \A j \in 1 .. x : c[j] = text[p + j - 1]
  BY ONLY <1>1, <1>2, <1>6, text \in Seq(Characters)
<1>. HIDE DEF c
<1>8. e \in Int /\ e = p + x - 1
  BY ONLY <1>1, <1>6
<1>. HIDE DEF e
<1>9. /\ e \in Nat
      /\ k = "placeholder" => e = p + 1 /\ text[p + 1] = Closing
      /\ k = "slot" => e = p + 2 /\ text[p + 1] = "%" /\ text[p + 2] = Closing
      /\ k = "job" => e = p + 2 /\ text[p + 1] = "#" /\ text[p + 2] = Closing
  <2>1. ASSUME k = "placeholder" PROVE e = p + 1 /\ text[p + 1] = Closing
    <3>1. c = <<Opening, Closing>>
      BY ONLY <1>2, <1>5, <2>1, Zenon
    <3>2. c[2] = Closing /\ 2 \in 1 .. x /\ x = 2
      <4>1. c[2] = Closing
        BY ONLY <3>1
      <4>2. x = 2
        BY ONLY <1>6, <2>1
      <4>. QED  BY ONLY <4>1, <4>2
    <3>3. p + 2 - 1 = p + 1
      BY ONLY <1>1
    <3>. QED  BY ONLY <1>7, <1>8, <3>2, <3>3
  <2>2. ASSUME k \in {"slot", "job"}
        PROVE  e = p + 2 /\ text[p + 1] = c[2] /\ text[p + 2] = c[3]
    <3>1. x = 3 /\ 2 \in 1 .. x /\ 3 \in 1 .. x
      BY ONLY <1>6, <2>2
    <3>2. p + 2 - 1 = p + 1 /\ p + 3 - 1 = p + 2
      BY ONLY <1>1
    <3>. QED  BY ONLY <1>7, <1>8, <3>1, <3>2
  <2>3. ASSUME k = "slot" PROVE c[2] = "%" /\ c[3] = Closing
    <3>1. c = <<Opening, "%", Closing>>
      BY ONLY <1>2, <1>5, <2>3, Zenon
    <3>. QED  BY ONLY <3>1
  <2>4. ASSUME k = "job" PROVE c[2] = "#" /\ c[3] = Closing
    <3>1. c = <<Opening, "#", Closing>>
      BY ONLY <1>2, <1>5, <2>4, Zenon
    <3>. QED  BY ONLY <3>1
  <2>5. e \in Nat
    BY ONLY <1>1, <1>6, <1>8
  <2>. QED  BY ONLY <2>1, <2>2, <2>3, <2>4, <2>5
<1>10. /\ e \in p + 1 .. n /\ text[e] = Closing /\ text[e - 1] # "BS"
       /\ \A j \in p + 1 .. e : text[j] # Opening
       /\ \A j \in p + 1 .. e - 1 : text[j] # Closing
       /\ k = "placeholder" <=> text[p + 1] = Closing
       /\ k = "slot" <=> text[p + 1] = "%"
  <2>1. CASE k = "placeholder"
    <3>1. e = p + 1 /\ text[p + 1] = Closing
      BY ONLY <1>9, <2>1
    <3>2. e - 1 = p /\ \A j \in p + 1 .. e : j = p + 1
      BY ONLY <1>1, <3>1
    <3>. QED  BY ONLY <1>1, <1>2, <1>3, <1>9, <2>1, <3>1, <3>2, Braces
  <2>2. CASE k \in {"slot", "job"}
    <3>1. /\ e = p + 2 /\ text[p + 1] \in {"%", "#"} /\ text[p + 2] = Closing
          /\ k = "slot" <=> text[p + 1] = "%"
      BY ONLY <1>9, <2>2
    <3>2. /\ e - 1 = p + 1 /\ \A j \in p + 1 .. e : j = p + 1 \/ j = p + 2
          /\ \A j \in p + 1 .. e - 1 : j = p + 1
      BY ONLY <1>1, <3>1
    <3>3. \A j \in p + 1 .. e : text[j] # Opening
      BY ONLY <3>1, <3>2, Braces
    <3>4. \A j \in p + 1 .. e - 1 : text[j] # Closing
      BY ONLY <3>1, <3>2, Braces
    <3>5. e \in p + 1 .. n
      BY ONLY <1>1, <1>2, <3>1
    <3>. QED  BY ONLY <2>2, <3>1, <3>2, <3>3, <3>4, <3>5
  <2>. QED  BY ONLY <1>1, <2>1, <2>2 DEF Kinds
<1>11. Plain(text, e)
  <2>1. e - 1 \in Nat \ {0} /\ (e - 1) + 1 = e
    BY ONLY <1>1, <1>9, <1>10
  <2>. QED  BY <1>10, <2>1, PlainNext, SMTT(30)
<1>12. SubSeq(text, p, Ends(s)) = Literal[k]
  BY <1>2, <1>4, Zenon DEF c
<1>. QED  BY <1>0, <1>1, <1>2, <1>3, <1>4, <1>10, <1>11, <1>12 DEF Closes, p, k, n

LEMMA OneSpan ==
    ASSUME NEW text \in Seq(Characters), NEW s \in Spans(text), NEW t \in Spans(text), s[1] = t[1]
    PROVE  s = t
<1>1. s[2] \in Kinds /\ t[2] \in Kinds /\ s = <<s[1], s[2]>> /\ t = <<t[1], t[2]>>
  BY SpanIs
<1>2. s[2] = "placeholder" <=> t[2] = "placeholder"
  BY SpanIs
<1>3. s[2] = "slot" <=> t[2] = "slot"
  BY SpanIs
<1>. QED  BY <1>1, <1>2, <1>3 DEF Kinds

(* A brace that the scan up to i has seen open, and not closed.             *)
Pending(text, i) ==
    \E k \in 1 .. i : /\ text[k] = Opening /\ Plain(text, k)
                      /\ \A m \in k + 1 .. i : ~Closes(text, m)

LEMMA OpensIs ==
    ASSUME NEW text, NEW i \in Nat \ {0}
    PROVE  Opens(text, i) <=> text[i] = Opening /\ Plain(text, i) /\ ~Pending(text, i - 1)
BY Zenon DEF Opens, Pending, Closes

LEMMA PendingNext ==
    ASSUME NEW text, NEW i \in Nat \ {0}
    PROVE  /\ ~Pending(text, 0)
           /\ Pending(text, i) <=> \/ text[i] = Opening /\ Plain(text, i)
                                   \/ Pending(text, i - 1) /\ ~Closes(text, i)
<1>1. ~Pending(text, 0)
  BY DEF Pending
<1>2. ASSUME text[i] = Opening, Plain(text, i) PROVE Pending(text, i)
  <2>1. i \in 1 .. i /\ i + 1 .. i = {}
    OBVIOUS
  <2>. QED  BY <1>2, <2>1 DEF Pending
<1>3. ASSUME Pending(text, i - 1), ~Closes(text, i) PROVE Pending(text, i)
  <2>1. PICK k \in 1 .. i - 1 : /\ text[k] = Opening /\ Plain(text, k)
                                /\ \A m \in k + 1 .. i - 1 : ~Closes(text, m)
    BY <1>3 DEF Pending
  <2>2. k \in 1 .. i /\ \A m \in k + 1 .. i : m = i \/ m \in k + 1 .. i - 1
    OBVIOUS
  <2>3. \A m \in k + 1 .. i : ~Closes(text, m)
    BY <1>3, <2>1, <2>2
  <2>. QED  BY <2>1, <2>2, <2>3 DEF Pending
<1>4. ASSUME Pending(text, i), ~(text[i] = Opening /\ Plain(text, i))
      PROVE  Pending(text, i - 1) /\ ~Closes(text, i)
  <2>1. PICK k \in 1 .. i : /\ text[k] = Opening /\ Plain(text, k)
                            /\ \A m \in k + 1 .. i : ~Closes(text, m)
    BY <1>4 DEF Pending
  <2>2. k # i
    BY <1>4, <2>1
  <2>3. k \in 1 .. i - 1 /\ i \in k + 1 .. i /\ \A m \in k + 1 .. i - 1 : m \in k + 1 .. i
    BY <2>2
  <2>. QED  BY <2>1, <2>3 DEF Pending
<1>. QED  BY <1>1, <1>2, <1>3, <1>4

(* Between the braces of a token one is open.                               *)
LEMMA SpanIsPending ==
    ASSUME NEW text \in Seq(Characters), NEW s \in Spans(text)
    PROVE  Pending(text, Ends(s) - 1)
<1>. DEFINE e == Ends(s)
            p == s[1]
<1>1. /\ p \in Nat \ {0} /\ e \in p + 1 .. Len(text) /\ Len(text) \in Nat
      /\ text[p] = Opening /\ Plain(text, p)
      /\ \A j \in p + 1 .. e - 1 : text[j] # Closing
  BY SpanIs
<1>. HIDE DEF e, p
<1>2. p \in 1 .. e - 1 /\ \A j \in p + 1 .. e - 1 : ~Closes(text, j)
  BY ONLY <1>1 DEF Closes
<1>. QED  BY <1>1, <1>2 DEF Pending, e

-----------------------------------------------------------------------------
(* The reference, piece by piece.                                           *)

Stands(value) == \A k \in Kinds : value[k] \in Seq(Characters)

Starts(text, i, k) == <<i, k>> \in Spans(text)

Inside(text, i) == \E s \in Spans(text) : s[1] < i /\ i < s[1] + Len(Literal[s[2]])

Piece(text, value, i) ==
    IF \E k \in DOMAIN Literal : Starts(text, i, k)
    THEN value[CHOOSE k \in DOMAIN Literal : Starts(text, i, k)]
    ELSE IF Inside(text, i) THEN <<>> ELSE <<text[i]>>

Body(text, value) == FlattenSeq([i \in 1 .. Len(text) |-> Piece(text, value, i)])

LEMMA ReplacedIs ==
    ASSUME NEW text, NEW value
    PROVE  Replaced(text, value) =
               IF \E i \in 1 .. Len(text) : Starts(text, i, "placeholder") THEN Body(text, value)
               ELSE (IF text = <<>> THEN <<>> ELSE Append(Body(text, value), Space)) \o value["placeholder"]
BY Zenon DEF Replaced, Body, Piece, Starts, Inside

LEMMA PieceIs ==
    ASSUME NEW text \in Seq(Characters), NEW i \in 1 .. Len(text), NEW value, Stands(value)
    PROVE  /\ Piece(text, value, i) \in Seq(Characters)
           /\ \A s \in Spans(text) : i = s[1] => Piece(text, value, i) = value[s[2]]
           /\ \A s \in Spans(text) : i \in s[1] + 1 .. Ends(s) => Piece(text, value, i) = <<>>
           /\ (\A s \in Spans(text) : ~(i \in s[1] .. Ends(s))) => Piece(text, value, i) = <<text[i]>>
<1>. DEFINE c == CHOOSE k \in DOMAIN Literal : Starts(text, i, k)
<1>1. ASSUME NEW k \in DOMAIN Literal, Starts(text, i, k) PROVE Starts(text, i, c) /\ c \in Kinds
  <2>1. c \in DOMAIN Literal /\ Starts(text, i, c)
    BY <1>1, Zenon
  <2>. QED  BY <2>1, LiteralIs
<1>2. ASSUME NEW s \in Spans(text), i = s[1] PROVE Piece(text, value, i) = value[s[2]]
  <2>1. s[2] \in DOMAIN Literal /\ Starts(text, i, s[2])
    BY <1>2, SpanIs, LiteralIs, Zenon DEF Starts
  <2>2. Starts(text, i, c)
    BY <1>1, <2>1
  <2>3. <<i, c>> \in Spans(text)
    BY <2>2 DEF Starts
  <2>. HIDE DEF c
  <2>4. <<i, c>>[1] = i /\ <<i, c>>[2] = c
    OBVIOUS
  <2>5. <<i, c>> = s
    BY <1>2, <2>3, <2>4, OneSpan, Zenon
  <2>6. Piece(text, value, i) = value[c]
    BY <2>1, Zenon DEF Piece, c
  <2>. QED  BY <2>4, <2>5, <2>6, Zenon
<1>3. ASSUME ~(\E s \in Spans(text) : i = s[1]), NEW k \in DOMAIN Literal PROVE ~Starts(text, i, k)
  <2>1. <<i, k>>[1] = i
    OBVIOUS
  <2>. QED  BY <1>3, <2>1, Zenon DEF Starts
<1>4. ASSUME NEW s \in Spans(text), i \in s[1] + 1 .. Ends(s) PROVE Piece(text, value, i) = <<>>
  <2>1. text[i] # Opening
    BY <1>4, SpanIs
  <2>2. ~(\E t \in Spans(text) : i = t[1])
    BY <2>1, SpanIs
  <2>3. Inside(text, i)
    <3>. DEFINE p == s[1]
                x == Len(Literal[s[2]])
    <3>1. s[1] \in Nat /\ x \in Nat
      <4>1. s[1] \in 1 .. Len(text) /\ s[2] \in Kinds /\ Len(text) \in Nat
        BY SpanIs
      <4>2. Literal[s[2]] \in Seq(Characters)
        BY <4>1, LiteralIs
      <4>. QED  BY <4>1, <4>2
    <3>2. i \in p + 1 .. p + x - 1
      BY <1>4 DEF Ends
    <3>. HIDE DEF p, x
    <3>3. p \in Nat /\ x \in Nat
      BY <3>1 DEF p
    <3>4. p < i /\ i < p + x
      BY ONLY <3>2, <3>3
    <3>. QED  BY <3>4 DEF Inside, p, x
  <2>. QED  BY <1>3, <2>2, <2>3, Zenon DEF Piece
<1>5. ASSUME \A s \in Spans(text) : ~(i \in s[1] .. Ends(s)) PROVE Piece(text, value, i) = <<text[i]>>
  <2>1. ~(\E s \in Spans(text) : i = s[1])
    <3>1. \A s \in Spans(text) : s[1] \in s[1] .. Ends(s)
      BY SpanIs
    <3>. QED  BY <1>5, <3>1
  <2>2. ~Inside(text, i)
    <3>. SUFFICES ASSUME NEW s \in Spans(text), s[1] < i, i < s[1] + Len(Literal[s[2]]) PROVE FALSE
      BY DEF Inside
    <3>. DEFINE p == s[1]
                x == Len(Literal[s[2]])
    <3>1. p \in Nat /\ x \in Nat
      <4>1. s[1] \in 1 .. Len(text) /\ s[2] \in Kinds /\ Len(text) \in Nat
        BY SpanIs
      <4>2. Literal[s[2]] \in Seq(Characters)
        BY <4>1, LiteralIs
      <4>. QED  BY <4>1, <4>2
    <3>2. Ends(s) = p + x - 1 /\ p < i /\ i < p + x
      BY DEF Ends
    <3>. HIDE DEF p, x
    <3>3. i \in p .. Ends(s)
      BY ONLY <3>1, <3>2, i \in 1 .. Len(text)
    <3>. QED  BY <1>5, <3>3 DEF p
  <2>. QED  BY <1>3, <2>1, <2>2, Zenon DEF Piece
<1>6. Piece(text, value, i) \in Seq(Characters)
  <2>1. CASE \E s \in Spans(text) : i = s[1]
    BY <1>2, <2>1, SpanIs DEF Stands
  <2>2. CASE ~(\E s \in Spans(text) : i = s[1])
    <3>1. text[i] \in Characters
      OBVIOUS
    <3>2. <<text[i]>> \in Seq(Characters) /\ <<>> \in Seq(Characters)
      BY ONLY <3>1
    <3>. QED  BY <1>3, <2>2, <3>2, Zenon DEF Piece
  <2>. QED  BY <2>1, <2>2
<1>. QED  BY <1>2, <1>4, <1>5, <1>6

(* The body up to each position.                                            *)
Bodies(f, text, value) ==
    /\ f \in [0 .. Len(text) -> Seq(Characters)]
    /\ f[0] = <<>>
    /\ \A i \in 1 .. Len(text) : f[i] = f[i - 1] \o Piece(text, value, i)
    /\ Body(text, value) = f[Len(text)]

LEMMA BodyIs ==
    ASSUME NEW text \in Seq(Characters), NEW value, Stands(value)
    PROVE  \E f : Bodies(f, text, value)
<1>. DEFINE n == Len(text)
            s == [i \in 1 .. n |-> Piece(text, value, i)]
<1>1. n \in Nat /\ s \in [1 .. n -> Seq(Characters)]
  BY PieceIs
<1>2. PICK f \in [0 .. n -> Seq(Characters)] :
          /\ f[0] = <<>>
          /\ \A i \in 1 .. n : f[i] = f[i - 1] \o s[i]
          /\ FlattenSeq(s) = f[n]
  <2>. HIDE DEF s, n
  <2>. QED  BY ONLY <1>1, Flattened, Zenon
<1>3. \A i \in 1 .. n : s[i] = Piece(text, value, i)
  OBVIOUS
<1>4. Body(text, value) = FlattenSeq(s)
  BY Zenon DEF Body
<1>. QED  BY <1>2, <1>3, <1>4 DEF Bodies

LEMMA SubSeqNext ==
    ASSUME NEW S, NEW text \in Seq(S), NEW a \in 1 .. Len(text) + 1, NEW j \in a .. Len(text)
    PROVE  SubSeq(text, a, j - 1) \o <<text[j]>> = SubSeq(text, a, j)
<1>. DEFINE c == text[j]
            y == SubSeq(text, a, j - 1)
            u == Append(y, c)
            v == SubSeq(text, a, j)
<1>1. a \in Nat \ {0} /\ j \in Nat /\ j >= a /\ c \in S
  OBVIOUS
<1>2. /\ y \in Seq(S) /\ Len(y) = j - a
      /\ \A k \in 1 .. j - a : y[k] = text[a + k - 1]
  OBVIOUS
<1>3. /\ v \in Seq(S) /\ Len(v) = (j - a) + 1
      /\ \A k \in 1 .. (j - a) + 1 : v[k] = text[a + k - 1]
  OBVIOUS
<1>4. y \o <<c>> = u
  <2>. HIDE DEF y, c
  <2>. QED  BY ONLY <1>1, <1>2, AppendIsConcat
<1>5. /\ u \in Seq(S) /\ Len(u) = Len(y) + 1
      /\ \A k \in 1 .. Len(y) : u[k] = y[k]
      /\ u[Len(y) + 1] = c
  <2>1. ASSUME NEW q \in Seq(S), NEW d \in S
        PROVE  /\ Append(q, d) \in Seq(S) /\ Len(Append(q, d)) = Len(q) + 1
               /\ \A k \in 1 .. Len(q) : Append(q, d)[k] = q[k]
               /\ Append(q, d)[Len(q) + 1] = d
    BY AppendProperties
  <2>. HIDE DEF y, c
  <2>2. y \in Seq(S) /\ c \in S
    BY ONLY <1>1, <1>2
  <2>. QED  BY ONLY <2>1, <2>2, Zenon
<1>. HIDE DEF y, u, v
<1>6. ASSUME NEW k \in 1 .. (j - a) + 1 PROVE u[k] = v[k]
  <2>1. CASE k \in 1 .. j - a
    BY ONLY <1>2, <1>3, <1>5, <2>1, k \in 1 .. (j - a) + 1
  <2>2. CASE k = (j - a) + 1
    <3>1. a + k - 1 = j
      BY ONLY <1>1, <2>2
    <3>. QED  BY ONLY <1>2, <1>3, <1>5, <2>2, <3>1, k \in 1 .. (j - a) + 1 DEF c
  <2>. QED  BY ONLY <1>1, <2>1, <2>2, k \in 1 .. (j - a) + 1
<1>7. u = v
  <2>1. Len(u) = Len(v) /\ \A k \in 1 .. Len(u) : u[k] = v[k]
    BY ONLY <1>2, <1>3, <1>5, <1>6
  <2>. QED  BY ONLY <1>3, <1>5, <2>1, SameSeq
<1>. QED  BY ONLY <1>4, <1>7 DEF v, c, y

LEMMA BodyRaw ==
    ASSUME NEW text \in Seq(Characters), NEW value, NEW f, Bodies(f, text, value),
           NEW a \in 1 .. Len(text) + 1, NEW b \in a - 1 .. Len(text),
           \A j \in a .. b : Piece(text, value, j) = <<text[j]>>
    PROVE  f[b] = f[a - 1] \o SubSeq(text, a, b)
<1>. DEFINE n == Len(text)
            sub(j) == SubSeq(text, a, j)
            T == {j \in 0 .. b : j >= a - 1 => f[j] = f[a - 1] \o sub(j)}
<1>1. n \in Nat /\ a - 1 \in 0 .. n /\ b \in 0 .. n /\ f \in [0 .. n -> Seq(Characters)]
  BY DEF Bodies
<1>2. ASSUME NEW j \in 0 .. b, j = a - 1 PROVE j \in T
  <2>1. sub(j) = <<>> /\ f[j] \in Seq(Characters)
    BY <1>1, <1>2
  <2>2. f[j] \o <<>> = f[j]
    BY <2>1, ConcatEmptySeq
  <2>. QED  BY <1>2, <2>1, <2>2
<1>3. 0 \in T
  BY <1>1, <1>2
<1>4. ASSUME NEW j \in 1 .. b, j - 1 \in T PROVE j \in T
  <2>1. CASE j < a - 1
    BY <1>1, <2>1
  <2>2. CASE j = a - 1
    BY <1>1, <1>2, <2>2
  <2>3. CASE j >= a
    <3>1. j - 1 >= a - 1 /\ j \in 1 .. n /\ j \in a .. b /\ j \in Nat
      BY <1>1, <2>3
    <3>2. f[j - 1] = f[a - 1] \o sub(j - 1)
      BY <1>4, <3>1
    <3>3. f[j] = f[j - 1] \o <<text[j]>>
      BY <3>1 DEF Bodies
    <3>. DEFINE x == f[a - 1]
                y == sub(j - 1)
                z == <<text[j]>>
    <3>4. x \in Seq(Characters)
      BY <1>1
    <3>5. /\ y \in Seq(Characters) /\ Len(y) = j - a
          /\ \A k \in 1 .. j - a : y[k] = text[a + k - 1]
      BY ONLY <1>1, <3>1, text \in Seq(Characters), a \in 1 .. Len(text) + 1
    <3>6. z \in Seq(Characters) /\ Len(z) = 1 /\ z[1] = text[j]
      BY <3>1
    <3>. HIDE DEF x, y, z
    <3>7. f[j] = x \o (y \o z)
      <4>1. f[j] = (x \o y) \o z
        BY <3>2, <3>3 DEF x, y, z
      <4>2. (x \o y) \o z = x \o (y \o z)
        BY ONLY <3>4, <3>5, <3>6, SMTT(30)
      <4>. QED  BY <4>1, <4>2
    <3>8. y \o z = sub(j)
      BY ONLY <3>1, text \in Seq(Characters), a \in 1 .. Len(text) + 1, SubSeqNext DEF y, z, n
    <3>9. f[j] = f[a - 1] \o sub(j) /\ j \in 0 .. b
      BY <3>7, <3>8 DEF x
    <3>. QED  BY ONLY <3>9
  <2>4. j < a - 1 \/ j = a - 1 \/ j >= a
    BY ONLY <1>1, a \in 1 .. Len(text) + 1, j \in 1 .. b
  <2>. QED  BY ONLY <2>1, <2>2, <2>3, <2>4
<1>5. \A j \in 0 .. b : j \in T
  <2>. HIDE DEF T
  <2>1. b \in Nat
    BY <1>1
  <2>. QED  BY <1>3, <1>4, <2>1, Induction, Zenon
<1>6. b \in 0 .. b /\ b >= a - 1
  BY ONLY <1>1, a \in 1 .. Len(text) + 1, b \in a - 1 .. Len(text)
<1>7. b \in T
  BY <1>5, <1>6
<1>. QED  BY <1>6, <1>7

LEMMA BodySilent ==
    ASSUME NEW text \in Seq(Characters), NEW value, NEW f, Bodies(f, text, value),
           NEW a \in 0 .. Len(text), NEW b \in a .. Len(text),
           \A j \in a + 1 .. b : Piece(text, value, j) = <<>>
    PROVE  f[b] = f[a]
<1>. DEFINE n == Len(text)
            T == {j \in 0 .. b : j >= a => f[j] = f[a]}
<1>1. n \in Nat /\ a \in 0 .. n /\ b \in 0 .. n /\ f \in [0 .. n -> Seq(Characters)]
  BY DEF Bodies
<1>2. 0 \in T
  BY <1>1
<1>3. ASSUME NEW j \in 1 .. b, j - 1 \in T PROVE j \in T
  <2>1. CASE j < a + 1
    BY <1>1, <2>1
  <2>2. CASE j >= a + 1
    <3>1. j - 1 >= a /\ j \in 1 .. n /\ j \in a + 1 .. b
      BY <1>1, <2>2
    <3>2. f[j - 1] = f[a] /\ f[j] = f[j - 1] \o <<>>
      BY <1>3, <3>1 DEF Bodies
    <3>3. f[j - 1] \o <<>> = f[j - 1]
      BY <1>1, <3>1, ConcatEmptySeq
    <3>. QED  BY <3>2, <3>3
  <2>. QED  BY <1>1, <2>1, <2>2
<1>4. \A j \in 0 .. b : j \in T
  <2>. HIDE DEF T
  <2>1. b \in Nat
    BY <1>1
  <2>. QED  BY <1>2, <1>3, <2>1, Induction, Zenon
<1>. QED  BY <1>1, <1>4

-----------------------------------------------------------------------------
(* Tokens, and what they are expanded to.                                   *)

Toks == [kind : Kinds \cup {"text"}, text : Seq(Characters)]

Expanded(tok, value) == IF tok.kind = "text" THEN tok.text ELSE value[tok.kind]

(* A token is a text, or what its kind is written as.                       *)
Written(tokens) == \A i \in 1 .. Len(tokens) :
    tokens[i].kind = "text" \/ tokens[i].text = Literal[tokens[i].kind]

HasPlaceholder(tokens) == \E i \in 1 .. Len(tokens) : tokens[i].kind = "placeholder"

LEMMA Appended ==
    ASSUME NEW S, NEW s \in Seq(S), NEW e \in S
    PROVE  /\ Append(s, e) \in Seq(S) /\ Len(Append(s, e)) = Len(s) + 1
           /\ Append(s, e) # <<>>
           /\ \A k \in 1 .. Len(s) : Append(s, e)[k] = s[k]
           /\ Append(s, e)[Len(s) + 1] = e
BY AppendProperties

LEMMA TokenIs ==
    ASSUME NEW t \in Seq(Characters), NEW k \in Kinds
    PROVE  /\ Text(t) \in Toks /\ Text(t).kind = "text" /\ Text(t).text = t
           /\ Special(k) \in Toks /\ Special(k).kind = k /\ Special(k).text = Literal[k]
           /\ k # "text"
<1>1. k # "text"
  BY DEF Kinds
<1>2. Literal[k] \in Seq(Characters)
  BY LiteralIs
<1>. QED  BY ONLY <1>1, <1>2, k \in Kinds, t \in Seq(Characters) DEF Toks, Text, Special

LEMMA ExpandedIs ==
    ASSUME NEW tok \in Toks, NEW value, Stands(value)
    PROVE  Expanded(tok, value) \in Seq(Characters)
<1>1. /\ tok.text \in Seq(Characters) /\ tok.kind \in Kinds \cup {"text"}
  BY DEF Toks
<1>. QED  BY <1>1 DEF Expanded, Stands

LEMMA ExpandNext ==
    ASSUME NEW tokens \in Seq(Toks), NEW tok \in Toks, NEW value, Stands(value)
    PROVE  /\ Expand(<<>>, value) = <<>>
           /\ Expand(tokens, value) \in Seq(Characters)
           /\ Expand(Append(tokens, tok), value) = Expand(tokens, value) \o Expanded(tok, value)
<1>. DEFINE n == Len(tokens)
            u == Append(tokens, tok)
            s == [i \in 1 .. n |-> Expanded(tokens[i], value)]
            t == [i \in 1 .. n + 1 |-> Expanded(u[i], value)]
<1>1. n \in Nat /\ DOMAIN tokens = 1 .. n /\ \A i \in 1 .. n : tokens[i] \in Toks
  OBVIOUS
<1>2. /\ u \in Seq(Toks) /\ Len(u) = n + 1 /\ u[n + 1] = tok
      /\ \A i \in 1 .. n : u[i] = tokens[i]
  BY Appended
<1>. HIDE DEF u, n
<1>3. DOMAIN u = 1 .. n + 1 /\ \A i \in 1 .. n + 1 : u[i] \in Toks
  BY ONLY <1>2
<1>4. s \in [1 .. n -> Seq(Characters)] /\ t \in [1 .. n + 1 -> Seq(Characters)]
  BY <1>1, <1>3, ExpandedIs
<1>5. \A i \in 1 .. n : t[i] = s[i]
  <2>1. \A i \in 1 .. n : i \in 1 .. n + 1
    BY <1>1
  <2>. QED  BY <1>2, <2>1
<1>6. t[n + 1] = Expanded(tok, value)
  <2>1. n + 1 \in 1 .. n + 1
    BY <1>1
  <2>. QED  BY <1>2, <2>1
<1>7. Expand(tokens, value) = FlattenSeq(s) /\ Expand(u, value) = FlattenSeq(t)
  BY <1>1, <1>3, Zenon DEF Expand, Expanded
<1>8. Expand(<<>>, value) = FlattenSeq(<<>>)
  <2>1. DOMAIN <<>> = {}
    OBVIOUS
  <2>2. [i \in {} |-> Expanded(<<>>[i], value)] = <<>>
    OBVIOUS
  <2>3. Expand(<<>>, value) = FlattenSeq([i \in DOMAIN <<>> |-> Expanded(<<>>[i], value)])
    BY Zenon DEF Expand, Expanded
  <2>. QED  BY <2>1, <2>2, <2>3
<1>9. /\ FlattenSeq(<<>>) = <<>> /\ FlattenSeq(s) \in Seq(Characters)
      /\ FlattenSeq(t) = FlattenSeq(s) \o t[n + 1]
  <2>. HIDE DEF s, t
  <2>. QED  BY ONLY <1>1, <1>4, <1>5, FlattenNext, Zenon
<1>. QED  BY <1>6, <1>7, <1>8, <1>9 DEF u

(* A token more is seen by the properties of a sequence of them.            *)
LEMMA TokensNext ==
    ASSUME NEW tokens \in Seq(Toks), NEW tok \in Toks
    PROVE  /\ Append(tokens, tok) \in Seq(Toks)
           /\ HasPlaceholder(Append(tokens, tok)) <=> HasPlaceholder(tokens) \/ tok.kind = "placeholder"
           /\ Written(tokens) /\ (tok.kind = "text" \/ tok.text = Literal[tok.kind])
                 => Written(Append(tokens, tok))
<1>. DEFINE n == Len(tokens)
            u == Append(tokens, tok)
<1>1. /\ u \in Seq(Toks) /\ Len(u) = n + 1 /\ u[n + 1] = tok /\ n \in Nat
      /\ \A i \in 1 .. n : u[i] = tokens[i]
  BY Appended
<1>. HIDE DEF u, n
<1>2. \A i \in 1 .. n + 1 : i = n + 1 \/ i \in 1 .. n
  BY <1>1
<1>3. n + 1 \in 1 .. n + 1 /\ \A i \in 1 .. n : i \in 1 .. n + 1
  BY <1>1
<1>4. HasPlaceholder(u) <=> HasPlaceholder(tokens) \/ tok.kind = "placeholder"
  BY <1>1, <1>2, <1>3 DEF HasPlaceholder, n
<1>5. Written(tokens) /\ (tok.kind = "text" \/ tok.text = Literal[tok.kind]) => Written(u)
  BY <1>1, <1>2 DEF Written, n
<1>. QED  BY <1>1, <1>4, <1>5 DEF u

(* Display writes the tokens as they stand.                                 *)
LEMMA DisplayIs ==
    ASSUME NEW tokens \in Seq(Toks), Written(tokens)
    PROVE  Display(tokens) = Expand(tokens, Literal)
<1>1. DOMAIN tokens = 1 .. Len(tokens)
  OBVIOUS
<1>2. ASSUME NEW i \in DOMAIN tokens
      PROVE  tokens[i].text = IF tokens[i].kind = "text" THEN tokens[i].text ELSE Literal[tokens[i].kind]
  BY <1>1 DEF Written
<1>3. [i \in DOMAIN tokens |-> tokens[i].text]
         = [i \in DOMAIN tokens |-> IF tokens[i].kind = "text" THEN tokens[i].text ELSE Literal[tokens[i].kind]]
  BY ONLY <1>2, Zenon
<1>. QED  BY <1>3, Zenon DEF Display, Expand

-----------------------------------------------------------------------------
(* The steps of the scan, one for each arm of the match in Tokens::new.     *)

States(text) ==
    [tokens : Seq(Toks), start : 1 .. Len(text) + 1, open : BOOLEAN, skip : BOOLEAN]

Skips(text, st, i, u) == st.skip /\ u = Scanned(st.tokens, st.start, st.open, FALSE)

Escapes(text, st, i, u) ==
    ~st.skip /\ text[i] = "BS" /\ u = Scanned(st.tokens, st.start, st.open, TRUE)

Begun(text, st, i, u) ==
    ~st.skip /\ text[i] = Opening /\ ~st.open /\ u = OpenBrace(text, st, i)

Found(text, st, i, u) ==
    /\ ~st.skip /\ text[i] = Closing /\ st.open
    /\ \E k \in Kinds : /\ SubSeq(text, st.start, i) = Literal[k]
                        /\ u = Scanned(Append(st.tokens, Special(k)), i + 1, FALSE, FALSE)

Missed(text, st, i, u) ==
    /\ ~st.skip /\ text[i] = Closing /\ st.open
    /\ \A k \in Kinds : SubSeq(text, st.start, i) # Literal[k]
    /\ u = Scanned(st.tokens, st.start, FALSE, FALSE)

Passes(text, st, i, u) ==
    /\ ~st.skip /\ text[i] # "BS"
    /\ (text[i] = Opening => st.open) /\ (text[i] = Closing => ~st.open)
    /\ u = st

LEMMA ScannedIs ==
    ASSUME NEW text \in Seq(Characters), NEW tokens \in Seq(Toks),
           NEW start \in 1 .. Len(text) + 1, NEW open \in BOOLEAN, NEW skip \in BOOLEAN
    PROVE  LET u == Scanned(tokens, start, open, skip)
           IN  /\ u \in States(text)
               /\ u.tokens = tokens /\ u.start = start /\ u.open = open /\ u.skip = skip
<1>. DEFINE A == Seq(Toks)
            B == 1 .. Len(text) + 1
<1>1. tokens \in A /\ start \in B
  OBVIOUS
<1>2. States(text) = [tokens : A, start : B, open : BOOLEAN, skip : BOOLEAN]
  BY DEF States
<1>. HIDE DEF A, B
<1>. QED  BY ONLY <1>1, <1>2, open \in BOOLEAN, skip \in BOOLEAN DEF Scanned

LEMMA StateIs ==
    ASSUME NEW text \in Seq(Characters), NEW st \in States(text)
    PROVE  /\ st.tokens \in Seq(Toks) /\ st.start \in 1 .. Len(text) + 1
           /\ st.open \in BOOLEAN /\ st.skip \in BOOLEAN
           /\ st = Scanned(st.tokens, st.start, st.open, st.skip)
<1>. DEFINE A == Seq(Toks)
            B == 1 .. Len(text) + 1
<1>1. st \in [tokens : A, start : B, open : BOOLEAN, skip : BOOLEAN]
  BY DEF States
<1>. HIDE DEF A, B
<1>2. /\ st.tokens \in A /\ st.start \in B /\ st.open \in BOOLEAN /\ st.skip \in BOOLEAN
      /\ st = [tokens |-> st.tokens, start |-> st.start, open |-> st.open, skip |-> st.skip]
  BY ONLY <1>1
<1>. QED  BY ONLY <1>2 DEF A, B, Scanned

LEMMA ScannedExcept ==
    ASSUME NEW text, NEW st \in States(text)
    PROVE  /\ [st EXCEPT !.skip = TRUE] = Scanned(st.tokens, st.start, st.open, TRUE)
           /\ [st EXCEPT !.skip = FALSE] = Scanned(st.tokens, st.start, st.open, FALSE)
           /\ [st EXCEPT !.open = FALSE] = Scanned(st.tokens, st.start, FALSE, st.skip)
<1>. DEFINE A == Seq(Toks)
            B == 1 .. Len(text) + 1
            C == BOOLEAN
            yes == TRUE
            no == FALSE
<1>1. st \in [tokens : A, start : B, open : C, skip : C]
  BY DEF States
<1>. HIDE DEF A, B, C, yes, no
<1>2. /\ [st EXCEPT !.skip = yes] = Scanned(st.tokens, st.start, st.open, yes)
      /\ [st EXCEPT !.skip = no] = Scanned(st.tokens, st.start, st.open, no)
      /\ [st EXCEPT !.open = no] = Scanned(st.tokens, st.start, no, st.skip)
  BY ONLY <1>1 DEF Scanned
<1>. QED  BY <1>2 DEF yes, no

LEMMA ScanIs ==
    ASSUME NEW text \in Seq(Characters), NEW st \in States(text), NEW i \in 1 .. Len(text)
    PROVE  LET u == Scan(text, st, i)
           IN  /\ u \in States(text)
               /\ \/ Skips(text, st, i, u) \/ Escapes(text, st, i, u) \/ Begun(text, st, i, u)
                  \/ Found(text, st, i, u) \/ Missed(text, st, i, u) \/ Passes(text, st, i, u)
<1>. DEFINE u == Scan(text, st, i)
            sub == SubSeq(text, st.start, i)
            ks == {k \in DOMAIN Literal : Literal[k] = sub}
<1>1. /\ st.tokens \in Seq(Toks) /\ st.start \in 1 .. Len(text) + 1
      /\ st.open \in BOOLEAN /\ st.skip \in BOOLEAN
      /\ st = Scanned(st.tokens, st.start, st.open, st.skip)
  BY StateIs
<1>2. i \in 1 .. Len(text) + 1 /\ i + 1 \in 1 .. Len(text) + 1
  OBVIOUS
<1>3. ASSUME st.skip PROVE Skips(text, st, i, u) /\ u \in States(text)
  <2>1. u = [st EXCEPT !.skip = FALSE]
    BY <1>3, Zenon DEF Scan
  <2>2. [st EXCEPT !.skip = FALSE] = Scanned(st.tokens, st.start, st.open, FALSE)
    BY <1>1, ScannedExcept, Zenon
  <2>. HIDE DEF u
  <2>3. u = Scanned(st.tokens, st.start, st.open, FALSE)
    BY <2>1, <2>2
  <2>4. u \in States(text)
    BY ONLY <1>1, <2>3, text \in Seq(Characters), ScannedIs
  <2>. QED  BY <1>3, <2>3, <2>4 DEF Skips
<1>4. ASSUME ~st.skip, text[i] = "BS" PROVE Escapes(text, st, i, u) /\ u \in States(text)
  <2>1. u = [st EXCEPT !.skip = TRUE]
    <3>1. text[i] # Opening /\ text[i] # Closing
      BY <1>4, Braces
    <3>. QED  BY <1>4, <3>1, Zenon DEF Scan
  <2>2. [st EXCEPT !.skip = TRUE] = Scanned(st.tokens, st.start, st.open, TRUE)
    BY <1>1, ScannedExcept, Zenon
  <2>. HIDE DEF u
  <2>3. u = Scanned(st.tokens, st.start, st.open, TRUE)
    BY <2>1, <2>2
  <2>4. u \in States(text)
    BY ONLY <1>1, <2>3, text \in Seq(Characters), ScannedIs
  <2>. QED  BY <1>4, <2>3, <2>4 DEF Escapes
<1>5. ASSUME ~st.skip, text[i] = Opening, ~st.open PROVE Begun(text, st, i, u) /\ u \in States(text)
  <2>1. text[i] # "BS" /\ text[i] # Closing
    BY <1>5, Braces
  <2>2. u = OpenBrace(text, st, i)
    BY <1>5, <2>1, Zenon DEF Scan
  <2>. DEFINE tokens == IF st.start # i THEN Append(st.tokens, Text(SubSeq(text, st.start, i - 1)))
                        ELSE st.tokens
  <2>3. tokens \in Seq(Toks)
    <3>1. SubSeq(text, st.start, i - 1) \in Seq(Characters)
      BY <1>1
    <3>2. Text(SubSeq(text, st.start, i - 1)) \in Toks
      BY <3>1, TokenIs DEF Kinds
    <3>. QED  BY <1>1, <3>2, Appended
  <2>4. OpenBrace(text, st, i) = Scanned(tokens, i, TRUE, FALSE)
    BY Zenon DEF OpenBrace
  <2>. HIDE DEF tokens, u
  <2>5. u \in States(text)
    <3>1. u = Scanned(tokens, i, TRUE, FALSE)
      BY <2>2, <2>4
    <3>2. Scanned(tokens, i, TRUE, FALSE) \in States(text)
      BY ONLY <1>2, <2>3, text \in Seq(Characters), ScannedIs
    <3>. QED  BY <3>1, <3>2
  <2>. QED  BY <1>5, <2>2, <2>5 DEF Begun
<1>6. ASSUME ~st.skip, text[i] = Closing, st.open
      PROVE  (Found(text, st, i, u) \/ Missed(text, st, i, u)) /\ u \in States(text)
  <2>1. text[i] # "BS" /\ text[i] # Opening
    BY <1>6, Braces
  <2>2. u = CloseBrace(text, st, i)
    BY <1>6, <2>1, Zenon DEF Scan
  <2>3. CloseBrace(text, st, i) =
            IF ks = {} THEN [st EXCEPT !.open = FALSE]
            ELSE Scanned(Append(st.tokens, Special(CHOOSE k \in ks : TRUE)), i + 1, FALSE, FALSE)
    BY Zenon DEF CloseBrace
  <2>. HIDE DEF u
  <2>4. CASE ks = {}
    <3>1. \A k \in Kinds : sub # Literal[k]
      BY <2>4, LiteralIs
    <3>2. st.skip = FALSE
      BY <1>1, <1>6
    <3>3. [st EXCEPT !.open = FALSE] = Scanned(st.tokens, st.start, FALSE, FALSE)
      <4>1. [st EXCEPT !.open = FALSE] = Scanned(st.tokens, st.start, FALSE, st.skip)
        BY <1>1, ScannedExcept, Zenon
      <4>. QED  BY ONLY <3>2, <4>1, Zenon
    <3>4. u = Scanned(st.tokens, st.start, FALSE, FALSE)
      <4>. HIDE DEF ks
      <4>. QED  BY <2>2, <2>3, <2>4, <3>3
    <3>. HIDE DEF ks
    <3>. QED  BY <1>1, <1>6, <3>1, <3>4, ScannedIs DEF Missed
  <2>5. CASE ks # {}
    <3>. DEFINE k == CHOOSE k \in ks : TRUE
    <3>1. k \in ks
      BY <2>5
    <3>2. k \in Kinds /\ sub = Literal[k]
      BY <3>1, LiteralIs
    <3>3. u = Scanned(Append(st.tokens, Special(k)), i + 1, FALSE, FALSE)
      <4>. HIDE DEF ks
      <4>. QED  BY <2>2, <2>3, <2>5
    <3>. HIDE DEF k, ks
    <3>4. Special(k) \in Toks
      <4>1. <<>> \in Seq(Characters)
        OBVIOUS
      <4>. QED  BY <3>2, <4>1, TokenIs
    <3>5. Append(st.tokens, Special(k)) \in Seq(Toks)
      BY <1>1, <3>4, Appended
    <3>6. u \in States(text)
      BY ONLY <1>2, <3>3, <3>5, text \in Seq(Characters), ScannedIs
    <3>7. Found(text, st, i, u)
      BY <1>6, <3>2, <3>3 DEF Found
    <3>. QED  BY <3>6, <3>7
  <2>. QED  BY <2>4, <2>5
<1>7. ASSUME ~st.skip, text[i] # "BS", text[i] = Opening => st.open, text[i] = Closing => ~st.open
      PROVE  Passes(text, st, i, u) /\ u \in States(text)
  <2>1. u = st
    BY <1>7, Zenon DEF Scan
  <2>. HIDE DEF u
  <2>. QED  BY <1>7, <2>1 DEF Passes
<1>8. /\ u \in States(text)
      /\ \/ Skips(text, st, i, u) \/ Escapes(text, st, i, u) \/ Begun(text, st, i, u)
         \/ Found(text, st, i, u) \/ Missed(text, st, i, u) \/ Passes(text, st, i, u)
  <2>. HIDE DEF u
  <2>. QED  BY <1>3, <1>4, <1>5, <1>6, <1>7, Zenon
<1>. QED  BY ONLY <1>8, Zenon DEF u

LEMMA ScanAllIs ==
    ASSUME NEW text \in Seq(Characters)
    PROVE  \E at \in [0 .. Len(text) -> States(text)] :
              /\ at[0] = Scanned(<<>>, 1, FALSE, FALSE)
              /\ \A i \in 1 .. Len(text) : at[i] = Scan(text, at[i - 1], i)
              /\ ScanAll(text) = at[Len(text)]
<1>. DEFINE n == Len(text)
            V == States(text)
            v == Scanned(<<>>, 1, FALSE, FALSE)
            e(f, i) == IF i = 0 THEN v ELSE Scan(text, f[i - 1], i)
            F == CHOOSE f : f = [i \in 0 .. n |-> e(f, i)]
            h == [i \in 1 .. n |-> [st \in V |-> Scan(text, st, i)]]
<1>1. n \in Nat /\ v \in V
  <2>1. <<>> \in Seq(Toks) /\ 1 \in 1 .. Len(text) + 1 /\ n \in Nat
    OBVIOUS
  <2>. QED  BY <2>1, ScannedIs
<1>2. h \in [1 .. n -> [V -> V]]
  BY ScanIs
<1>. HIDE DEF V, v
<1>3. PICK g \in [0 .. n -> V] : g[0] = v /\ \A i \in 1 .. n : g[i] = h[i][g[i - 1]]
  <2>. HIDE DEF h, n
  <2>. QED  BY ONLY <1>1, <1>2, Recursion
<1>4. ASSUME NEW i \in 0 .. n PROVE g[i] = e(g, i)
  <2>1. CASE i = 0
    BY <1>3, <2>1
  <2>2. CASE i # 0
    <3>1. i \in 1 .. n /\ i - 1 \in 0 .. n
      BY <1>1, <2>2
    <3>2. g[i - 1] \in V
      BY <1>3, <3>1
    <3>3. h[i][g[i - 1]] = Scan(text, g[i - 1], i)
      BY <3>1, <3>2
    <3>. QED  BY <1>3, <2>2, <3>1, <3>3
  <2>. QED  BY <2>1, <2>2
<1>5. g = [i \in 0 .. n |-> e(g, i)]
  <2>. HIDE DEF e, n
  <2>. QED  BY <1>3, <1>4
<1>6. F = [i \in 0 .. n |-> e(F, i)]
  <2>. HIDE DEF e, n
  <2>. QED  BY <1>5, Zenon
<1>7. \A i \in 0 .. n : F[i] = e(F, i)
  <2>. HIDE DEF F, e, n
  <2>. QED  BY <1>6, Zenon
<1>8. ASSUME NEW i \in 0 .. n PROVE F[i] = g[i]
  <2>. DEFINE T == {j \in 0 .. n : F[j] = g[j]}
  <2>1. 0 \in T
    <3>1. F[0] = v
      <4>1. 0 \in 0 .. n
        BY <1>1
      <4>. HIDE DEF F, n
      <4>. QED  BY <1>7, <4>1
    <3>. HIDE DEF F
    <3>. QED  BY <1>1, <1>3, <3>1
  <2>2. ASSUME NEW j \in 1 .. n, j - 1 \in T PROVE j \in T
    <3>1. j \in 0 .. n /\ j # 0 /\ F[j - 1] = g[j - 1]
      BY <1>1, <2>2
    <3>. HIDE DEF F
    <3>2. F[j] = Scan(text, F[j - 1], j) /\ g[j] = Scan(text, g[j - 1], j)
      BY <1>4, <1>7, <3>1
    <3>. QED  BY <3>1, <3>2
  <2>3. \A j \in 0 .. n : j \in T
    <3>. HIDE DEF T, n
    <3>. QED  BY <1>1, <2>1, <2>2, Induction, Zenon
  <2>. QED  BY <2>3
<1>9. ScanAll(text) = F[n]
  BY Zenon DEF ScanAll, v
<1>10. ScanAll(text) = g[n]
  <2>1. n \in 0 .. n
    BY <1>1
  <2>. HIDE DEF F
  <2>. QED  BY <1>8, <1>9, <2>1
<1>11. \A i \in 1 .. n : g[i] = Scan(text, g[i - 1], i)
  <2>1. ASSUME NEW i \in 1 .. n PROVE g[i] = Scan(text, g[i - 1], i)
    <3>1. i \in 0 .. n /\ i # 0
      BY <1>1
    <3>. QED  BY <1>4, <3>1
  <2>. QED  BY <2>1
<1>. QED  BY <1>3, <1>10, <1>11 DEF v, V

Stepped(text, st, i, u) ==
    \/ Skips(text, st, i, u) \/ Escapes(text, st, i, u) \/ Begun(text, st, i, u)
    \/ Found(text, st, i, u) \/ Missed(text, st, i, u) \/ Passes(text, st, i, u)

-----------------------------------------------------------------------------
(* What the flags say of the text up to i, and where the text begins that   *)
(* is in no token yet.                                                      *)

Flags(text, st, i) ==
    /\ st.start \in 1 .. i + 1
    /\ st.skip <=> ~Plain(text, i + 1)
    /\ st.open <=> Pending(text, i)
    /\ st.open => /\ st.start \in 1 .. i /\ Opens(text, st.start)
                  /\ \A m \in st.start + 1 .. i : ~Closes(text, m)

LEMMA FlagsNext ==
    ASSUME NEW text \in Seq(Characters), NEW i \in 1 .. Len(text),
           NEW st \in States(text), NEW u, Stepped(text, st, i, u), Flags(text, st, i - 1)
    PROVE  Flags(text, u, i)
<1>. DEFINE a == st.start
            more(m) == a + 1 .. m
<1>1. i \in Nat \ {0} /\ (i - 1) + 1 = i
  OBVIOUS
<1>2. /\ a \in 1 .. i /\ (st.skip <=> ~Plain(text, i)) /\ (st.open <=> Pending(text, i - 1))
      /\ st.open => /\ a \in 1 .. i - 1 /\ Opens(text, a)
                    /\ \A m \in a + 1 .. i - 1 : ~Closes(text, m)
  BY <1>1 DEF Flags
<1>3. /\ Plain(text, i + 1) <=> text[i] # "BS" \/ ~Plain(text, i)
      /\ Pending(text, i) <=> \/ text[i] = Opening /\ Plain(text, i)
                              \/ Pending(text, i - 1) /\ ~Closes(text, i)
      /\ Opens(text, i) <=> text[i] = Opening /\ Plain(text, i) /\ ~Pending(text, i - 1)
      /\ Closes(text, i) <=> text[i] = Closing /\ Plain(text, i)
  BY <1>1, PlainNext, PendingNext, OpensIs DEF Closes
<1>4. st.open /\ ~Closes(text, i) => a \in 1 .. i /\ \A m \in a + 1 .. i : ~Closes(text, m)
  <2>. SUFFICES ASSUME st.open, ~Closes(text, i)
                PROVE  a \in 1 .. i /\ \A m \in a + 1 .. i : ~Closes(text, m)
    OBVIOUS
  <2>1. \A m \in a + 1 .. i : m = i \/ m \in a + 1 .. i - 1
    BY <1>1, <1>2
  <2>. QED  BY <1>2, <2>1
<1>5. a \in 1 .. i + 1
  BY <1>2
(* The position stays; what is open stays open, unless i closes it.         *)
<1>6. ASSUME u.start = a, u.skip <=> ~Plain(text, i + 1), u.open <=> Pending(text, i),
             u.open => st.open /\ ~Closes(text, i)
      PROVE  Flags(text, u, i)
  BY <1>2, <1>4, <1>5, <1>6 DEF Flags
<1>7. CASE Skips(text, st, i, u)
  <2>1. st.skip /\ u.start = a /\ u.open = st.open /\ u.skip = FALSE
    BY <1>7 DEF Skips, Scanned
  <2>. HIDE DEF a
  <2>. QED  BY <1>2, <1>3, <1>6, <2>1
<1>8. CASE Escapes(text, st, i, u)
  <2>1. ~st.skip /\ text[i] = "BS" /\ u.start = a /\ u.open = st.open /\ u.skip = TRUE
    BY <1>8 DEF Escapes, Scanned
  <2>2. text[i] # Opening /\ text[i] # Closing
    BY <2>1, Braces
  <2>. HIDE DEF a
  <2>. QED  BY <1>2, <1>3, <1>6, <2>1, <2>2
<1>9. CASE Begun(text, st, i, u)
  <2>1. /\ ~st.skip /\ text[i] = Opening /\ ~st.open
        /\ u.start = i /\ u.open = TRUE /\ u.skip = FALSE
    BY <1>9 DEF Begun, OpenBrace, Scanned
  <2>2. text[i] # "BS"
    BY <2>1, Braces
  <2>3. i \in 1 .. i + 1 /\ i \in 1 .. i /\ i + 1 .. i = {}
    BY <1>1
  <2>. QED  BY <1>2, <1>3, <2>1, <2>2, <2>3 DEF Flags
<1>10. CASE Found(text, st, i, u)
  <2>1. /\ ~st.skip /\ text[i] = Closing
        /\ u.start = i + 1 /\ u.open = FALSE /\ u.skip = FALSE
    BY <1>10 DEF Found, Scanned
  <2>2. text[i] # "BS" /\ text[i] # Opening
    BY <2>1, Braces
  <2>3. i + 1 \in 1 .. i + 1
    BY <1>1
  <2>. QED  BY <1>2, <1>3, <2>1, <2>2, <2>3 DEF Flags
<1>11. CASE Missed(text, st, i, u)
  <2>1. /\ ~st.skip /\ text[i] = Closing
        /\ u.start = a /\ u.open = FALSE /\ u.skip = FALSE
    BY <1>11 DEF Missed, Scanned
  <2>2. text[i] # "BS" /\ text[i] # Opening
    BY <2>1, Braces
  <2>. HIDE DEF a
  <2>. QED  BY <1>2, <1>3, <1>6, <2>1, <2>2
<1>12. CASE Passes(text, st, i, u)
  <2>1. /\ ~st.skip /\ text[i] # "BS" /\ u = st
        /\ (text[i] = Opening => st.open) /\ (text[i] = Closing => ~st.open)
    BY <1>12 DEF Passes
  <2>2. u.start = a /\ u.open = st.open /\ u.skip = st.skip
    BY <2>1
  <2>3. Opening # Closing
    BY Braces
  <2>. HIDE DEF a
  <2>. QED  BY <1>2, <1>3, <1>6, <2>1, <2>2, <2>3
<1>. QED  BY <1>7, <1>8, <1>9, <1>10, <1>11, <1>12 DEF Stepped

(* Every token of the text is behind start, or is not complete at i.        *)
Apart(text, start, i) ==
    \A s \in Spans(text) : Ends(s) < start \/ (s[1] >= start /\ Ends(s) > i)

Added(st, t, i, u) == u = Scanned(Append(st.tokens, Special(t[2])), i + 1, FALSE, FALSE)

LEMMA FoundSpan ==
    ASSUME NEW text \in Seq(Characters), NEW i \in 1 .. Len(text),
           NEW st \in States(text), NEW u, Found(text, st, i, u), Flags(text, st, i - 1)
    PROVE  \E t \in Spans(text) : t[1] = st.start /\ Ends(t) = i /\ Added(st, t, i, u)
<1>. DEFINE a == st.start
            x == SubSeq(text, a, i)
<1>1. PICK k \in Kinds : x = Literal[k] /\ u = Scanned(Append(st.tokens, Special(k)), i + 1, FALSE, FALSE)
  BY DEF Found
<1>2. a \in 1 .. i - 1 /\ Opens(text, a) /\ i \in Nat /\ Len(text) \in Nat
  BY DEF Found, Flags
<1>. HIDE DEF a
<1>3. Len(x) = i - a + 1
  BY <1>2
<1>4. a + Len(Literal[k]) - 1 = i
  <2>. DEFINE l == Len(Literal[k])
  <2>1. l = i - a + 1
    BY <1>1, <1>3
  <2>. HIDE DEF l
  <2>. QED  BY ONLY <1>2, <2>1 DEF l
<1>. DEFINE t == <<a, k>>
<1>5. t[1] = a /\ t[2] = k
  OBVIOUS
<1>6. t \in (1 .. Len(text)) \X DOMAIN Literal
  <2>1. a \in 1 .. Len(text) /\ k \in DOMAIN Literal
    BY <1>2, LiteralIs
  <2>. QED  BY ONLY <2>1
<1>. HIDE DEF t
<1>7. t \in Spans(text)
  <2>1. i <= Len(text)
    OBVIOUS
  <2>. QED  BY <1>1, <1>2, <1>4, <1>5, <1>6, <2>1 DEF Spans
<1>. QED  BY <1>1, <1>4, <1>5, <1>7 DEF Added, Ends, a

(* What is found, and what is not, when the scan is at an end of a token.   *)
LEMMA FoundAlone ==
    ASSUME NEW text \in Seq(Characters), NEW t \in Spans(text), NEW s \in Spans(text),
           Apart(text, t[1], Ends(t) - 1)
    PROVE  Ends(s) < t[1] \/ s = t \/ s[1] > Ends(t)
<1>. DEFINE a == t[1]
            i == Ends(t)
            p == s[1]
            e == Ends(s)
<1>1. /\ a \in 1 .. Len(text) /\ i \in a + 1 .. Len(text) /\ p \in 1 .. Len(text)
      /\ e \in p + 1 .. Len(text) /\ Len(text) \in Nat
  BY SpanIs
<1>2. e < a \/ (p >= a /\ e > i - 1)
  BY DEF Apart
<1>3. p = a => s = t
  BY OneSpan
<1>4. text[p] = Opening /\ \A j \in a + 1 .. i : text[j] # Opening
  BY SpanIs
<1>. HIDE DEF a, i, p, e
<1>5. p > i \/ p = a \/ p \in a + 1 .. i \/ ~(p >= a)
  BY ONLY <1>1
<1>6. e < a \/ s = t \/ p > i
  BY ONLY <1>2, <1>3, <1>4, <1>5
<1>. QED  BY <1>6 DEF a, i, p, e

LEMMA BegunApart ==
    ASSUME NEW text \in Seq(Characters), NEW i \in 1 .. Len(text), text[i] = Opening,
           NEW a \in 1 .. i, Apart(text, a, i - 1), NEW s \in Spans(text)
    PROVE  Ends(s) < a \/ s[1] >= i
<1>. DEFINE p == s[1]
            e == Ends(s)
<1>1. /\ p \in 1 .. Len(text) /\ e \in p + 1 .. Len(text) /\ Len(text) \in Nat
      /\ \A j \in p + 1 .. e : text[j] # Opening
  BY SpanIs
<1>2. e < a \/ (p >= a /\ e > i - 1)
  BY DEF Apart
<1>. HIDE DEF p, e
<1>3. ~(i \in p + 1 .. e)
  BY <1>1
<1>4. e < a \/ p >= i
  BY ONLY <1>1, <1>2, <1>3, i \in 1 .. Len(text), a \in 1 .. i
<1>. QED  BY <1>4 DEF p, e

LEMMA ApartNext ==
    ASSUME NEW text \in Seq(Characters), NEW i \in 1 .. Len(text),
           NEW st \in States(text), NEW u, Stepped(text, st, i, u), Flags(text, st, i - 1),
           Apart(text, st.start, i - 1)
    PROVE  Apart(text, u.start, i)
<1>. DEFINE a == st.start
<1>1. /\ i \in Nat \ {0} /\ (i - 1) + 1 = i /\ a \in 1 .. i
      /\ (st.skip <=> ~Plain(text, i)) /\ (st.open <=> Pending(text, i - 1))
      /\ st.open => /\ a \in 1 .. i - 1 /\ Opens(text, a)
                    /\ \A m \in a + 1 .. i - 1 : ~Closes(text, m)
  BY DEF Flags
<1>2. CASE Begun(text, st, i, u)
  <2>1. text[i] = Opening /\ u.start = i
    BY <1>2 DEF Begun, OpenBrace, Scanned
  <2>2. ASSUME NEW s \in Spans(text) PROVE Ends(s) < i \/ (s[1] >= i /\ Ends(s) > i)
    <3>1. Ends(s) < a \/ s[1] >= i
      BY <1>1, <2>1, BegunApart
    <3>2. s[1] \in Nat /\ Ends(s) \in Nat /\ Ends(s) >= s[1] + 1
      BY SpanIs
    <3>. QED  BY <1>1, <3>1, <3>2
  <2>. QED  BY <2>1, <2>2 DEF Apart
<1>3. CASE Found(text, st, i, u)
  <2>1. PICK t \in Spans(text) : t[1] = a /\ Ends(t) = i
    BY <1>3, FoundSpan
  <2>2. u.start = i + 1
    BY <1>3 DEF Found, Scanned
  <2>3. ASSUME NEW s \in Spans(text) PROVE Ends(s) < i + 1 \/ (s[1] >= i + 1 /\ Ends(s) > i)
    <3>1. Ends(s) < t[1] \/ s = t \/ s[1] > Ends(t)
      BY <2>1, FoundAlone
    <3>2. s[1] \in Nat /\ Ends(s) \in Nat /\ Ends(s) >= s[1] + 1
      BY SpanIs
    <3>. QED  BY <1>1, <2>1, <3>1, <3>2
  <2>. QED  BY <2>2, <2>3 DEF Apart
<1>4. ASSUME u.start = a, \A s \in Spans(text) : s[1] >= a => Ends(s) # i
      PROVE  Apart(text, u.start, i)
  <2>1. ASSUME NEW s \in Spans(text) PROVE Ends(s) < a \/ (s[1] >= a /\ Ends(s) > i)
    <3>1. Ends(s) < a \/ (s[1] >= a /\ Ends(s) > i - 1)
      BY DEF Apart
    <3>2. s[1] \in Nat /\ Ends(s) \in Nat
      BY SpanIs
    <3>. QED  BY <1>1, <1>4, <3>1, <3>2
  <2>. QED  BY <1>4, <2>1 DEF Apart
(* A token that is complete at i is closed there, and was open before.      *)
<1>5. ASSUME NEW s \in Spans(text), Ends(s) = i
      PROVE  Closes(text, i) /\ Pending(text, i - 1)
  BY <1>5, SpanIs, SpanIsPending
<1>6. CASE Skips(text, st, i, u)
  <2>1. u.start = a /\ st.skip
    BY <1>6 DEF Skips, Scanned
  <2>. QED  BY <1>1, <1>4, <1>5, <2>1 DEF Closes
<1>7. CASE Escapes(text, st, i, u)
  <2>1. u.start = a /\ text[i] = "BS"
    BY <1>7 DEF Escapes, Scanned
  <2>. QED  BY <1>4, <1>5, <2>1, Braces DEF Closes
<1>8. CASE Passes(text, st, i, u)
  <2>1. u.start = a /\ (text[i] = Closing => ~st.open)
    BY <1>8 DEF Passes
  <2>. QED  BY <1>1, <1>4, <1>5, <2>1 DEF Closes
<1>9. CASE Missed(text, st, i, u)
  <2>1. u.start = a /\ st.open /\ \A k \in Kinds : SubSeq(text, a, i) # Literal[k]
    BY <1>9 DEF Missed, Scanned
  <2>2. ASSUME NEW s \in Spans(text), s[1] >= a, Ends(s) = i PROVE FALSE
    <3>. DEFINE p == s[1]
    <3>1. s[2] \in Kinds /\ Opens(text, p) /\ SubSeq(text, p, i) = Literal[s[2]]
      <4>1. s[2] \in Kinds /\ Opens(text, p) /\ SubSeq(text, p, Ends(s)) = Literal[s[2]]
        BY SpanIs
      <4>. QED  BY <2>2, <4>1, Zenon
    <3>6. p \in Nat \ {0} /\ p <= i
      <4>1. p \in 1 .. Len(text) /\ Ends(s) \in p + 1 .. Len(text)
        BY SpanIs
      <4>. HIDE DEF p
      <4>. QED  BY <2>2, <4>1
    <3>. HIDE DEF p
    <3>2. p # a
      BY <2>1, <3>1
    <3>3. a \in 1 .. p - 1 /\ \A m \in a + 1 .. p - 1 : m \in a + 1 .. i - 1
      BY <1>1, <2>1, <2>2, <3>6, <3>2 DEF p
    <3>4. text[a] = Opening /\ Plain(text, a)
      BY <1>1, <2>1 DEF Opens
    <3>5. Pending(text, p - 1)
      BY <1>1, <2>1, <3>3, <3>4 DEF Pending
    <3>. QED  BY <3>1, <3>6, <3>5, OpensIs
  <2>. QED  BY <1>4, <2>1, <2>2
<1>. QED  BY <1>2, <1>3, <1>6, <1>7, <1>8, <1>9 DEF Stepped

-----------------------------------------------------------------------------
(* The tokens stand for the text before start, piece by piece.              *)

Marked(text, start) == \E s \in Spans(text) : s[2] = "placeholder" /\ s[1] < start

Covered(text, value, f, st) ==
    /\ Expand(st.tokens, value) = f[st.start - 1]
    /\ HasPlaceholder(st.tokens) <=> Marked(text, st.start)
    /\ st.tokens = <<>> <=> st.start = 1
    /\ Written(st.tokens)

(* A text in no token, from a to b, stands for itself.                      *)
LEMMA RawIs ==
    ASSUME NEW text \in Seq(Characters), NEW value, Stands(value), NEW f, Bodies(f, text, value),
           NEW a \in 1 .. Len(text), NEW b \in a .. Len(text),
           \A s \in Spans(text) : Ends(s) < a \/ s[1] > b
    PROVE  f[b] = f[a - 1] \o SubSeq(text, a, b)
<1>1. ASSUME NEW j \in a .. b PROVE Piece(text, value, j) = <<text[j]>>
  <2>1. j \in 1 .. Len(text) /\ j \in Nat
    OBVIOUS
  <2>2. ASSUME NEW s \in Spans(text) PROVE ~(j \in s[1] .. Ends(s))
    <3>. DEFINE p == s[1]
                e == Ends(s)
    <3>1. p \in 1 .. Len(text) /\ e \in p + 1 .. Len(text)
      BY SpanIs
    <3>2. e < a \/ p > b
      OBVIOUS
    <3>. HIDE DEF p, e
    <3>3. ~(j \in p .. e)
      BY <3>1, <3>2
    <3>. QED  BY <3>3 DEF p, e
  <2>. QED  BY <2>1, <2>2, PieceIs
<1>2. a \in 1 .. Len(text) + 1 /\ b \in a - 1 .. Len(text)
  OBVIOUS
<1>. QED  BY <1>1, <1>2, BodyRaw, ZenonT(30)

LEMMA CoveredByText ==
    ASSUME NEW text \in Seq(Characters), NEW value, Stands(value), NEW f, Bodies(f, text, value),
           NEW st \in States(text), Covered(text, value, f, st),
           NEW b \in st.start .. Len(text),
           \A s \in Spans(text) : Ends(s) < st.start \/ s[1] > b
    PROVE  LET w == Append(st.tokens, Text(SubSeq(text, st.start, b)))
           IN  /\ w \in Seq(Toks) /\ Written(w) /\ w # <<>>
               /\ Expand(w, value) = f[b]
               /\ HasPlaceholder(w) <=> Marked(text, b + 1)
<1>. DEFINE a == st.start
            x == SubSeq(text, a, b)
            tok == Text(x)
            w == Append(st.tokens, tok)
<1>1. st.tokens \in Seq(Toks) /\ a \in 1 .. Len(text) + 1
  BY StateIs
<1>2. a \in 1 .. Len(text) /\ b \in Nat /\ a <= b /\ Len(text) \in Nat
  BY <1>1
<1>3. x \in Seq(Characters)
  BY <1>2
<1>. HIDE DEF x
<1>4. tok \in Toks /\ tok.kind = "text" /\ tok.text = x /\ tok.kind # "placeholder"
  <2>1. tok \in Toks /\ tok.kind = "text" /\ tok.text = x
    BY <1>3, LiteralIs, TokenIs DEF Kinds
  <2>. QED  BY <2>1
<1>. HIDE DEF tok
<1>5. w \in Seq(Toks) /\ Written(w)
  BY <1>1, <1>4, TokensNext DEF Covered
<1>6. w # <<>>
  BY <1>1, <1>4, Appended
<1>7. f[b] = f[a - 1] \o x
  BY <1>2, RawIs DEF x
<1>8. Expanded(tok, value) = x
  BY <1>4 DEF Expanded
<1>9. Expand(w, value) = Expand(st.tokens, value) \o Expanded(tok, value)
  BY <1>1, <1>4, ExpandNext
<1>10. Expand(w, value) = f[b]
  BY <1>7, <1>8, <1>9 DEF Covered
<1>11. HasPlaceholder(w) <=> HasPlaceholder(st.tokens)
  BY <1>1, <1>4, TokensNext
<1>12. ASSUME NEW s \in Spans(text) PROVE s[1] < a <=> s[1] < b + 1
  <2>. DEFINE p == s[1]
              e == Ends(s)
  <2>1. p \in Nat /\ e \in Nat /\ p < e
    <3>1. p \in 1 .. Len(text) /\ e \in p + 1 .. Len(text)
      BY SpanIs
    <3>. HIDE DEF p, e
    <3>. QED  BY <3>1
  <2>2. e < a \/ p > b
    OBVIOUS
  <2>. HIDE DEF p, e, a
  <2>3. p < a <=> p < b + 1
    BY ONLY <1>2, <2>1, <2>2
  <2>. QED  BY <2>3 DEF p
<1>13. Marked(text, a) <=> Marked(text, b + 1)
  BY <1>12 DEF Marked
<1>14. HasPlaceholder(w) <=> Marked(text, b + 1)
  BY <1>11, <1>13 DEF Covered
<1>. QED  BY <1>5, <1>6, <1>10, <1>14 DEF w, tok, x

LEMMA CoveredByToken ==
    ASSUME NEW text \in Seq(Characters), NEW value, Stands(value), NEW f, Bodies(f, text, value),
           NEW st \in States(text), Covered(text, value, f, st),
           NEW t \in Spans(text), t[1] = st.start, Apart(text, st.start, Ends(t) - 1)
    PROVE  LET w == Append(st.tokens, Special(t[2]))
           IN  /\ w \in Seq(Toks) /\ Written(w) /\ w # <<>>
               /\ Expand(w, value) = f[Ends(t)]
               /\ HasPlaceholder(w) <=> Marked(text, Ends(t) + 1)
<1>. DEFINE a == st.start
            b == Ends(t)
            k == t[2]
            tok == Special(k)
            w == Append(st.tokens, tok)
<1>1. st.tokens \in Seq(Toks)
  BY StateIs
<1>2. a \in 1 .. Len(text) /\ b \in a + 1 .. Len(text) /\ Len(text) \in Nat /\ k \in Kinds
  BY SpanIs
<1>3. tok \in Toks /\ tok.kind = k /\ tok.kind # "text" /\ tok.text = Literal[tok.kind]
  <2>1. <<>> \in Seq(Characters)
    OBVIOUS
  <2>. QED  BY <1>2, <2>1, TokenIs
<1>. HIDE DEF tok
<1>4. w \in Seq(Toks) /\ Written(w)
  BY <1>1, <1>3, TokensNext DEF Covered
<1>5. w # <<>>
  BY <1>1, <1>3, Appended
<1>6. Piece(text, value, a) = value[k] /\ f[a] = f[a - 1] \o Piece(text, value, a)
  BY <1>2, PieceIs DEF Bodies
<1>7. ASSUME NEW j \in a + 1 .. b PROVE Piece(text, value, j) = <<>>
  <2>1. j \in 1 .. Len(text) /\ j \in t[1] + 1 .. Ends(t)
    BY <1>2
  <2>. QED  BY <2>1, PieceIs
<1>8. f[b] = f[a]
  <2>1. a \in 0 .. Len(text) /\ b \in a .. Len(text)
    BY <1>2
  <2>. HIDE DEF a, b
  <2>. QED  BY <1>7, <2>1, BodySilent
<1>9. Expanded(tok, value) = value[k]
  BY <1>3 DEF Expanded
<1>10. Expand(w, value) = Expand(st.tokens, value) \o Expanded(tok, value)
  BY <1>1, <1>3, ExpandNext
<1>11. Expand(w, value) = f[b]
  BY <1>6, <1>8, <1>9, <1>10 DEF Covered
<1>12. HasPlaceholder(w) <=> HasPlaceholder(st.tokens) \/ k = "placeholder"
  BY <1>1, <1>3, TokensNext
<1>13. ASSUME NEW s \in Spans(text) PROVE s[1] < b + 1 <=> s[1] < a \/ s = t
  <2>. DEFINE p == s[1]
              e == Ends(s)
  <2>1. p \in Nat /\ e \in Nat /\ p < e
    <3>1. p \in 1 .. Len(text) /\ e \in p + 1 .. Len(text)
      BY SpanIs
    <3>. HIDE DEF p, e
    <3>. QED  BY <3>1
  <2>2. e < a \/ s = t \/ p > b
    BY FoundAlone
  <2>3. s = t => p = a
    OBVIOUS
  <2>. HIDE DEF p, e, a, b
  <2>4. p < b + 1 <=> p < a \/ s = t
    BY ONLY <1>2, <2>1, <2>2, <2>3
  <2>. QED  BY <2>4 DEF p
<1>14. Marked(text, b + 1) <=> Marked(text, a) \/ k = "placeholder"
  <2>. HIDE DEF a, b
  <2>. QED  BY <1>13, Zenon DEF Marked, k
<1>15. HasPlaceholder(w) <=> Marked(text, b + 1)
  BY <1>12, <1>14 DEF Covered
<1>. QED  BY <1>4, <1>5, <1>11, <1>15 DEF w, tok

LEMMA CoveredNext ==
    ASSUME NEW text \in Seq(Characters), NEW value, Stands(value), NEW f, Bodies(f, text, value),
           NEW i \in 1 .. Len(text),
           NEW st \in States(text), NEW u, Stepped(text, st, i, u), Flags(text, st, i - 1),
           Apart(text, st.start, i - 1), Covered(text, value, f, st)
    PROVE  Covered(text, value, f, u)
<1>. DEFINE a == st.start
<1>1. a \in 1 .. i /\ i \in Nat \ {0} /\ Len(text) \in Nat /\ i <= Len(text)
  BY DEF Flags
<1>2. ASSUME u.tokens = st.tokens, u.start = a PROVE Covered(text, value, f, u)
  BY <1>2 DEF Covered
<1>3. CASE Begun(text, st, i, u) /\ a # i
  <2>. DEFINE b == i - 1
              w == Append(st.tokens, Text(SubSeq(text, a, b)))
  <2>1. u.start = i /\ u.tokens = w /\ text[i] = Opening
    BY <1>3 DEF Begun, OpenBrace, Scanned
  <2>2. b \in a .. Len(text) /\ b + 1 = i
    BY <1>1, <1>3
  <2>3. ASSUME NEW s \in Spans(text) PROVE Ends(s) < a \/ s[1] > b
    <3>1. Ends(s) < a \/ s[1] >= i
      BY <1>1, <2>1, BegunApart
    <3>2. s[1] \in 1 .. Len(text)
      BY SpanIs
    <3>. QED  BY <1>1, <3>1, <3>2
  <2>4. /\ Written(w) /\ w # <<>> /\ Expand(w, value) = f[b]
        /\ HasPlaceholder(w) <=> Marked(text, b + 1)
    <3>. HIDE DEF b
    <3>. QED  BY <2>2, <2>3, CoveredByText
  <2>5. i # 1
    BY <1>1, <1>3
  <2>. HIDE DEF w
  <2>. QED  BY <2>1, <2>2, <2>4, <2>5 DEF Covered
<1>4. CASE Begun(text, st, i, u) /\ a = i
  <2>1. u.start = i /\ u.tokens = st.tokens
    BY <1>4 DEF Begun, OpenBrace, Scanned
  <2>. QED  BY <1>2, <1>4, <2>1
<1>5. CASE Found(text, st, i, u)
  <2>1. PICK t \in Spans(text) : t[1] = st.start /\ Ends(t) = i /\ Added(st, t, i, u)
    BY <1>5, FoundSpan
  <2>. DEFINE w == Append(st.tokens, Special(t[2]))
  <2>2. u.start = i + 1 /\ u.tokens = w
    BY <2>1 DEF Added, Scanned
  <2>3. /\ Written(w) /\ w # <<>> /\ Expand(w, value) = f[Ends(t)]
        /\ HasPlaceholder(w) <=> Marked(text, Ends(t) + 1)
    BY <2>1, CoveredByToken
  <2>4. i + 1 # 1 /\ (i + 1) - 1 = i
    BY <1>1
  <2>. HIDE DEF w
  <2>. QED  BY <2>1, <2>2, <2>3, <2>4 DEF Covered
<1>6. CASE Skips(text, st, i, u)
  BY <1>2, <1>6 DEF Skips, Scanned
<1>7. CASE Escapes(text, st, i, u)
  BY <1>2, <1>7 DEF Escapes, Scanned
<1>8. CASE Missed(text, st, i, u)
  BY <1>2, <1>8 DEF Missed, Scanned
<1>9. CASE Passes(text, st, i, u)
  BY <1>2, <1>9 DEF Passes
<1>. QED  BY <1>3, <1>4, <1>5, <1>6, <1>7, <1>8, <1>9 DEF Stepped

LEMMA ScanAllCovers ==
    ASSUME NEW text \in Seq(Characters), NEW value, Stands(value), NEW f, Bodies(f, text, value)
    PROVE  LET st == ScanAll(text)
           IN  /\ st \in States(text) /\ Apart(text, st.start, Len(text))
               /\ Covered(text, value, f, st)
<1>. DEFINE n == Len(text)
<1>1. PICK at \in [0 .. n -> States(text)] :
              /\ at[0] = Scanned(<<>>, 1, FALSE, FALSE)
              /\ \A i \in 1 .. n : at[i] = Scan(text, at[i - 1], i)
              /\ ScanAll(text) = at[n]
  BY ScanAllIs, Zenon
<1>. DEFINE holds(i) == Flags(text, at[i], i) /\ Apart(text, at[i].start, i) /\ Covered(text, value, f, at[i])
            T == {i \in 0 .. n : holds(i)}
<1>2. n \in Nat /\ \A i \in 0 .. n : at[i] \in States(text)
  BY <1>1
<1>3. 0 \in T
  <2>. DEFINE st == at[0]
  <2>1. st.tokens = <<>> /\ st.start = 1 /\ st.open = FALSE /\ st.skip = FALSE
    BY <1>1 DEF Scanned
  <2>2. Plain(text, 0 + 1) /\ ~Pending(text, 0)
    <3>1. 1 \in Nat \ {0} /\ 0 + 1 = 1
      OBVIOUS
    <3>2. Plain(text, 1) /\ ~Pending(text, 0)
      BY <3>1, PlainNext, PendingNext
    <3>. QED  BY <3>1, <3>2
  <2>3. Flags(text, st, 0)
    <3>1. 1 \in 1 .. 0 + 1
      OBVIOUS
    <3>. HIDE DEF st
    <3>. QED  BY <2>1, <2>2, <3>1 DEF Flags
  <2>4. \A s \in Spans(text) : s[1] >= 1 /\ Ends(s) > 0 /\ ~(s[1] < 1)
    <3>. TAKE s \in Spans(text)
    <3>. DEFINE p == s[1]
                e == Ends(s)
    <3>1. p \in 1 .. n /\ e \in p + 1 .. n
      BY SpanIs
    <3>. HIDE DEF p, e
    <3>2. p >= 1 /\ e > 0 /\ ~(p < 1)
      BY <1>2, <3>1
    <3>. QED  BY <3>2 DEF p, e
  <2>5. Apart(text, st.start, 0) /\ ~Marked(text, st.start)
    <3>. HIDE DEF st
    <3>. QED  BY <2>1, <2>4 DEF Apart, Marked
  <2>6. Expand(<<>>, value) = <<>> /\ ~HasPlaceholder(<<>>) /\ Written(<<>>)
    <3>1. Expand(<<>>, value) = <<>>
      <4>1. <<>> \in Seq(Toks) /\ <<>> \in Seq(Characters)
        OBVIOUS
      <4>2. Text(<<>>) \in Toks
        BY <4>1, LiteralIs, TokenIs DEF Kinds
      <4>. QED  BY <4>1, <4>2, ExpandNext
    <3>. QED  BY <3>1 DEF HasPlaceholder, Written
  <2>7. f[st.start - 1] = <<>>
    <3>1. st.start - 1 = 0 /\ f[0] = <<>>
      BY <2>1 DEF Bodies
    <3>. QED  BY <3>1
  <2>8. Covered(text, value, f, st)
    <3>. HIDE DEF st
    <3>. QED  BY <2>1, <2>5, <2>6, <2>7 DEF Covered
  <2>. QED  BY <1>2, <2>3, <2>5, <2>8
<1>4. ASSUME NEW i \in 1 .. n, i - 1 \in T PROVE i \in T
  <2>1. i - 1 \in 0 .. n /\ i \in 0 .. n
    BY <1>2
  <2>2. at[i - 1] \in States(text) /\ Stepped(text, at[i - 1], i, at[i])
    <3>1. at[i - 1] \in States(text)
      BY <1>2, <2>1
    <3>2. Stepped(text, at[i - 1], i, Scan(text, at[i - 1], i))
      BY <3>1, ScanIs, Zenon DEF Stepped
    <3>. QED  BY <1>1, <3>1, <3>2
  <2>3. holds(i - 1)
    BY <1>4
  <2>4. Flags(text, at[i], i)
    BY <2>2, <2>3, FlagsNext
  <2>5. Apart(text, at[i].start, i)
    BY <2>2, <2>3, ApartNext
  <2>6. Covered(text, value, f, at[i])
    BY <2>2, <2>3, CoveredNext
  <2>. QED  BY <2>1, <2>4, <2>5, <2>6
<1>5. holds(n)
  <2>1. \A i \in 0 .. n : i \in T
    <3>. HIDE DEF T, n
    <3>. QED  BY <1>2, <1>3, <1>4, Induction
  <2>. QED  BY <1>2, <2>1
<1>6. at[n] \in States(text) /\ Apart(text, at[n].start, n) /\ Covered(text, value, f, at[n])
  BY <1>2, <1>5
<1>7. ScanAll(text) = at[n]
  BY <1>1
<1>. QED  BY ONLY <1>6, <1>7

LEMMA StragglersAre ==
    ASSUME NEW text \in Seq(Characters), NEW value, Stands(value)
    PROVE  LET w == Stragglers(text, ScanAll(text))
           IN  /\ w \in Seq(Toks) /\ Written(w)
               /\ Expand(w, value) = Body(text, value)
               /\ HasPlaceholder(w) <=> \E i \in 1 .. Len(text) : Starts(text, i, "placeholder")
               /\ w = <<>> <=> text = <<>>
<1>. DEFINE n == Len(text)
            st == ScanAll(text)
            a == st.start
            w == Stragglers(text, st)
<1>1. PICK f : Bodies(f, text, value)
  BY BodyIs
<1>2. st \in States(text) /\ Apart(text, a, n) /\ Covered(text, value, f, st)
  BY <1>1, ScanAllCovers
<1>. HIDE DEF st
<1>3. n \in Nat /\ a \in 1 .. n + 1 /\ st.tokens \in Seq(Toks) /\ (text = <<>> <=> n = 0)
  BY <1>2, StateIs
<1>4. Body(text, value) = f[n]
  BY <1>1 DEF Bodies
<1>5. ASSUME NEW s \in Spans(text) PROVE Ends(s) < a /\ s[1] < n + 1
  <2>. DEFINE p == s[1]
              e == Ends(s)
  <2>1. p \in 1 .. n /\ e \in p + 1 .. n
    BY SpanIs
  <2>2. e < a \/ e > n
    BY <1>2 DEF Apart
  <2>. HIDE DEF p, e, a, n
  <2>3. e < a /\ p < n + 1
    BY <1>3, <2>1, <2>2
  <2>. QED  BY <2>3 DEF p, e
<1>6. Marked(text, n + 1) <=> \E i \in 1 .. n : Starts(text, i, "placeholder")
  <2>1. ASSUME NEW s \in Spans(text), s[2] = "placeholder"
        PROVE  \E i \in 1 .. n : Starts(text, i, "placeholder")
    <3>1. s[1] \in 1 .. n /\ s = <<s[1], s[2]>>
      BY SpanIs
    <3>. QED  BY <2>1, <3>1, Zenon DEF Starts
  <2>2. ASSUME NEW i \in 1 .. n, Starts(text, i, "placeholder") PROVE Marked(text, n + 1)
    <3>. DEFINE s == <<i, "placeholder">>
    <3>1. s \in Spans(text) /\ s[2] = "placeholder"
      BY <2>2 DEF Starts
    <3>. HIDE DEF s
    <3>2. s[1] < n + 1
      BY <1>5, <3>1
    <3>. QED  BY <3>1, <3>2, Zenon DEF Marked
  <2>. QED  BY <2>1, <2>2, Zenon DEF Marked
<1>7. CASE a <= n
  <2>1. w = Append(st.tokens, Text(SubSeq(text, a, n)))
    BY <1>7 DEF Stragglers
  <2>2. n \in a .. n /\ n # 0
    BY <1>3, <1>7
  <2>3. \A s \in Spans(text) : Ends(s) < a \/ s[1] > n
    BY <1>5
  <2>4. /\ w \in Seq(Toks) /\ Written(w) /\ w # <<>>
        /\ Expand(w, value) = f[n]
        /\ HasPlaceholder(w) <=> Marked(text, n + 1)
    <3>. HIDE DEF n, w
    <3>. QED  BY <1>1, <1>2, <2>1, <2>2, <2>3, CoveredByText DEF n
  <2>. HIDE DEF w
  <2>5. w = <<>> <=> text = <<>>
    BY <1>3, <2>2, <2>4
  <2>. QED  BY <1>4, <1>6, <2>4, <2>5 DEF w, st
<1>8. CASE ~(a <= n)
  <2>1. w = st.tokens
    BY <1>8 DEF Stragglers
  <2>2. a = n + 1 /\ a - 1 = n /\ (a = 1 <=> n = 0)
    BY <1>3, <1>8
  <2>3. /\ w \in Seq(Toks) /\ Written(w)
        /\ Expand(w, value) = f[n]
        /\ HasPlaceholder(w) <=> Marked(text, n + 1)
        /\ w = <<>> <=> text = <<>>
    <3>. HIDE DEF w, a, n
    <3>1. /\ Expand(st.tokens, value) = f[a - 1] /\ (HasPlaceholder(st.tokens) <=> Marked(text, a))
          /\ (st.tokens = <<>> <=> a = 1) /\ Written(st.tokens)
      BY <1>2 DEF Covered, a
    <3>. QED  BY <1>3, <2>1, <2>2, <3>1
  <2>. HIDE DEF w
  <2>. QED  BY <1>4, <1>6, <2>3 DEF w, st
<1>. QED  BY <1>7, <1>8

-----------------------------------------------------------------------------
(* What WithPlaceholder puts behind the tokens.                             *)

Spaced(tokens) ==
    LET n == Len(tokens)
    IN  CASE n = 0 -> tokens
          [] n > 0 /\ tokens[n].kind = "text" -> [tokens EXCEPT ![n].text = Append(@, Space)]
          [] OTHER -> Append(tokens, Text(<<Space>>))

LEMMA WithPlaceholderIs ==
    ASSUME NEW tokens
    PROVE  WithPlaceholder(tokens) = IF HasPlaceholder(tokens) THEN tokens
                                     ELSE Append(Spaced(tokens), Special("placeholder"))
BY Zenon DEF WithPlaceholder, HasPlaceholder, Spaced

LEMMA SpaceIs == Space \in Characters /\ <<Space>> \in Seq(Characters)
<1>1. Space \in Characters
  BY Zenon DEF Characters
<1>. QED  BY ONLY <1>1

LEMMA SpacedText ==
    ASSUME NEW tokens \in Seq(Toks), NEW value, Stands(value), Len(tokens) > 0,
           tokens[Len(tokens)].kind = "text"
    PROVE  LET w == [tokens EXCEPT ![Len(tokens)].text = Append(@, Space)]
           IN  /\ w \in Seq(Toks) /\ (Written(tokens) => Written(w))
               /\ Expand(w, value) = Append(Expand(tokens, value), Space)
<1>. DEFINE n == Len(tokens)
            x == tokens[n].text
            y == Append(x, Space)
            tok == Text(y)
            front == SubSeq(tokens, 1, n - 1)
            w == [tokens EXCEPT ![n].text = y]
<1>1. n \in Nat \ {0} /\ n \in DOMAIN tokens /\ DOMAIN tokens = 1 .. n /\ tokens[n] \in Toks
  OBVIOUS
<1>2. /\ front \in Seq(Toks) /\ Len(front) = n - 1
      /\ \A i \in 1 .. n - 1 : front[i] = tokens[i]
  BY <1>1
<1>3. x \in Seq(Characters) /\ tokens[n] = Text(x)
  <2>. DEFINE A == Seq(Characters)
              t == tokens[n]
  <2>1. t \in [kind : Kinds \cup {"text"}, text : A] /\ t.kind = "text"
    BY <1>1 DEF Toks
  <2>. HIDE DEF A, t
  <2>2. t.text \in A /\ t = [kind |-> t.kind, text |-> t.text]
    BY ONLY <2>1
  <2>. QED  BY <2>1, <2>2 DEF A, t, Text
<1>. HIDE DEF x
<1>4. y \in Seq(Characters)
  BY <1>3, SpaceIs
<1>. HIDE DEF y
<1>5. [tokens[n] EXCEPT !.text = y] = tok
  <2>. DEFINE kind == "text"
              t == [kind |-> kind, text |-> x]
  <2>1. tokens[n] = t /\ tok = [kind |-> kind, text |-> y]
    BY <1>3, Zenon DEF Text
  <2>. HIDE DEF kind, tok
  <2>2. [t EXCEPT !.text = y] = tok
    BY ONLY <2>1
  <2>. QED  BY ONLY <2>1, <2>2
<1>6. tok \in Toks /\ tok.kind = "text" /\ tok.text = y /\ Text(x) \in Toks
      /\ Text(x).kind = "text" /\ Text(x).text = x
  BY <1>3, <1>4, LiteralIs, TokenIs DEF Kinds
<1>7. w = [i \in 1 .. n |-> IF i = n THEN tok ELSE tokens[i]]
  <2>1. w = [tokens EXCEPT ![n] = [tokens[n] EXCEPT !.text = y]]
    OBVIOUS
  <2>2. w = [tokens EXCEPT ![n] = tok]
    BY <1>5, <2>1
  <2>. HIDE DEF w, tok, n
  <2>. QED  BY <1>1, <2>2
<1>. HIDE DEF tok, w, front, n
<1>8. w \in Seq(Toks) /\ Len(w) = n /\ w[n] = tok /\ \A i \in 1 .. n - 1 : w[i] = tokens[i]
  <2>1. \A i \in 1 .. n : tokens[i] \in Toks
    BY DEF n
  <2>2. \A i \in 1 .. n : w[i] \in Toks
    BY <1>1, <1>6, <1>7, <2>1
  <2>. QED  BY <1>1, <1>7, <2>2
<1>9. w = Append(front, tok) /\ tokens = Append(front, Text(x))
  <2>. DEFINE u == Append(front, tok)
              v == Append(front, Text(x))
  <2>1. /\ u \in Seq(Toks) /\ Len(u) = n /\ u[n] = tok
        /\ \A i \in 1 .. n - 1 : u[i] = tokens[i]
    BY <1>1, <1>2, <1>6
  <2>2. /\ v \in Seq(Toks) /\ Len(v) = n /\ v[n] = Text(x)
        /\ \A i \in 1 .. n - 1 : v[i] = tokens[i]
    BY <1>1, <1>2, <1>6
  <2>3. \A i \in 1 .. n : i = n \/ i \in 1 .. n - 1
    BY <1>1
  <2>. HIDE DEF u, v
  <2>4. w = u
    BY <1>8, <2>1, <2>3, SameSeq
  <2>5. tokens = v
    BY <1>3, <2>2, <2>3, SameSeq DEF n
  <2>. QED  BY <2>4, <2>5 DEF u, v
<1>10. /\ Expand(w, value) = Expand(front, value) \o Expanded(tok, value)
       /\ Expand(tokens, value) = Expand(front, value) \o Expanded(Text(x), value)
       /\ Expand(front, value) \in Seq(Characters)
  BY <1>2, <1>6, <1>9, ExpandNext
<1>11. Expanded(tok, value) = y /\ Expanded(Text(x), value) = x
  BY <1>6 DEF Expanded
<1>12. Expand(w, value) = Append(Expand(tokens, value), Space)
  <2>. DEFINE d == Expand(front, value)
  <2>1. d \in Seq(Characters) /\ Expand(w, value) = d \o y /\ Expand(tokens, value) = d \o x
    BY <1>10, <1>11
  <2>. HIDE DEF d
  <2>2. d \o Append(x, Space) = Append(d \o x, Space)
    BY <1>3, <2>1, SpaceIs
  <2>. QED  BY <2>1, <2>2 DEF y
<1>13. ASSUME Written(tokens) PROVE Written(w)
  <2>1. ASSUME NEW i \in 1 .. n PROVE w[i].kind = "text" \/ w[i].text = Literal[w[i].kind]
    <3>1. CASE i = n
      BY <1>6, <1>8, <3>1
    <3>2. CASE i # n
      <4>1. i \in 1 .. n - 1
        BY <1>1, <3>2
      <4>2. w[i] = tokens[i]
        BY <1>8, <4>1
      <4>. QED  BY <1>13, <4>2 DEF Written, n
    <3>. QED  BY <3>1, <3>2
  <2>. QED  BY <1>8, <2>1 DEF Written
<1>14. w = [tokens EXCEPT ![Len(tokens)].text = Append(@, Space)]
  BY DEF w, y, x, n
<1>. QED  BY <1>8, <1>12, <1>13, <1>14

LEMMA WithPlaceholderExpands ==
    ASSUME NEW tokens \in Seq(Toks), Written(tokens), NEW value, Stands(value)
    PROVE  LET w == WithPlaceholder(tokens)
               e == Expand(tokens, value)
           IN  /\ w \in Seq(Toks) /\ Written(w)
               /\ Expand(w, value) =
                     IF HasPlaceholder(tokens) THEN e
                     ELSE (IF tokens = <<>> THEN <<>> ELSE Append(e, Space)) \o value["placeholder"]
<1>. DEFINE w == WithPlaceholder(tokens)
            e == Expand(tokens, value)
            sp == Spaced(tokens)
            n == Len(tokens)
            tok == Special("placeholder")
            gap == IF tokens = <<>> THEN <<>> ELSE Append(e, Space)
<1>1. /\ e \in Seq(Characters) /\ Expand(<<>>, value) = <<>>
      /\ Text(<<Space>>) \in Toks /\ Expanded(Text(<<Space>>), value) = <<Space>>
      /\ Text(<<Space>>).kind = "text"
  <2>1. /\ Text(<<Space>>) \in Toks /\ Text(<<Space>>).kind = "text"
        /\ Text(<<Space>>).text = <<Space>>
    BY SpaceIs, LiteralIs, TokenIs DEF Kinds
  <2>2. Expanded(Text(<<Space>>), value) = <<Space>>
    BY <2>1, Zenon DEF Expanded
  <2>3. e \in Seq(Characters) /\ Expand(<<>>, value) = <<>>
    BY <2>1, ExpandNext
  <2>. QED  BY <2>1, <2>2, <2>3
<1>2. sp \in Seq(Toks) /\ Written(sp) /\ Expand(sp, value) = gap
  <2>1. CASE n = 0
    <3>1. tokens = <<>> /\ sp = tokens
      BY <2>1 DEF Spaced
    <3>. HIDE DEF e
    <3>. QED  BY <1>1, <3>1
  <2>2. CASE n > 0 /\ tokens[n].kind = "text"
    <3>1. sp = [tokens EXCEPT ![Len(tokens)].text = Append(@, Space)]
      <4>1. n # 0
        BY <2>2
      <4>. QED  BY <2>2, <4>1, Zenon DEF Spaced
    <3>2. tokens # <<>>
      BY <2>2
    <3>. HIDE DEF sp
    <3>3. sp \in Seq(Toks) /\ Written(sp) /\ Expand(sp, value) = Append(e, Space)
      BY <2>2, <3>1, SpacedText
    <3>. QED  BY <3>2, <3>3
  <2>3. CASE n > 0 /\ tokens[n].kind # "text"
    <3>1. sp = Append(tokens, Text(<<Space>>))
      <4>1. n # 0
        BY <2>3
      <4>. QED  BY <2>3, <4>1, Zenon DEF Spaced
    <3>2. tokens # <<>>
      BY <2>3
    <3>. HIDE DEF sp
    <3>3. sp \in Seq(Toks) /\ Written(sp)
      BY <1>1, <3>1, TokensNext
    <3>4. Expand(sp, value) = e \o <<Space>>
      BY <1>1, <3>1, ExpandNext
    <3>5. e \o <<Space>> = Append(e, Space)
      <4>. HIDE DEF e
      <4>. QED  BY <1>1, SpaceIs
    <3>. QED  BY <3>2, <3>3, <3>4, <3>5
  <2>4. n \in Nat
    OBVIOUS
  <2>. QED  BY <2>1, <2>2, <2>3, <2>4
<1>3. CASE HasPlaceholder(tokens)
  <2>1. w = tokens
    BY <1>3, WithPlaceholderIs
  <2>. QED  BY <1>3, <2>1
<1>4. CASE ~HasPlaceholder(tokens)
  <2>1. w = Append(sp, tok)
    BY <1>4, WithPlaceholderIs
  <2>2. /\ tok \in Toks /\ tok.kind = "placeholder" /\ tok.kind # "text"
        /\ tok.text = Literal[tok.kind]
    BY SpaceIs, TokenIs DEF Kinds
  <2>. HIDE DEF sp, tok
  <2>3. w \in Seq(Toks) /\ Written(w)
    BY <1>2, <2>1, <2>2, TokensNext
  <2>4. Expand(w, value) = gap \o Expanded(tok, value)
    BY <1>2, <2>1, <2>2, ExpandNext
  <2>5. Expanded(tok, value) = value["placeholder"]
    BY <2>2 DEF Expanded
  <2>. QED  BY <1>4, <2>3, <2>4, <2>5
<1>. QED  BY <1>3, <1>4

(* What a command's tokens expand to is its text with the tokens replaced,  *)
(* and what they display as is the text itself: Tokens::new, Display and    *)
(* the slot's replacement agree with the reference for every text.          *)
LEMMA UnderstoodIs ==
    ASSUME NEW text \in Seq(Characters)
    PROVE  /\ Tokens(text) \in Seq(Toks)
           /\ Display(Tokens(text)) = Replaced(text, Literal)
           /\ \A value : Stands(value) => Expand(Tokens(text), value) = Replaced(text, value)
<1>. DEFINE w == Stragglers(text, ScanAll(text))
<1>1. ASSUME NEW value, Stands(value)
      PROVE  /\ Tokens(text) \in Seq(Toks) /\ Written(Tokens(text))
             /\ Expand(Tokens(text), value) = Replaced(text, value)
  <2>1. /\ w \in Seq(Toks) /\ Written(w)
        /\ Expand(w, value) = Body(text, value)
        /\ HasPlaceholder(w) <=> \E i \in 1 .. Len(text) : Starts(text, i, "placeholder")
        /\ w = <<>> <=> text = <<>>
    BY <1>1, StragglersAre
  <2>2. Tokens(text) = WithPlaceholder(w)
    BY Zenon DEF Tokens
  <2>. HIDE DEF w
  <2>3. /\ WithPlaceholder(w) \in Seq(Toks) /\ Written(WithPlaceholder(w))
        /\ Expand(WithPlaceholder(w), value) =
              IF HasPlaceholder(w) THEN Expand(w, value)
              ELSE (IF w = <<>> THEN <<>> ELSE Append(Expand(w, value), Space)) \o value["placeholder"]
    BY <1>1, <2>1, WithPlaceholderExpands
  <2>. QED  BY <2>1, <2>2, <2>3, ReplacedIs
<1>2. Stands(Literal)
  BY LiteralIs DEF Stands
<1>3. /\ Tokens(text) \in Seq(Toks) /\ Written(Tokens(text))
      /\ Expand(Tokens(text), Literal) = Replaced(text, Literal)
  BY <1>1, <1>2
<1>4. Display(Tokens(text)) = Expand(Tokens(text), Literal)
  BY <1>3, DisplayIs
<1>. QED  BY <1>1, <1>3, <1>4

=============================================================================
