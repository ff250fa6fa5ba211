------------------------------ MODULE Wire_proofs ------------------------------
(***************************************************************************)
(* One stream, for every text, output and number, however its bytes are    *)
(* delivered and wherever it breaks: which requests the server works on,   *)
(* which command it is told to delete, under which ID a client stores a    *)
(* result, and what result and what command it is.                         *)
(***************************************************************************)
EXTENDS Wire, Tokenizer_proofs

-----------------------------------------------------------------------------
(* Bytes, and where one is found first.                                     *)

Bytes ==
    STRING \cup Digits \cup Words
        \cup {"LF", "CR", "BS", Space, "n", "cores", "comms", "ERR", "deleted", "job"}

LEMMA BytesAreCharacters == Seq(Bytes) \subseteq Seq(Characters)
<1>1. Bytes \subseteq Characters
  BY DEF Bytes, Characters, Digits, Words, Space
<1>2. ASSUME NEW t \in Seq(Bytes) PROVE t \in Seq(Characters)
  <2>1. Len(t) \in Nat /\ t \in [1 .. Len(t) -> Bytes]
    OBVIOUS
  <2>2. t \in [1 .. Len(t) -> Characters]
    BY ONLY <1>1, <2>1
  <2>. QED  BY ONLY <2>1, <2>2
<1>. QED  BY <1>2

LEMMA PositionIs ==
    ASSUME NEW S, NEW s \in Seq(S), NEW c, NEW i \in 1 .. Len(s),
           s[i] = c, \A k \in 1 .. i - 1 : s[k] # c
    PROVE  Position(c, s) = i
<1>. DEFINE first(j) == s[j] = c /\ \A k \in 1 .. j - 1 : s[k] # c
<1>1. DOMAIN s = 1 .. Len(s)
  OBVIOUS
<1>2. i \in DOMAIN s /\ first(i)
  BY <1>1
<1>3. ASSUME NEW j \in DOMAIN s, first(j) PROVE j = i
  <2>1. ~(i \in 1 .. j - 1) /\ ~(j \in 1 .. i - 1)
    BY <1>3
  <2>. QED  BY <1>1, <2>1
<1>4. Position(c, s) = CHOOSE j \in DOMAIN s : first(j)
  BY Zenon DEF Position
<1>. HIDE DEF first
<1>5. (CHOOSE j \in DOMAIN s : first(j)) \in DOMAIN s /\ first(CHOOSE j \in DOMAIN s : first(j))
  BY <1>2, Zenon
<1>. QED  BY ONLY <1>3, <1>4, <1>5, Zenon

LEMMA FirstPosition ==
    ASSUME NEW S, NEW s \in Seq(S), NEW c, Contains(s, c)
    PROVE  /\ Position(c, s) \in 1 .. Len(s)
           /\ s[Position(c, s)] = c
           /\ \A k \in 1 .. Position(c, s) - 1 : s[k] # c
<1>. DEFINE T == {i \in 1 .. Len(s) : s[i] = c}
<1>1. T # {} /\ T \in SUBSET Nat
  BY DEF Contains
<1>2. PICK m \in T : \A k \in T : m <= k
  <2>. HIDE DEF T
  <2>. QED  BY <1>1, Least
<1>3. m \in 1 .. Len(s) /\ s[m] = c
  BY <1>2
<1>4. \A k \in 1 .. m - 1 : s[k] # c
  <2>. SUFFICES ASSUME NEW k \in 1 .. m - 1, s[k] = c PROVE FALSE
    OBVIOUS
  <2>1. k \in T
    BY <1>3
  <2>. QED  BY <1>2, <1>3, <2>1
<1>5. Position(c, s) = m
  <2>. HIDE DEF T
  <2>. QED  BY ONLY <1>3, <1>4, s \in Seq(S), PositionIs
<1>. QED  BY <1>3, <1>4, <1>5

-----------------------------------------------------------------------------
(* The requests a client sends, and the bytes of one.                       *)

Numbers == {n \in Seq(Bytes) : IsNumber(n)}

Requests ==
    [op : {"get"}, text : {<<"cores">>}] \cup [op : {"com"}, text : Commands]
        \cup [op : {"del"}, cid : Numbers]
        \cup [op : {"inp"}, cid : Numbers, jid : Jids, text : Texts]

LineOf(r) == Instruction(r) \o <<"CR", "LF">>

LEMMA ConstantTypes ==
    /\ Commands \cup Texts \cup Results \cup Listings \subseteq Seq(Bytes)
    /\ Jids \cup Cids \subseteq Numbers
<1>1. ASSUME NEW t \in Seq(STRING) PROVE t \in Seq(Bytes)
  <2>1. STRING \subseteq Bytes
    BY DEF Bytes
  <2>2. Len(t) \in Nat /\ t \in [1 .. Len(t) -> STRING]
    OBVIOUS
  <2>3. t \in [1 .. Len(t) -> Bytes]
    BY ONLY <2>1, <2>2
  <2>. QED  BY ONLY <2>2, <2>3
<1>2. \A t \in Commands \cup Texts \cup Results \cup Listings \cup Jids \cup Cids : t \in Seq(STRING)
  BY WireAssumption
<1>3. ASSUME NEW n \in Jids \cup Cids PROVE n \in Numbers
  <2>1. n # <<>> /\ \A i \in DOMAIN n : n[i] \in Digits
    BY WireAssumption
  <2>. QED  BY <1>1, <1>2, <2>1 DEF Numbers, IsNumber
<1>. QED  BY <1>1, <1>2, <1>3

LEMMA NumberBytes ==
    ASSUME NEW n \in Numbers
    PROVE  /\ n \in Seq(Bytes) /\ n # <<>> /\ IsNumber(n)
           /\ \A k \in 1 .. Len(n) : /\ n[k] \in Digits
                                    /\ n[k] \notin Words /\ n[k] # Space /\ n[k] # "LF"
<1>1. n \in Seq(Bytes) /\ IsNumber(n)
  BY DEF Numbers
<1>2. n # <<>> /\ \A k \in 1 .. Len(n) : n[k] \in Digits
  BY <1>1 DEF IsNumber
<1>3. ASSUME NEW d \in Digits PROVE d \notin Words /\ d # Space /\ d # "LF"
  BY DEF Digits, Words, Space
<1>. QED  BY ONLY <1>1, <1>2, <1>3

(* The bytes of an input, one by one.                                       *)
Input(c, j, t) == <<"inp">> \o c \o <<Space>> \o j \o <<Space>> \o t

InputIs(s, c, j, t) ==
    /\ s \in Seq(Bytes)
    /\ Len(s) = 3 + Len(c) + Len(j) + Len(t)
    /\ s[1] = "inp"
    /\ \A k \in 1 .. Len(c) : s[1 + k] = c[k]
    /\ s[2 + Len(c)] = Space
    /\ \A k \in 1 .. Len(j) : s[2 + Len(c) + k] = j[k]
    /\ s[3 + Len(c) + Len(j)] = Space
    /\ \A k \in 1 .. Len(t) : s[3 + Len(c) + Len(j) + k] = t[k]

LEMMA InputBytes ==
    ASSUME NEW c \in Seq(Bytes), NEW j \in Seq(Bytes), NEW t \in Seq(Bytes)
    PROVE  InputIs(Input(c, j, t), c, j, t)
<1>. DEFINE s == Input(c, j, t)
<1>. DEFINE a == <<"inp">>
            b == a \o c
            p == <<Space>>
            d == b \o p
            e == d \o j
            f == e \o p
            g == f \o t
<1>1. "inp" \in Bytes /\ Space \in Bytes
  BY DEF Bytes, Words, Space
<1>2. a \in Seq(Bytes) /\ Len(a) = 1 /\ a[1] = "inp"
  BY ONLY <1>1
<1>3. p \in Seq(Bytes) /\ Len(p) = 1 /\ p[1] = Space
  BY ONLY <1>1
<1>. HIDE DEF a, p
<1>4. /\ b \in Seq(Bytes) /\ Len(b) = 1 + Len(c)
      /\ \A k \in 1 .. 1 : b[k] = a[k]
      /\ \A k \in 1 .. Len(c) : b[1 + k] = c[k]
  <2>1. /\ b \in Seq(Bytes) /\ Len(b) = Len(a) + Len(c)
        /\ \A k \in 1 .. Len(a) : b[k] = a[k]
        /\ \A k \in 1 .. Len(c) : b[Len(a) + k] = c[k]
    <3>1. a \in Seq(Bytes) /\ c \in Seq(Bytes)
      BY ONLY <1>2, c \in Seq(Bytes)
    <3>. QED  BY ONLY <3>1
  <2>2. Len(a) = 1
    BY ONLY <1>2
  <2>. HIDE DEF b
  <2>. QED  BY ONLY <2>1, <2>2
<1>. HIDE DEF b
<1>5. /\ d \in Seq(Bytes) /\ Len(d) = 1 + Len(c) + Len(p)
      /\ \A k \in 1 .. 1 + Len(c) : d[k] = b[k]
      /\ \A k \in 1 .. Len(p) : d[1 + Len(c) + k] = p[k]
  <2>1. /\ d \in Seq(Bytes) /\ Len(d) = Len(b) + Len(p)
        /\ \A k \in 1 .. Len(b) : d[k] = b[k]
        /\ \A k \in 1 .. Len(p) : d[Len(b) + k] = p[k]
    <3>1. b \in Seq(Bytes) /\ p \in Seq(Bytes)
      BY ONLY <1>4, <1>3
    <3>. QED  BY ONLY <3>1
  <2>2. Len(b) = 1 + Len(c)
    BY ONLY <1>4
  <2>. HIDE DEF d
  <2>. QED  BY ONLY <2>1, <2>2
<1>. HIDE DEF d
<1>6. /\ e \in Seq(Bytes) /\ Len(e) = 2 + Len(c) + Len(j)
      /\ \A k \in 1 .. 2 + Len(c) : e[k] = d[k]
      /\ \A k \in 1 .. Len(j) : e[2 + Len(c) + k] = j[k]
  <2>1. /\ e \in Seq(Bytes) /\ Len(e) = Len(d) + Len(j)
        /\ \A k \in 1 .. Len(d) : e[k] = d[k]
        /\ \A k \in 1 .. Len(j) : e[Len(d) + k] = j[k]
    <3>1. d \in Seq(Bytes) /\ j \in Seq(Bytes)
      BY ONLY <1>5, j \in Seq(Bytes)
    <3>. QED  BY ONLY <3>1
  <2>2. Len(d) = 2 + Len(c)
    BY ONLY <1>3, <1>5, c \in Seq(Bytes)
  <2>. HIDE DEF e
  <2>. QED  BY ONLY <2>1, <2>2
<1>. HIDE DEF e
<1>7. /\ f \in Seq(Bytes) /\ Len(f) = 2 + Len(c) + Len(j) + Len(p)
      /\ \A k \in 1 .. 2 + Len(c) + Len(j) : f[k] = e[k]
      /\ \A k \in 1 .. Len(p) : f[2 + Len(c) + Len(j) + k] = p[k]
  <2>1. /\ f \in Seq(Bytes) /\ Len(f) = Len(e) + Len(p)
        /\ \A k \in 1 .. Len(e) : f[k] = e[k]
        /\ \A k \in 1 .. Len(p) : f[Len(e) + k] = p[k]
    <3>1. e \in Seq(Bytes) /\ p \in Seq(Bytes)
      BY ONLY <1>6, <1>3
    <3>. QED  BY ONLY <3>1
  <2>2. Len(e) = 2 + Len(c) + Len(j)
    BY ONLY <1>6
  <2>. HIDE DEF f
  <2>. QED  BY ONLY <2>1, <2>2
<1>. HIDE DEF f
<1>8. /\ g \in Seq(Bytes) /\ Len(g) = 3 + Len(c) + Len(j) + Len(t)
      /\ \A k \in 1 .. 3 + Len(c) + Len(j) : g[k] = f[k]
      /\ \A k \in 1 .. Len(t) : g[3 + Len(c) + Len(j) + k] = t[k]
  <2>1. /\ g \in Seq(Bytes) /\ Len(g) = Len(f) + Len(t)
        /\ \A k \in 1 .. Len(f) : g[k] = f[k]
        /\ \A k \in 1 .. Len(t) : g[Len(f) + k] = t[k]
    <3>1. f \in Seq(Bytes) /\ t \in Seq(Bytes)
      BY ONLY <1>7, t \in Seq(Bytes)
    <3>. QED  BY ONLY <3>1
  <2>2. Len(f) = 3 + Len(c) + Len(j)
    BY ONLY <1>3, <1>7, c \in Seq(Bytes), j \in Seq(Bytes)
  <2>. HIDE DEF g
  <2>. QED  BY ONLY <2>1, <2>2
<1>. HIDE DEF g
<1>9. s = g
  BY DEF a, b, d, e, f, g, p, Input
<1>. HIDE DEF s
<1>. DEFINE x == Len(c)
            y == Len(j)
<1>10. x \in Nat /\ y \in Nat
  OBVIOUS
<1>11. d[2 + x] = Space /\ f[3 + x + y] = Space
  <2>1. d[1 + x + 1] = Space /\ f[2 + x + y + 1] = Space
    BY <1>3, <1>5, <1>7
  <2>2. 1 + x + 1 = 2 + x /\ 2 + x + y + 1 = 3 + x + y
    BY ONLY <1>10
  <2>. QED  BY ONLY <2>1, <2>2
<1>12. /\ \A k \in 1 .. 3 + x + y : s[k] = f[k]
       /\ \A k \in 1 .. 2 + x + y : f[k] = e[k]
       /\ \A k \in 1 .. 2 + x : e[k] = d[k]
       /\ \A k \in 1 .. 1 + x : d[k] = b[k]
       /\ \A k \in 1 .. x : b[1 + k] = c[k]
       /\ \A k \in 1 .. y : e[2 + x + k] = j[k]
       /\ b[1] = "inp"
  BY ONLY <1>2, <1>4, <1>5, <1>6, <1>7, <1>8, <1>9
<1>. HIDE DEF x, y
<1>13. \A k \in 1 .. 1 + x : s[k] = b[k]
  BY ONLY <1>10, <1>12
<1>14. \A k \in 1 .. x : s[1 + k] = c[k]
  BY ONLY <1>10, <1>12, <1>13
<1>15. s[2 + x] = Space
  BY ONLY <1>10, <1>11, <1>12
<1>16. s[3 + x + y] = Space
  BY ONLY <1>10, <1>11, <1>12
<1>17. \A k \in 1 .. y : s[2 + x + k] = j[k]
  BY ONLY <1>10, <1>12
<1>18. s[1] = "inp"
  BY ONLY <1>10, <1>12, <1>13
<1>. QED  BY <1>8, <1>9, <1>14, <1>15, <1>16, <1>17, <1>18 DEF x, y, s, InputIs

LEMMA WordBytes ==
    ASSUME NEW w \in Words, NEW t \in Seq(Bytes)
    PROVE  /\ <<w>> \o t \in Seq(Bytes)
           /\ Len(<<w>> \o t) = 1 + Len(t)
           /\ (<<w>> \o t)[1] = w
           /\ \A k \in 1 .. Len(t) : (<<w>> \o t)[1 + k] = t[k]
           /\ Tail(<<w>> \o t) = t
<1>1. w \in Bytes
  BY DEF Bytes
<1>. QED  BY ONLY <1>1, t \in Seq(Bytes)

(* The text of a request, in which its lines but the first begin.           *)
BodyOf(q) == IF q.op = "del" THEN <<>> ELSE q.text

(* A head of a bytes without a newline, and the text t.                     *)
Shape(s, a, t) ==
    /\ s \in Seq(Bytes) /\ t \in Seq(Bytes) /\ a \in Nat \ {0}
    /\ Len(s) = a + Len(t)
    /\ \A k \in 1 .. a : s[k] # "LF"
    /\ \A k \in 1 .. Len(t) : s[a + k] = t[k]

LEMMA InstructionBytes ==
    ASSUME NEW q \in Requests
    PROVE  /\ Instruction(q) \in Seq(Bytes) /\ Instruction(q) # <<>>
           /\ Instruction(q)[1] = q.op /\ q.op \in Words
           /\ \E a \in Nat \ {0} : Shape(Instruction(q), a, BodyOf(q))
<1>. DEFINE s == Instruction(q)
            Goal == /\ s \in Seq(Bytes) /\ s # <<>> /\ s[1] = q.op /\ q.op \in Words
                    /\ \E a \in Nat \ {0} : Shape(s, a, BodyOf(q))
<1>. SUFFICES Goal
  OBVIOUS
<1>1. "get" \in Words /\ "com" \in Words /\ "del" \in Words /\ "inp" \in Words
  BY DEF Words
<1>2. \A w \in Words : w # "LF"
  BY DEF Words
<1>3. ASSUME NEW w \in Words, NEW t \in Seq(Bytes), s = <<w>> \o t, q.op = w,
             BodyOf(q) = t \/ (BodyOf(q) = <<>> /\ \A k \in 1 .. Len(t) : t[k] # "LF")
      PROVE  Goal
  <2>. HIDE DEF s
  <2>1. /\ s \in Seq(Bytes) /\ Len(s) = 1 + Len(t) /\ s[1] = w
        /\ \A k \in 1 .. Len(t) : s[1 + k] = t[k]
    BY <1>3, WordBytes
  <2>2. s # <<>>
    BY ONLY <2>1, t \in Seq(Bytes)
  <2>3. CASE BodyOf(q) = t
    <3>1. Shape(s, 1, t)
      BY ONLY <1>2, <2>1, w \in Words, t \in Seq(Bytes) DEF Shape
    <3>. QED  BY <1>3, <2>1, <2>2, <2>3, <3>1
  <2>4. CASE BodyOf(q) = <<>> /\ \A k \in 1 .. Len(t) : t[k] # "LF"
    <3>. DEFINE a == 1 + Len(t)
    <3>1. a \in Nat \ {0} /\ Len(s) = a /\ Len(t) \in Nat
      BY ONLY <2>1, t \in Seq(Bytes)
    <3>2. ASSUME NEW k \in 1 .. a PROVE s[k] # "LF"
      <4>1. k = 1 \/ (k - 1 \in 1 .. Len(t) /\ 1 + (k - 1) = k)
        BY ONLY <3>1, k \in 1 .. a
      <4>2. k - 1 \in 1 .. Len(t) => s[1 + (k - 1)] = t[k - 1] /\ t[k - 1] # "LF"
        BY ONLY <2>1, <2>4
      <4>. QED  BY ONLY <1>2, <2>1, <4>1, <4>2, w \in Words
    <3>. HIDE DEF a
    <3>3. Shape(s, a, <<>>)
      BY ONLY <2>1, <3>1, <3>2 DEF Shape
    <3>. QED  BY <1>3, <2>1, <2>2, <2>4, <3>1, <3>3
  <2>. QED  BY ONLY <1>3, <2>3, <2>4
<1>4. CASE q.op = "get"
  <2>1. q.text = <<"cores">> /\ s = <<"get">> \o q.text /\ BodyOf(q) = q.text
    BY <1>4 DEF Requests, Instruction, BodyOf
  <2>2. "cores" \in Bytes
    BY DEF Bytes
  <2>3. q.text \in Seq(Bytes)
    BY ONLY <2>1, <2>2
  <2>. QED  BY <1>1, <1>3, <1>4, <2>1, <2>3
<1>5. CASE q.op = "com"
  <2>1. q.text \in Commands /\ s = <<"com">> \o q.text /\ BodyOf(q) = q.text
    BY <1>5 DEF Requests, Instruction, BodyOf
  <2>. QED  BY <1>1, <1>3, <1>5, <2>1, ConstantTypes
<1>6. CASE q.op = "del"
  <2>1. q.cid \in Numbers /\ s = <<"del">> \o q.cid /\ BodyOf(q) = <<>>
    BY <1>6 DEF Requests, Instruction, BodyOf
  <2>2. q.cid \in Seq(Bytes) /\ \A k \in 1 .. Len(q.cid) : q.cid[k] # "LF"
    BY <2>1, NumberBytes
  <2>. QED  BY <1>1, <1>3, <1>6, <2>1, <2>2
<1>7. CASE q.op = "inp"
  <2>1. /\ q.cid \in Numbers /\ q.jid \in Jids /\ q.text \in Texts /\ BodyOf(q) = q.text
        /\ s = <<"inp">> \o q.cid \o <<Space>> \o q.jid \o <<Space>> \o q.text
    BY <1>7 DEF Requests, Instruction, BodyOf
  <2>. DEFINE c == q.cid
              j == q.jid
              t == q.text
              x == Len(c)
              y == Len(j)
              a == 3 + x + y
  <2>2. /\ c \in Seq(Bytes) /\ j \in Seq(Bytes) /\ t \in Seq(Bytes)
        /\ \A k \in 1 .. x : c[k] # "LF"
        /\ \A k \in 1 .. y : j[k] # "LF"
    <3>1. q.cid \in Numbers /\ q.jid \in Numbers
      BY <2>1, ConstantTypes
    <3>2. t \in Seq(Bytes)
      BY <2>1, ConstantTypes
    <3>. QED  BY ONLY <3>1, <3>2, NumberBytes
  <2>3. Space # "LF" /\ "inp" # "LF"
    BY DEF Space
  <2>. HIDE DEF c, j, t, s
  <2>4. InputIs(s, c, j, t)
    <3>1. s = Input(c, j, t)
      BY <2>1 DEF c, j, t, Input
    <3>2. InputIs(Input(c, j, t), c, j, t)
      BY ONLY <2>2, InputBytes, Zenon
    <3>. QED  BY ONLY <3>1, <3>2
  <2>5. /\ x \in Nat /\ y \in Nat /\ Len(t) \in Nat /\ a = 3 + x + y
        /\ Len(s) = a + Len(t) /\ s \in Seq(Bytes) /\ s[1] = "inp"
    BY ONLY <2>2, <2>4 DEF InputIs
  <2>6. ASSUME NEW k \in 1 .. a PROVE s[k] # "LF"
    <3>1. k - 1 \in 1 .. x => s[1 + (k - 1)] # "LF"
      BY ONLY <2>2, <2>4 DEF InputIs
    <3>2. k - 2 - x \in 1 .. y => s[2 + x + (k - 2 - x)] # "LF"
      BY ONLY <2>2, <2>4 DEF InputIs
    <3>3. s[1] # "LF" /\ s[2 + x] # "LF" /\ s[3 + x + y] # "LF"
      BY ONLY <2>3, <2>4 DEF InputIs
    <3>. HIDE DEF x, y, a
    <3>4. /\ 1 + (k - 1) = k /\ 2 + x + (k - 2 - x) = k
          /\ \/ k = 1 \/ k - 1 \in 1 .. x \/ k = 2 + x \/ k - 2 - x \in 1 .. y \/ k = 3 + x + y
      BY ONLY <2>5, k \in 1 .. a
    <3>. QED  BY ONLY <3>1, <3>2, <3>3, <3>4
  <2>7. \A k \in 1 .. Len(t) : s[a + k] = t[k]
    BY ONLY <2>4 DEF InputIs
  <2>. HIDE DEF x, y, a
  <2>8. Shape(s, a, t) /\ a \in Nat \ {0}
    BY ONLY <2>2, <2>5, <2>6, <2>7 DEF Shape
  <2>9. BodyOf(q) = t /\ s # <<>>
    <3>1. Len(s) # 0
      BY ONLY <2>5, <2>8
    <3>. QED  BY <2>1, <3>1 DEF t
  <2>. QED  BY <1>1, <1>7, <2>5, <2>8, <2>9
<1>8. q.op \in {"get", "com", "del", "inp"}
  BY DEF Requests
<1>. HIDE DEF Goal
<1>. QED  BY ONLY <1>4, <1>5, <1>6, <1>7, <1>8

-----------------------------------------------------------------------------
(* What the server makes of a request: a frame, and GetInput of its rest.   *)

LEMMA GetInputIs ==
    ASSUME NEW c \in Numbers, NEW j \in Numbers, NEW t \in Seq(Bytes),
           NEW s, InputIs(s, c, j, t)
    PROVE  GetInput(Tail(s)) = [op |-> "inp", cid |-> c, jid |-> j, text |-> t]
<1>. DEFINE x == Len(c)
            y == Len(j)
            z == Len(t)
            arg == Tail(s)
<1>1. /\ c \in Seq(Bytes) /\ j \in Seq(Bytes) /\ IsNumber(c) /\ IsNumber(j)
      /\ \A k \in 1 .. x : c[k] # Space
      /\ \A k \in 1 .. y : j[k] # Space
  BY NumberBytes
<1>2. x \in Nat /\ y \in Nat /\ z \in Nat
  BY ONLY <1>1, t \in Seq(Bytes)
<1>3. /\ s \in Seq(Bytes) /\ Len(s) = 3 + x + y + z
      /\ \A k \in 1 .. x : s[1 + k] = c[k]
      /\ s[2 + x] = Space
      /\ \A k \in 1 .. y : s[2 + x + k] = j[k]
      /\ s[3 + x + y] = Space
      /\ \A k \in 1 .. z : s[3 + x + y + k] = t[k]
  BY DEF InputIs
<1>. HIDE DEF x, y, z
<1>4. s # <<>>
  BY ONLY <1>2, <1>3
<1>5. /\ arg \in Seq(Bytes) /\ Len(arg) = 2 + x + y + z
      /\ \A k \in 1 .. 2 + x + y + z : arg[k] = s[k + 1]
  BY ONLY <1>2, <1>3, <1>4, TailOf
<1>. HIDE DEF arg
<1>6. /\ \A k \in 1 .. x : arg[k] = c[k]
      /\ arg[1 + x] = Space
      /\ \A k \in 1 .. y : arg[1 + x + k] = j[k]
      /\ arg[2 + x + y] = Space
      /\ \A k \in 1 .. z : arg[2 + x + y + k] = t[k]
  BY ONLY <1>2, <1>3, <1>5
<1>7. Contains(arg, Space) /\ Position(Space, arg) = 1 + x
  <2>1. 1 + x \in 1 .. Len(arg)
    BY ONLY <1>2, <1>5
  <2>2. \A k \in 1 .. (1 + x) - 1 : arg[k] # Space
    BY ONLY <1>1, <1>2, <1>6
  <2>3. arg \in Seq(Bytes) /\ arg[1 + x] = Space
    BY ONLY <1>5, <1>6
  <2>. QED  BY <2>1, <2>2, <2>3, PositionIs DEF Contains
<1>8. SubSeq(arg, 1, (1 + x) - 1) = c
  <2>1. (1 + x) - 1 = x /\ x <= Len(arg)
    BY ONLY <1>2, <1>5
  <2>2. /\ SubSeq(arg, 1, x) \in Seq(Bytes) /\ Len(SubSeq(arg, 1, x)) = x
        /\ \A k \in 1 .. x : SubSeq(arg, 1, x)[k] = arg[k]
    BY ONLY <1>2, <1>5, <2>1
  <2>3. SubSeq(arg, 1, x) = c
    BY ONLY <1>1, <1>6, <2>2, SameSeq DEF x
  <2>. QED  BY ONLY <2>1, <2>3
<1>. DEFINE rest == SubSeq(arg, (1 + x) + 1, Len(arg))
<1>9. /\ rest \in Seq(Bytes) /\ Len(rest) = 1 + y + z
      /\ \A k \in 1 .. 1 + y + z : rest[k] = arg[1 + x + k]
  BY ONLY <1>2, <1>5
<1>. HIDE DEF rest
<1>10. /\ \A k \in 1 .. y : rest[k] = j[k]
       /\ rest[1 + y] = Space
       /\ \A k \in 1 .. z : rest[1 + y + k] = t[k]
  <2>1. \A k \in 1 .. y : rest[k] = j[k]
    BY ONLY <1>2, <1>6, <1>9
  <2>2. rest[1 + y] = arg[1 + x + (1 + y)] /\ 1 + x + (1 + y) = 2 + x + y
    BY ONLY <1>2, <1>9
  <2>3. ASSUME NEW k \in 1 .. z PROVE rest[1 + y + k] = t[k]
    <3>1. 1 + y + k \in 1 .. 1 + y + z /\ 1 + x + (1 + y + k) = 2 + x + y + k
      BY ONLY <1>2, k \in 1 .. z
    <3>2. rest[1 + y + k] = arg[1 + x + (1 + y + k)]
      BY ONLY <1>9, <3>1
    <3>. QED  BY ONLY <1>6, <3>1, <3>2, k \in 1 .. z
  <2>. QED  BY ONLY <1>6, <2>1, <2>2, <2>3
<1>11. Contains(rest, Space) /\ Position(Space, rest) = 1 + y
  <2>1. 1 + y \in 1 .. Len(rest)
    BY ONLY <1>2, <1>9
  <2>2. \A k \in 1 .. (1 + y) - 1 : rest[k] # Space
    BY ONLY <1>1, <1>2, <1>10
  <2>3. rest \in Seq(Bytes) /\ rest[1 + y] = Space
    BY ONLY <1>9, <1>10
  <2>. QED  BY <2>1, <2>2, <2>3, PositionIs DEF Contains
<1>12. SubSeq(rest, 1, (1 + y) - 1) = j
  <2>1. (1 + y) - 1 = y /\ y <= Len(rest)
    BY ONLY <1>2, <1>9
  <2>2. /\ SubSeq(rest, 1, y) \in Seq(Bytes) /\ Len(SubSeq(rest, 1, y)) = y
        /\ \A k \in 1 .. y : SubSeq(rest, 1, y)[k] = rest[k]
    BY ONLY <1>2, <1>9, <2>1
  <2>3. SubSeq(rest, 1, y) = j
    BY ONLY <1>1, <1>10, <2>2, SameSeq DEF y
  <2>. QED  BY ONLY <2>1, <2>3
<1>13. SubSeq(rest, (1 + y) + 1, Len(rest)) = t
  <2>. DEFINE r == SubSeq(rest, (1 + y) + 1, Len(rest))
  <2>1. r \in Seq(Bytes) /\ Len(r) = z /\ \A k \in 1 .. z : r[k] = rest[1 + y + k]
    BY ONLY <1>2, <1>9
  <2>. HIDE DEF r
  <2>2. r = t
    BY ONLY <1>10, <2>1, t \in Seq(Bytes), SameSeq DEF z
  <2>. QED  BY ONLY <2>2 DEF r
<1>. QED  BY ONLY <1>1, <1>7, <1>8, <1>11, <1>12, <1>13, Zenon DEF GetInput, rest, arg

LEMMA GetInputWithoutText ==
    ASSUME NEW c \in Numbers, NEW j \in Numbers, NEW t \in Seq(Bytes),
           NEW s, InputIs(s, c, j, t)
    PROVE  GetInput(Tail(SubSeq(s, 1, 2 + Len(c) + Len(j)))) = None
<1>. DEFINE x == Len(c)
            y == Len(j)
            p == SubSeq(s, 1, 2 + Len(c) + Len(j))
            arg == Tail(p)
<1>1. /\ c \in Seq(Bytes) /\ j \in Seq(Bytes)
      /\ \A k \in 1 .. x : c[k] # Space
      /\ \A k \in 1 .. y : j[k] # Space
  BY NumberBytes
<1>2. x \in Nat /\ y \in Nat /\ Len(t) \in Nat
  BY ONLY <1>1, t \in Seq(Bytes)
<1>3. /\ s \in Seq(Bytes) /\ Len(s) = 3 + x + y + Len(t)
      /\ \A k \in 1 .. x : s[1 + k] = c[k]
      /\ s[2 + x] = Space
      /\ \A k \in 1 .. y : s[2 + x + k] = j[k]
  BY DEF InputIs
<1>4. /\ p \in Seq(Bytes) /\ Len(p) = 2 + x + y
      /\ \A k \in 1 .. 2 + x + y : p[k] = s[k]
  <2>. HIDE DEF x, y
  <2>1. 1 <= 2 + x + y /\ 2 + x + y \in Nat /\ 2 + x + y <= Len(s)
    BY ONLY <1>2, <1>3
  <2>2. p = SubSeq(s, 1, 2 + x + y)
    BY DEF x, y
  <2>. HIDE DEF p
  <2>. QED  BY ONLY <1>3, <2>1, <2>2
<1>. HIDE DEF x, y, p
<1>5. p # <<>>
  BY ONLY <1>2, <1>4
<1>6. /\ arg \in Seq(Bytes) /\ Len(arg) = 1 + x + y
      /\ \A k \in 1 .. 1 + x + y : arg[k] = p[k + 1]
  BY ONLY <1>2, <1>4, <1>5, TailOf
<1>. HIDE DEF arg
<1>7. /\ \A k \in 1 .. x : arg[k] # Space
      /\ arg[1 + x] = Space
  <2>1. ASSUME NEW k \in 1 .. x PROVE arg[k] # Space
    <3>1. k \in 1 .. 1 + x + y /\ k + 1 \in 1 .. 2 + x + y /\ k + 1 = 1 + k
      BY ONLY <1>2, k \in 1 .. x
    <3>2. arg[k] = p[k + 1]
      BY ONLY <1>6, <3>1
    <3>3. p[k + 1] = s[1 + k]
      BY ONLY <1>4, <3>1
    <3>4. s[1 + k] = c[k] /\ c[k] # Space
      BY ONLY <1>1, <1>3, k \in 1 .. x
    <3>. QED  BY ONLY <3>2, <3>3, <3>4
  <2>2. 1 + x \in 1 .. 1 + x + y /\ (1 + x) + 1 = 2 + x /\ 2 + x \in 1 .. 2 + x + y
    BY ONLY <1>2
  <2>3. arg[1 + x] = p[2 + x] /\ p[2 + x] = s[2 + x]
    BY ONLY <1>4, <1>6, <2>2
  <2>. QED  BY ONLY <1>3, <2>1, <2>3
<1>8. Position(Space, arg) = 1 + x
  <2>1. 1 + x \in 1 .. Len(arg)
    BY ONLY <1>2, <1>6
  <2>2. \A k \in 1 .. (1 + x) - 1 : arg[k] # Space
    BY ONLY <1>2, <1>7
  <2>3. arg \in Seq(Bytes) /\ arg[1 + x] = Space
    BY ONLY <1>6, <1>7
  <2>. QED  BY <2>1, <2>2, <2>3, PositionIs
<1>. DEFINE rest == SubSeq(arg, (1 + x) + 1, Len(arg))
<1>9. /\ rest \in Seq(Bytes) /\ Len(rest) = y
      /\ \A k \in 1 .. y : rest[k] = arg[1 + x + k]
  BY ONLY <1>2, <1>6
<1>. HIDE DEF rest
<1>10. ~Contains(rest, Space)
  <2>. SUFFICES ASSUME NEW k \in 1 .. Len(rest), rest[k] = Space PROVE FALSE
    BY DEF Contains
  <2>. k \in 1 .. y
    BY <1>9
  <2>1. 1 + x + k \in 1 .. 1 + x + y /\ 1 + x + k + 1 = 2 + x + k /\ 2 + x + k \in 1 .. 2 + x + y
    BY ONLY <1>2, k \in 1 .. y
  <2>2. rest[k] = arg[1 + x + k] /\ arg[1 + x + k] = p[2 + x + k]
    BY ONLY <1>6, <1>9, <2>1, k \in 1 .. y
  <2>3. p[2 + x + k] = s[2 + x + k] /\ s[2 + x + k] = j[k]
    BY ONLY <1>3, <1>4, <2>1, k \in 1 .. y
  <2>. QED  BY ONLY <1>1, <2>2, <2>3, k \in 1 .. y, rest[k] = Space
<1>. QED  BY ONLY <1>8, <1>10, Zenon DEF GetInput, rest, arg, p

LEMMA ParseIs ==
    ASSUME NEW w \in Words, NEW t \in Seq(Bytes)
    PROVE  /\ t = <<>> => Parse(<<w>> \o t) = None
           /\ t # <<>> /\ w = "com" => Parse(<<w>> \o t) = [op |-> "com", text |-> t]
           /\ t # <<>> /\ w = "inp" => Parse(<<w>> \o t) = GetInput(t)
           /\ t = <<"cores">> /\ w = "get" => Parse(<<w>> \o t) = [op |-> "get", text |-> t]
           /\ IsNumber(t) /\ w = "del" => Parse(<<w>> \o t) = [op |-> "del", cid |-> t]
<1>. DEFINE f == <<w>> \o t
<1>1. Len(f) = 1 + Len(t) /\ f[1] = w /\ Tail(f) = t
  BY WordBytes
<1>2. (t = <<>> <=> Len(f) < 2) /\ (t # <<>> <=> Len(f) >= 2)
  BY <1>1
<1>. HIDE DEF f
<1>3. t = <<>> => Parse(f) = None
  BY ONLY <1>2 DEF Parse
<1>4. t # <<>> /\ w = "com" => Parse(f) = [op |-> "com", text |-> t]
  BY ONLY <1>1, <1>2 DEF Parse
<1>5. t # <<>> /\ w = "inp" => Parse(f) = GetInput(t)
  BY ONLY <1>1, <1>2 DEF Parse
<1>6. t # <<>> /\ t = <<"cores">> /\ w = "get" => Parse(f) = [op |-> "get", text |-> t]
  BY ONLY <1>1, <1>2 DEF Parse
<1>7. t # <<>> /\ IsNumber(t) /\ w = "del" => Parse(f) = [op |-> "del", cid |-> t]
  BY ONLY <1>1, <1>2 DEF Parse
<1>8. (t = <<"cores">> => t # <<>>) /\ (IsNumber(t) => t # <<>>)
  BY DEF IsNumber
<1>. QED  BY ONLY <1>3, <1>4, <1>5, <1>6, <1>7, <1>8 DEF f

(* Bytes that do not begin with the word of an instruction are no request.  *)
Garbage(p) == p # <<>> => p[1] \notin Words

LEMMA ParseGarbage ==
    ASSUME NEW f \in Seq(Bytes), Garbage(f)
    PROVE  Parse(f) = None
<1>1. CASE Len(f) < 2
  BY <1>1 DEF Parse
<1>2. CASE Len(f) >= 2
  <2>1. f[1] \notin Words
    BY <1>2 DEF Garbage
  <2>2. f[1] # "com" /\ f[1] # "inp" /\ f[1] # "get" /\ f[1] # "del"
    BY <2>1 DEF Words
  <2>3. ~(Len(f) < 2)
    BY <1>2
  <2>. QED  BY ONLY <2>2, <2>3 DEF Parse
<1>. QED  BY <1>1, <1>2

(* A request, or what is left of one whose text has a newline: the event is *)
(* of the same kind, with the same numbers.                                 *)
CutOf(e, q) ==
    \/ e = q
    \/ /\ q.op = "com" /\ ~OneLine(q.text)
       /\ \E t \in Seq(Bytes) : e = [op |-> "com", text |-> t]
    \/ /\ q.op = "inp" /\ ~OneLine(q.text)
       /\ \E t \in Seq(Bytes) : e = [op |-> "inp", cid |-> q.cid, jid |-> q.jid, text |-> t]

(* The part of a word and a text before a byte of the text.                 *)
LEMMA PartOfWord ==
    ASSUME NEW w \in Words, NEW t \in Seq(Bytes), NEW m \in 1 .. 1 + Len(t)
    PROVE  /\ SubSeq(<<w>> \o t, 1, m) = <<w>> \o SubSeq(t, 1, m - 1)
           /\ SubSeq(t, 1, m - 1) \in Seq(Bytes)
<1>. DEFINE f == <<w>> \o t
            p == SubSeq(f, 1, m)
            u == SubSeq(t, 1, m - 1)
            g == <<w>> \o u
<1>1. /\ f \in Seq(Bytes) /\ Len(f) = 1 + Len(t) /\ f[1] = w
      /\ \A k \in 1 .. Len(t) : f[1 + k] = t[k]
  BY WordBytes
<1>. HIDE DEF f
<1>2. Len(t) \in Nat /\ m \in 1 .. 1 + Len(t)
  OBVIOUS
<1>3. p \in Seq(Bytes) /\ Len(p) = m /\ \A k \in 1 .. m : p[k] = f[k]
  BY ONLY <1>1, <1>2
<1>4. u \in Seq(Bytes) /\ Len(u) = m - 1 /\ \A k \in 1 .. m - 1 : u[k] = t[k]
  BY ONLY <1>2, t \in Seq(Bytes)
<1>. HIDE DEF p, u
<1>5. /\ g \in Seq(Bytes) /\ Len(g) = 1 + Len(u) /\ g[1] = w
      /\ \A k \in 1 .. Len(u) : g[1 + k] = u[k]
  BY <1>4, WordBytes
<1>. HIDE DEF g
<1>6. ASSUME NEW k \in 1 .. m PROVE p[k] = g[k]
  <2>1. CASE k = 1
    BY ONLY <1>1, <1>2, <1>3, <1>5, <2>1
  <2>2. CASE k # 1
    <3>1. k - 1 \in 1 .. m - 1 /\ 1 + (k - 1) = k /\ k - 1 \in 1 .. Len(t)
      BY ONLY <1>2, <2>2, k \in 1 .. m
    <3>2. f[1 + (k - 1)] = t[k - 1] /\ g[1 + (k - 1)] = u[k - 1] /\ u[k - 1] = t[k - 1]
      BY ONLY <1>1, <1>4, <1>5, <3>1
    <3>. QED  BY ONLY <1>3, <3>1, <3>2, k \in 1 .. m
  <2>. QED  BY ONLY <2>1, <2>2
<1>7. p = g
  <2>1. Len(p) = Len(g)
    BY ONLY <1>2, <1>3, <1>4, <1>5
  <2>. QED  BY ONLY <1>3, <1>5, <1>6, <2>1, SameSeq
<1>. QED  BY <1>4, <1>7 DEF f, p, u, g

(* The part of an input before a byte of its text.                          *)
LEMMA PartOfInput ==
    ASSUME NEW c, NEW j, NEW t \in Seq(Bytes), NEW s, InputIs(s, c, j, t),
           Len(c) \in Nat, Len(j) \in Nat, NEW n \in 0 .. Len(t)
    PROVE  InputIs(SubSeq(s, 1, 3 + Len(c) + Len(j) + n), c, j, SubSeq(t, 1, n))
<1>. DEFINE x == Len(c)
            y == Len(j)
            m == 3 + x + y + n
            p == SubSeq(s, 1, m)
            u == SubSeq(t, 1, n)
<1>1. x \in Nat /\ y \in Nat /\ Len(t) \in Nat
  OBVIOUS
<1>2. /\ s \in Seq(Bytes) /\ Len(s) = 3 + x + y + Len(t)
      /\ s[1] = "inp"
      /\ \A k \in 1 .. x : s[1 + k] = c[k]
      /\ s[2 + x] = Space
      /\ \A k \in 1 .. y : s[2 + x + k] = j[k]
      /\ s[3 + x + y] = Space
      /\ \A k \in 1 .. Len(t) : s[3 + x + y + k] = t[k]
  BY DEF InputIs
<1>. HIDE DEF x, y
<1>3. m \in Nat /\ 1 <= m /\ m <= Len(s) /\ m = 3 + x + y + n
  BY ONLY <1>1, <1>2, n \in 0 .. Len(t)
<1>. HIDE DEF m
<1>4. p \in Seq(Bytes) /\ Len(p) = m /\ \A k \in 1 .. m : p[k] = s[k]
  <2>1. s \in Seq(Bytes)
    BY <1>2
  <2>. QED  BY ONLY <1>3, <2>1
<1>5. u \in Seq(Bytes) /\ Len(u) = n /\ \A k \in 1 .. n : u[k] = t[k]
  BY ONLY t \in Seq(Bytes), n \in 0 .. Len(t)
<1>. HIDE DEF p, u
<1>6. p[1] = "inp" /\ p[2 + x] = Space /\ p[3 + x + y] = Space
  <2>1. 1 \in 1 .. m /\ 2 + x \in 1 .. m /\ 3 + x + y \in 1 .. m
    BY ONLY <1>1, <1>3, n \in 0 .. Len(t)
  <2>. QED  BY <1>2, <1>4, <2>1
<1>7. ASSUME NEW k \in 1 .. x PROVE p[1 + k] = c[k]
  <2>1. 1 + k \in 1 .. m
    BY ONLY <1>1, <1>3, n \in 0 .. Len(t), k \in 1 .. x
  <2>. QED  BY ONLY <1>2, <1>4, <2>1, k \in 1 .. x
<1>8. ASSUME NEW k \in 1 .. y PROVE p[2 + x + k] = j[k]
  <2>1. 2 + x + k \in 1 .. m
    BY ONLY <1>1, <1>3, n \in 0 .. Len(t), k \in 1 .. y
  <2>. QED  BY ONLY <1>2, <1>4, <2>1, k \in 1 .. y
<1>9. ASSUME NEW k \in 1 .. n PROVE p[3 + x + y + k] = u[k]
  <2>1. 3 + x + y + k \in 1 .. m /\ k \in 1 .. Len(t)
    BY ONLY <1>1, <1>3, n \in 0 .. Len(t), k \in 1 .. n
  <2>. QED  BY ONLY <1>2, <1>4, <1>5, <2>1, k \in 1 .. n
<1>10. InputIs(p, c, j, u)
  <2>1. Len(p) = 3 + x + y + Len(u)
    BY ONLY <1>3, <1>4, <1>5
  <2>. QED  BY <1>4, <1>5, <1>6, <1>7, <1>8, <1>9, <2>1 DEF InputIs, x, y
<1>. QED  BY <1>10 DEF p, m, u, x, y

(* The event of the first line of a request, which ends where LF is first.  *)
LEMMA ParseLine ==
    ASSUME NEW q \in Requests, NEW i \in 1 .. Len(Instruction(q)) + 2,
           LineOf(q)[i] = "LF", \A k \in 1 .. i - 1 : LineOf(q)[k] # "LF"
    PROVE  /\ i >= 2
           /\ \/ Parse(SubSeq(LineOf(q), 1, i - 2)) = None
              \/ CutOf(Parse(SubSeq(LineOf(q), 1, i - 2)), q)
<1>. DEFINE s == Instruction(q)
            line == LineOf(q)
            e == Parse(SubSeq(line, 1, i - 2))
            n == Len(s)
<1>1. s \in Seq(Bytes) /\ n \in Nat /\ n >= 1 /\ s[1] \in Words
  BY InstructionBytes
<1>2. /\ line \in Seq(Bytes) /\ Len(line) = n + 2
      /\ \A k \in 1 .. n : line[k] = s[k]
      /\ line[n + 1] = "CR"
  <2>1. "CR" \in Bytes /\ "LF" \in Bytes
    BY DEF Bytes
  <2>2. s \in Seq(Bytes) /\ n \in Nat
    BY <1>1
  <2>. HIDE DEF s
  <2>3. line = s \o <<"CR", "LF">>
    BY DEF LineOf, s
  <2>. HIDE DEF line
  <2>. QED  BY ONLY <2>1, <2>2, <2>3 DEF n
<1>3. "LF" \notin Words /\ "LF" # "CR"
  BY DEF Words
<1>. HIDE DEF s, n, line
<1>4. i \in 1 .. n + 2 /\ line[i] = "LF"
  BY DEF n, s, line
<1>5. i # 1 /\ i # n + 1
  BY ONLY <1>1, <1>2, <1>3, <1>4
<1>6. i - 2 \in 0 .. n /\ (i - 2 = n \/ (i \in 2 .. n /\ s[i] = "LF"))
  BY ONLY <1>1, <1>2, <1>4, <1>5
<1>7. SubSeq(line, 1, i - 2) = SubSeq(s, 1, i - 2)
  <2>. DEFINE m == i - 2
              a == SubSeq(line, 1, m)
              b == SubSeq(s, 1, m)
  <2>1. m \in 0 .. n /\ m \in 0 .. Len(line)
    BY ONLY <1>1, <1>2, <1>6
  <2>. HIDE DEF m
  <2>2. a \in Seq(Bytes) /\ Len(a) = m /\ \A k \in 1 .. m : a[k] = line[k]
    BY ONLY <1>2, <2>1
  <2>3. b \in Seq(Bytes) /\ Len(b) = m /\ \A k \in 1 .. m : b[k] = s[k]
    BY ONLY <1>1, <2>1 DEF n
  <2>. HIDE DEF a, b
  <2>4. a = b
    BY ONLY <1>1, <1>2, <2>1, <2>2, <2>3, SameSeq
  <2>. QED  BY <2>4 DEF a, b, m
<1>. DEFINE m == i - 2
<1>8. e = Parse(SubSeq(s, 1, m)) /\ m \in 0 .. n /\ i >= 2
  <2>1. e = Parse(SubSeq(s, 1, m))
    BY ONLY <1>7, Zenon
  <2>2. m \in 0 .. n
    BY ONLY <1>6
  <2>3. i >= 2
    BY ONLY <1>1, <1>4, <1>5
  <2>. QED  BY ONLY <2>1, <2>2, <2>3
<1>. HIDE DEF e, m
<1>9. CASE m = 0
  <2>1. SubSeq(s, 1, m) \in Seq(Bytes) /\ Len(SubSeq(s, 1, m)) = 0
    BY ONLY <1>1, <1>9
  <2>2. Garbage(SubSeq(s, 1, m))
    BY ONLY <2>1 DEF Garbage
  <2>3. e = None
    BY ONLY <1>8, <2>1, <2>2, ParseGarbage
  <2>. QED  BY <1>8, <2>3 DEF e, line
<1>. SUFFICES ASSUME m \in 1 .. n PROVE e = None \/ CutOf(e, q)
  <2>1. m = 0 \/ m \in 1 .. n
    BY ONLY <1>1, <1>8
  <2>. QED  BY <1>8, <1>9, <2>1, Zenon DEF e, line
(* Words with one text behind.                                              *)
<1>10. ASSUME NEW w \in Words, NEW t \in Seq(Bytes), s = <<w>> \o t
       PROVE  /\ e = Parse(<<w>> \o SubSeq(t, 1, m - 1))
              /\ SubSeq(t, 1, m - 1) \in Seq(Bytes)
              /\ m - 1 \in 0 .. Len(t)
              /\ \/ m - 1 = Len(t) /\ SubSeq(t, 1, m - 1) = t
                 \/ ~OneLine(t)
  <2>1. /\ n = 1 + Len(t)
        /\ \A k \in 1 .. Len(t) : s[1 + k] = t[k]
    BY ONLY <1>10, WordBytes DEF n
  <2>2. Len(t) \in Nat /\ m \in 1 .. 1 + Len(t)
    BY ONLY <2>1, m \in 1 .. n, t \in Seq(Bytes)
  <2>3. /\ SubSeq(s, 1, m) = <<w>> \o SubSeq(t, 1, m - 1)
        /\ SubSeq(t, 1, m - 1) \in Seq(Bytes)
    BY ONLY <1>10, <2>2, PartOfWord
  <2>4. m - 1 \in 0 .. Len(t)
    BY ONLY <2>2
  <2>5. CASE m = n
    <3>1. m - 1 = Len(t)
      BY ONLY <2>1, <2>2, <2>5
    <3>2. SubSeq(t, 1, Len(t)) = t
      BY ONLY t \in Seq(Bytes)
    <3>. QED  BY ONLY <1>8, <2>3, <2>4, <3>1, <3>2
  <2>6. CASE m # n
    <3>1. i \in 2 .. n /\ s[i] = "LF"
      BY <1>6, <2>6 DEF m
    <3>2. i - 1 \in 1 .. Len(t) /\ 1 + (i - 1) = i
      BY ONLY <2>1, <2>2, <3>1
    <3>3. t[i - 1] = "LF"
      BY ONLY <2>1, <3>1, <3>2
    <3>4. ~OneLine(t)
      BY ONLY <3>2, <3>3 DEF OneLine, Contains
    <3>. QED  BY ONLY <1>8, <2>3, <2>4, <3>4
  <2>. QED  BY ONLY <2>5, <2>6
<1>11. "get" \in Words /\ "com" \in Words /\ "del" \in Words /\ "inp" \in Words
  BY DEF Words
<1>12. CASE q.op = "com"
  <2>. DEFINE t == q.text
              u == SubSeq(t, 1, m - 1)
  <2>1. t \in Commands /\ s = <<"com">> \o t /\ q = [op |-> "com", text |-> t]
    BY <1>12 DEF Requests, Instruction, s
  <2>2. t \in Seq(Bytes)
    BY <2>1, ConstantTypes
  <2>. HIDE DEF t
  <2>3. /\ e = Parse(<<"com">> \o u) /\ u \in Seq(Bytes) /\ m - 1 \in 0 .. Len(t)
        /\ u = t \/ ~OneLine(t)
    BY <1>10, <1>11, <2>1, <2>2
  <2>4. u \in Seq(Bytes)
    BY ONLY <2>3
  <2>. HIDE DEF u
  <2>5. e = None \/ e = [op |-> "com", text |-> u]
    BY ONLY <1>11, <2>3, ParseIs
  <2>. QED  BY <1>12, <2>1, <2>3, <2>4, <2>5, Zenon DEF CutOf, t
<1>13. CASE q.op = "get"
  <2>1. s = <<"get">> \o <<"cores">> /\ q = [op |-> "get", text |-> <<"cores">>]
    BY <1>13 DEF Requests, Instruction, s
  <2>2. "cores" \in Bytes /\ "cores" # "LF"
    BY DEF Bytes
  <2>3. <<"cores">> \in Seq(Bytes) /\ OneLine(<<"cores">>)
    BY ONLY <2>2 DEF OneLine, Contains
  <2>4. e = Parse(<<"get">> \o <<"cores">>)
    BY <1>10, <1>11, <2>1, <2>3
  <2>5. e = [op |-> "get", text |-> <<"cores">>]
    BY ONLY <1>11, <2>3, <2>4, ParseIs
  <2>. QED  BY <2>1, <2>5 DEF CutOf
<1>14. CASE q.op = "del"
  <2>. DEFINE t == q.cid
  <2>1. t \in Numbers /\ s = <<"del">> \o t /\ q = [op |-> "del", cid |-> t]
    BY <1>14 DEF Requests, Instruction, s
  <2>2. t \in Seq(Bytes) /\ IsNumber(t) /\ OneLine(t)
    BY <2>1, NumberBytes DEF OneLine, Contains
  <2>. HIDE DEF t
  <2>3. e = Parse(<<"del">> \o t)
    BY <1>10, <1>11, <2>1, <2>2
  <2>4. e = [op |-> "del", cid |-> t]
    BY ONLY <1>11, <2>2, <2>3, ParseIs
  <2>. QED  BY <2>1, <2>4 DEF CutOf
<1>15. CASE q.op = "inp"
  <2>. DEFINE c == q.cid
              j == q.jid
              t == q.text
              x == Len(c)
              y == Len(j)
              p == SubSeq(s, 1, m)
  <2>1. /\ c \in Numbers /\ j \in Jids /\ t \in Texts /\ s = Input(c, j, t)
        /\ q = [op |-> "inp", cid |-> c, jid |-> j, text |-> t]
    BY <1>15 DEF Requests, Instruction, Input, s
  <2>2. c \in Numbers /\ j \in Numbers /\ t \in Seq(Bytes)
    BY <2>1, ConstantTypes
  <2>3. /\ c \in Seq(Bytes) /\ j \in Seq(Bytes)
        /\ \A k \in 1 .. x : c[k] # "LF"
        /\ \A k \in 1 .. y : j[k] # "LF"
    BY <2>2, NumberBytes
  <2>4. x \in Nat /\ y \in Nat /\ Len(t) \in Nat
    BY ONLY <2>2, <2>3
  <2>. HIDE DEF c, j, t
  <2>5. InputIs(s, c, j, t)
    BY ONLY <2>1, <2>2, <2>3, InputBytes
  <2>6. n = 3 + x + y + Len(t)
    BY ONLY <2>5 DEF InputIs, n
  (* Where LF is.                                                           *)
  <2>7. m = n \/ (i \in 4 + x + y .. n /\ ~OneLine(t))
    <3>. SUFFICES ASSUME m # n PROVE i \in 4 + x + y .. n /\ ~OneLine(t)
      OBVIOUS
    <3>1. i \in 2 .. n /\ s[i] = "LF"
      BY <1>6 DEF m
    <3>2. /\ \A k \in 1 .. x : s[1 + k] = c[k]
          /\ s[2 + x] = Space
          /\ \A k \in 1 .. y : s[2 + x + k] = j[k]
          /\ s[3 + x + y] = Space
          /\ \A k \in 1 .. Len(t) : s[3 + x + y + k] = t[k]
      BY <2>5 DEF InputIs
    <3>3. Space # "LF"
      BY DEF Space
    <3>. HIDE DEF x, y
    <3>4. ~(i - 1 \in 1 .. x)
      <4>1. i - 1 \in 1 .. x => s[1 + (i - 1)] = c[i - 1] /\ c[i - 1] # "LF"
        BY ONLY <2>3, <3>2 DEF x
      <4>2. 1 + (i - 1) = i
        BY ONLY <3>1, <1>1
      <4>. QED  BY ONLY <3>1, <4>1, <4>2
    <3>5. ~(i - 2 - x \in 1 .. y)
      <4>1. i - 2 - x \in 1 .. y => s[2 + x + (i - 2 - x)] = j[i - 2 - x] /\ j[i - 2 - x] # "LF"
        BY ONLY <2>3, <3>2 DEF y
      <4>2. 2 + x + (i - 2 - x) = i
        BY ONLY <1>1, <2>4, <3>1
      <4>. QED  BY ONLY <3>1, <4>1, <4>2
    <3>6. i # 2 + x /\ i # 3 + x + y
      BY ONLY <3>1, <3>2, <3>3
    <3>7. i \in 4 + x + y .. n
      BY ONLY <1>1, <2>4, <3>1, <3>4, <3>5, <3>6
    <3>8. i - 3 - x - y \in 1 .. Len(t) /\ 3 + x + y + (i - 3 - x - y) = i
      BY ONLY <1>1, <2>4, <2>6, <3>7
    <3>9. t[i - 3 - x - y] = "LF"
      BY ONLY <3>1, <3>2, <3>8
    <3>10. ~OneLine(t)
      BY ONLY <3>8, <3>9 DEF OneLine, Contains
    <3>. QED  BY ONLY <3>7, <3>10
  <2>8. CASE m = 2 + x + y
    <3>1. GetInput(Tail(p)) = None
      BY ONLY <2>2, <2>5, <2>8, GetInputWithoutText
    <3>2. /\ p \in Seq(Bytes) /\ Len(p) = m /\ p[1] = "inp" /\ Len(p) >= 2
      <4>1. s \in Seq(Bytes) /\ s[1] = "inp" /\ m \in 1 .. n /\ m >= 2
        BY <2>4, <2>5, <2>8, m \in 1 .. n DEF InputIs
      <4>. QED  BY ONLY <4>1 DEF n
    <3>. HIDE DEF p
    <3>3. ~(Len(p) < 2)
      BY ONLY <3>2
    <3>4. Parse(p) = None
      BY ONLY <3>1, <3>2, <3>3 DEF Parse
    <3>. QED  BY ONLY <1>8, <3>4 DEF p
  <2>9. CASE m # 2 + x + y
    <3>. DEFINE k == m - 3 - x - y
                u == SubSeq(t, 1, k)
    <3>1. k \in 0 .. Len(t) /\ m = 3 + x + y + k
      <4>1. m = n \/ i \in 4 + x + y .. n
        BY ONLY <2>7
      <4>2. i = m + 2 /\ m \in 1 .. n
        BY <1>4, <1>1 DEF m
      <4>. HIDE DEF x, y
      <4>3. m \in 2 + x + y .. n
        <5>1. CASE m = n
          BY ONLY <1>1, <2>4, <2>6, <5>1
        <5>2. CASE i \in 4 + x + y .. n
          BY ONLY <1>1, <2>4, <4>2, <5>2
        <5>. QED  BY ONLY <4>1, <5>1, <5>2
      <4>. QED  BY ONLY <1>1, <2>4, <2>6, <2>9, <4>3
    <3>2. u \in Seq(Bytes)
      BY ONLY <2>2, <3>1
    <3>3. u = t \/ ~OneLine(t)
      <4>1. CASE m = n
        <5>1. k = Len(t)
          BY ONLY <2>4, <2>6, <4>1
        <5>2. SubSeq(t, 1, Len(t)) = t
          BY ONLY <2>2
        <5>. QED  BY ONLY <5>1, <5>2
      <4>. QED  BY ONLY <2>7, <4>1
    <3>. HIDE DEF k
    <3>4. InputIs(p, c, j, u)
      <4>1. InputIs(SubSeq(s, 1, 3 + Len(c) + Len(j) + k), c, j, SubSeq(t, 1, k))
        BY ONLY <2>2, <2>4, <2>5, <3>1, PartOfInput
      <4>. QED  BY ONLY <3>1, <4>1
    <3>5. GetInput(Tail(p)) = [op |-> "inp", cid |-> c, jid |-> j, text |-> u]
      BY ONLY <2>2, <3>2, <3>4, GetInputIs
    <3>6. p[1] = "inp" /\ Len(p) >= 2 /\ ~(Len(p) < 2)
      <4>1. Len(u) \in Nat
        BY ONLY <3>2
      <4>2. p[1] = "inp" /\ Len(p) = 3 + x + y + Len(u)
        BY ONLY <3>4 DEF InputIs
      <4>. HIDE DEF x, y, p, u
      <4>3. Len(p) >= 2
        BY ONLY <2>4, <4>1, <4>2
      <4>. QED  BY ONLY <4>2, <4>3, <2>4, <4>1
    <3>. HIDE DEF p, u
    <3>7. e = [op |-> "inp", cid |-> c, jid |-> j, text |-> u]
      <4>1. Parse(p) = GetInput(Tail(p))
        BY ONLY <3>6 DEF Parse
      <4>. QED  BY ONLY <1>8, <3>5, <4>1 DEF p
    <3>. QED  BY <1>15, <2>1, <3>2, <3>3, <3>7, Zenon DEF CutOf, c, j, t
  <2>. QED  BY ONLY <2>8, <2>9
<1>16. q.op \in {"get", "com", "del", "inp"}
  BY DEF Requests
<1>. QED  BY ONLY <1>12, <1>13, <1>14, <1>15, <1>16

-----------------------------------------------------------------------------
(* The bytes that are under way to the server, and what decode leaves.      *)

Begins(p, s) == \E n \in 0 .. Len(s) : p = SubSeq(s, 1, n)

(* An instruction with the end of its line; its newlines are the last byte  *)
(* and those of the text.                                                   *)
LEMMA LineBytes ==
    ASSUME NEW q \in Requests
    PROVE  /\ LineOf(q) \in Seq(Bytes)
           /\ Len(LineOf(q)) = Len(Instruction(q)) + 2 /\ Len(LineOf(q)) >= 3
           /\ LineOf(q)[1] = q.op /\ q.op \in Words
           /\ LineOf(q)[Len(LineOf(q))] = "LF"
           /\ \E a \in Nat \ {0} :
                 /\ Len(LineOf(q)) = a + Len(BodyOf(q)) + 2
                 /\ BodyOf(q) \in Seq(Bytes)
                 /\ \A k \in 1 .. a : LineOf(q)[k] # "LF"
                 /\ \A k \in 1 .. Len(BodyOf(q)) : LineOf(q)[a + k] = BodyOf(q)[k]
                 /\ LineOf(q)[a + Len(BodyOf(q)) + 1] = "CR"
<1>. DEFINE s == Instruction(q)
            line == LineOf(q)
            n == Len(s)
            t == BodyOf(q)
<1>1. s \in Seq(Bytes) /\ n \in Nat /\ s[1] = q.op /\ q.op \in Words
  BY InstructionBytes
<1>2. PICK a \in Nat \ {0} : Shape(s, a, t)
  BY InstructionBytes
<1>3. /\ line \in Seq(Bytes) /\ Len(line) = n + 2
      /\ \A k \in 1 .. n : line[k] = s[k]
      /\ line[n + 1] = "CR" /\ line[n + 2] = "LF"
  <2>1. "CR" \in Bytes /\ "LF" \in Bytes
    BY DEF Bytes
  <2>2. s \in Seq(Bytes) /\ n \in Nat
    BY <1>1
  <2>. HIDE DEF s
  <2>3. line = s \o <<"CR", "LF">>
    BY DEF LineOf, s
  <2>. HIDE DEF line
  <2>. QED  BY ONLY <2>1, <2>2, <2>3 DEF n
<1>. HIDE DEF s, line, n, t
<1>4. /\ n = a + Len(t) /\ t \in Seq(Bytes) /\ Len(t) \in Nat
      /\ \A k \in 1 .. a : s[k] # "LF"
      /\ \A k \in 1 .. Len(t) : s[a + k] = t[k]
  BY ONLY <1>2 DEF Shape, n
<1>5. \A k \in 1 .. a : line[k] # "LF"
  BY ONLY <1>1, <1>3, <1>4, a \in Nat \ {0}
<1>6. ASSUME NEW k \in 1 .. Len(t) PROVE line[a + k] = t[k]
  <2>1. a + k \in 1 .. n
    BY ONLY <1>4, a \in Nat \ {0}, k \in 1 .. Len(t)
  <2>. QED  BY ONLY <1>3, <1>4, <2>1, k \in 1 .. Len(t)
<1>7. Len(line) >= 3 /\ line[1] = q.op
  BY ONLY <1>1, <1>3, <1>4, a \in Nat \ {0}
<1>8. Len(line) = a + Len(t) + 2 /\ line[a + Len(t) + 1] = "CR" /\ line[Len(line)] = "LF"
  BY ONLY <1>3, <1>4
<1>. QED  BY ONLY <1>1, <1>3, <1>4, <1>5, <1>6, <1>7, <1>8, a \in Nat \ {0} DEF s, line, n, t

(* A text of one line leaves one newline.                                   *)
LEMMA OneLineBytes ==
    ASSUME NEW q \in Requests, OneLine(BodyOf(q)), NEW k \in 1 .. Len(LineOf(q)) - 1
    PROVE  LineOf(q)[k] # "LF"
<1>. DEFINE line == LineOf(q)
            t == BodyOf(q)
<1>1. PICK a \in Nat \ {0} :
         /\ Len(line) = a + Len(t) + 2 /\ t \in Seq(Bytes)
         /\ \A m \in 1 .. a : line[m] # "LF"
         /\ \A m \in 1 .. Len(t) : line[a + m] = t[m]
         /\ line[a + Len(t) + 1] = "CR"
  BY LineBytes
<1>2. \A m \in 1 .. Len(t) : t[m] # "LF"
  BY <1>1 DEF OneLine, Contains
<1>. HIDE DEF line, t
<1>3. k \in 1 .. Len(line) - 1 /\ Len(t) \in Nat
  BY <1>1 DEF line
<1>4. \/ k \in 1 .. a
      \/ k - a \in 1 .. Len(t) /\ a + (k - a) = k
      \/ k = a + Len(t) + 1
  BY ONLY <1>1, <1>3, a \in Nat \ {0}
<1>5. k - a \in 1 .. Len(t) => line[a + (k - a)] # "LF"
  BY ONLY <1>1, <1>2
<1>6. line[k] # "LF"
  BY ONLY <1>1, <1>4, <1>5
<1>. QED  BY <1>6 DEF line

(* A word that begins a line of a request, other than its first, begins a   *)
(* line of its text.                                                        *)
LEMMA WordsOfLine ==
    ASSUME NEW q \in Requests, NEW k \in 2 .. Len(LineOf(q)),
           LineOf(q)[k - 1] = "LF", LineOf(q)[k] \in Words
    PROVE  q.op # "del" /\ LineOf(q)[k] \in LineWords(q.text)
<1>. DEFINE line == LineOf(q)
            t == BodyOf(q)
<1>1. PICK a \in Nat \ {0} :
         /\ Len(line) = a + Len(t) + 2 /\ t \in Seq(Bytes)
         /\ \A m \in 1 .. a : line[m] # "LF"
         /\ \A m \in 1 .. Len(t) : line[a + m] = t[m]
         /\ line[a + Len(t) + 1] = "CR"
  BY LineBytes
<1>2. k \in 2 .. Len(line) /\ line[k - 1] = "LF" /\ line[k] \in Words
  OBVIOUS
<1>. HIDE DEF line, t
<1>3. Len(t) \in Nat /\ "CR" \notin Words /\ "CR" # "LF" /\ k \in Nat
  BY <1>1 DEF Words
<1>4. ~(k - 1 \in 1 .. a) /\ k - 1 # a + Len(t) + 1 /\ k # a + Len(t) + 1
  BY ONLY <1>1, <1>2, <1>3
<1>5. /\ k - a \in 2 .. Len(t) /\ k - 1 - a \in 1 .. Len(t) /\ (k - a) - 1 = k - 1 - a
      /\ a + (k - a) = k /\ a + (k - 1 - a) = k - 1
  BY ONLY <1>1, <1>2, <1>3, <1>4, a \in Nat \ {0}
<1>6. line[a + (k - a)] = t[k - a] /\ line[a + (k - 1 - a)] = t[k - 1 - a]
  BY ONLY <1>1, <1>5
<1>7. t[k - a] = line[k] /\ t[(k - a) - 1] = "LF"
  BY ONLY <1>2, <1>5, <1>6
<1>8. t[k - a] \in LineWords(t)
  BY ONLY <1>2, <1>5, <1>7 DEF LineWords
<1>9. q.op # "del" /\ t = q.text
  <2>1. t # <<>>
    BY ONLY <1>5
  <2>. QED  BY <2>1 DEF t, BodyOf
<1>. QED  BY <1>7, <1>8, <1>9 DEF line

-----------------------------------------------------------------------------
(* What unescape makes of what escape has made of a text.                   *)

(* The backslashes that are taken with the character before them ...        *)
TakenIn(taken, text) ==
    /\ taken \in [0 .. Len(text) -> BOOLEAN]
    /\ \A i \in 0 .. Len(text) :
          taken[i] <=> i > 0 /\ i - 1 > 0 /\ text[i - 1] = "BS" /\ ~taken[i - 1]

(* ... and what becomes of the character at i.                              *)
PartOf(text, taken, i) ==
    CASE taken[i] /\ text[i] = "BS"  -> <<"BS">>
      [] taken[i] /\ text[i] = "n"   -> <<"LF">>
      [] taken[i] /\ text[i] \notin {"BS", "n"} -> <<"BS", text[i]>>
      [] ~taken[i] /\ text[i] = "BS" /\ i < Len(text) -> <<>>
      [] OTHER -> <<text[i]>>

LEMMA UnescapeIs ==
    ASSUME NEW text \in Seq(Bytes)
    PROVE  \E taken : /\ TakenIn(taken, text)
                      /\ Unescape(text) = FlattenSeq([i \in 1 .. Len(text) |-> PartOf(text, taken, i)])
<1>. DEFINE n == Len(text)
            e(f, i) == i > 0 /\ i - 1 > 0 /\ text[i - 1] = "BS" /\ ~f[i - 1]
            F == CHOOSE f : f = [i \in 0 .. n |-> e(f, i)]
            h == [i \in 1 .. n |-> [v \in BOOLEAN |-> i - 1 > 0 /\ text[i - 1] = "BS" /\ ~v]]
<1>1. n \in Nat /\ h \in [1 .. n -> [BOOLEAN -> BOOLEAN]]
  OBVIOUS
<1>2. PICK g \in [0 .. n -> BOOLEAN] : g[0] = FALSE /\ \A i \in 1 .. n : g[i] = h[i][g[i - 1]]
  <2>. HIDE DEF h, n
  <2>. DEFINE V == BOOLEAN
              v == FALSE
  <2>1. v \in V /\ n \in Nat /\ h \in [1 .. n -> [V -> V]]
    BY <1>1
  <2>. HIDE DEF V, v
  <2>2. \E g \in [0 .. n -> V] : g[0] = v /\ \A i \in 1 .. n : g[i] = h[i][g[i - 1]]
    BY ONLY <2>1, Recursion
  <2>. QED  BY <2>2 DEF V, v
<1>3. ASSUME NEW i \in 0 .. n PROVE g[i] = e(g, i)
  <2>1. CASE i = 0
    BY <1>2, <2>1
  <2>2. CASE i # 0
    <3>1. i \in 1 .. n /\ g[i - 1] \in BOOLEAN /\ i > 0
      BY <1>1, <1>2, <2>2
    <3>2. h[i][g[i - 1]] = (i - 1 > 0 /\ text[i - 1] = "BS" /\ ~g[i - 1])
      BY <3>1
    <3>. QED  BY <1>2, <3>1, <3>2
  <2>. QED  BY <2>1, <2>2
<1>4. g = [i \in 0 .. n |-> e(g, i)]
  <2>. HIDE DEF e, n
  <2>. QED  BY <1>2, <1>3
<1>5. F = [i \in 0 .. n |-> e(F, i)]
  <2>. HIDE DEF e, n
  <2>. QED  BY <1>4, Zenon
<1>6. TakenIn(F, text)
  <2>1. \A i \in 0 .. n : F[i] = e(F, i)
    <3>. HIDE DEF F, e, n
    <3>. QED  BY <1>5, Zenon
  <2>2. F \in [0 .. n -> BOOLEAN]
    <3>1. \A i \in 0 .. n : e(F, i) \in BOOLEAN
      OBVIOUS
    <3>. HIDE DEF F, e, n
    <3>. QED  BY <1>5, <3>1
  <2>. HIDE DEF F
  <2>. QED  BY <2>1, <2>2 DEF TakenIn
<1>7. Unescape(text) = FlattenSeq([i \in 1 .. Len(text) |-> PartOf(text, F, i)])
  BY ZenonT(30) DEF Unescape, PartOf
<1>. HIDE DEF F
<1>. QED  BY ONLY <1>6, <1>7, Zenon

LEMMA PartBytes ==
    ASSUME NEW text \in Seq(Bytes), NEW taken, TakenIn(taken, text), NEW i \in 1 .. Len(text)
    PROVE  PartOf(text, taken, i) \in Seq(Bytes)
<1>1. text[i] \in Bytes /\ "BS" \in Bytes /\ "LF" \in Bytes
  BY DEF Bytes
<1>2. \A a, b \in Bytes : <<a>> \in Seq(Bytes) /\ <<a, b>> \in Seq(Bytes) /\ <<>> \in Seq(Bytes)
  OBVIOUS
<1>. QED  BY ONLY <1>1, <1>2, Zenon DEF PartOf

(* A text that is longer takes the same.                                    *)
LEMMA TakenSame ==
    ASSUME NEW e \in Seq(Bytes), NEW d \in Seq(Bytes), Len(d) >= Len(e),
           \A i \in 1 .. Len(e) : d[i] = e[i],
           NEW f, TakenIn(f, e), NEW g, TakenIn(g, d)
    PROVE  \A i \in 0 .. Len(e) : f[i] = g[i]
<1>. DEFINE n == Len(e)
            T == {i \in 0 .. n : f[i] = g[i]}
<1>1. n \in Nat /\ Len(d) \in Nat
  OBVIOUS
<1>2. ASSUME NEW i \in 0 .. n PROVE f[i] \in BOOLEAN /\ g[i] \in BOOLEAN /\ i \in 0 .. Len(d)
  BY <1>1 DEF TakenIn
<1>3. 0 \in T
  <2>1. ~f[0] /\ ~g[0]
    BY <1>1, <1>2 DEF TakenIn
  <2>. QED  BY <1>1, <1>2, <2>1
<1>4. ASSUME NEW i \in 1 .. n, i - 1 \in T PROVE i \in T
  <2>1. f[i - 1] = g[i - 1] /\ i \in 0 .. n
    BY <1>1, <1>4
  <2>2. i - 1 > 0 => e[i - 1] = d[i - 1]
    BY <1>1
  <2>3. f[i] <=> i > 0 /\ i - 1 > 0 /\ e[i - 1] = "BS" /\ ~f[i - 1]
    BY <2>1 DEF TakenIn
  <2>4. g[i] <=> i > 0 /\ i - 1 > 0 /\ d[i - 1] = "BS" /\ ~g[i - 1]
    BY <1>2, <2>1 DEF TakenIn
  <2>5. f[i] <=> g[i]
    BY ONLY <2>1, <2>2, <2>3, <2>4
  <2>6. f[i] = g[i]
    BY <1>2, <2>1, <2>5
  <2>. QED  BY <2>1, <2>6
<1>5. \A i \in 0 .. n : i \in T
  <2>. HIDE DEF T
  <2>. QED  BY <1>1, <1>3, <1>4, Induction, Zenon
<1>. QED  BY <1>5

(* Unescape of a text that goes on with a character ...                     *)
LEMMA UnescapeNext ==
    ASSUME NEW e \in Seq(Bytes), e # <<>> => e[Len(e)] # "BS",
           NEW c \in Bytes, c # "BS"
    PROVE  Unescape(Append(e, c)) = Append(Unescape(e), c)
<1>. DEFINE n == Len(e)
            d == Append(e, c)
<1>1. n \in Nat /\ (n > 0 => e[n] # "BS")
  OBVIOUS
<1>2. d \in Seq(Bytes) /\ Len(d) = n + 1 /\ d[n + 1] = c /\ \A i \in 1 .. n : d[i] = e[i]
  BY AppendProperties
<1>. HIDE DEF n, d
<1>3. PICK f : TakenIn(f, e) /\ Unescape(e) = FlattenSeq([i \in 1 .. n |-> PartOf(e, f, i)])
  BY UnescapeIs DEF n
<1>4. PICK g : TakenIn(g, d) /\ Unescape(d) = FlattenSeq([i \in 1 .. n + 1 |-> PartOf(d, g, i)])
  BY <1>2, UnescapeIs
<1>. DEFINE s == [i \in 1 .. n |-> PartOf(e, f, i)]
            t == [i \in 1 .. n + 1 |-> PartOf(d, g, i)]
<1>5. \A i \in 0 .. n : f[i] = g[i]
  BY <1>1, <1>2, <1>3, <1>4, TakenSame DEF n
<1>6. s \in [1 .. n -> Seq(Bytes)] /\ t \in [1 .. n + 1 -> Seq(Bytes)]
  <2>1. \A i \in 1 .. n : PartOf(e, f, i) \in Seq(Bytes)
    BY <1>3, PartBytes DEF n
  <2>2. \A i \in 1 .. n + 1 : PartOf(d, g, i) \in Seq(Bytes)
    BY <1>2, <1>4, PartBytes
  <2>. QED  BY <2>1, <2>2
<1>7. ASSUME NEW i \in 1 .. n PROVE t[i] = s[i]
  <2>1. i \in 0 .. n /\ i \in 1 .. n + 1 /\ i < n + 1 /\ (i < n <=> i # n)
    BY <1>1
  <2>2. d[i] = e[i] /\ f[i] = g[i] /\ (d[i] = "BS" => i < n)
    BY <1>1, <1>2, <1>5, <2>1
  <2>3. PartOf(d, g, i) = PartOf(e, f, i)
    BY <1>2, <2>1, <2>2 DEF PartOf, n
  <2>. QED  BY <2>1, <2>3
<1>8. t[n + 1] = <<c>>
  <2>1. n + 1 \in 0 .. Len(d) /\ n + 1 \in 1 .. n + 1 /\ n = (n + 1) - 1 /\ (n > 0 => d[n] = e[n])
    BY <1>1, <1>2
  <2>2. ~g[n + 1]
    BY <1>1, <1>4, <2>1 DEF TakenIn
  <2>3. PartOf(d, g, n + 1) = <<c>>
    BY <1>2, <2>2 DEF PartOf
  <2>. QED  BY <2>1, <2>3
<1>9. FlattenSeq(s) \in Seq(Bytes) /\ FlattenSeq(t) = FlattenSeq(s) \o t[n + 1]
  <2>. HIDE DEF s, t
  <2>. QED  BY ONLY <1>1, <1>6, <1>7, FlattenNext, Zenon
<1>10. Append(Unescape(e), c) = Unescape(e) \o <<c>>
  BY <1>3, <1>9, AppendIsConcat
<1>. QED  BY <1>3, <1>4, <1>8, <1>9, <1>10 DEF d

(* ... or with a newline that has been escaped.                             *)
LEMMA UnescapeNewline ==
    ASSUME NEW e \in Seq(Bytes), e # <<>> => e[Len(e)] # "BS"
    PROVE  Unescape(e \o <<"BS", "n">>) = Append(Unescape(e), "LF")
<1>. DEFINE n == Len(e)
            d == e \o <<"BS", "n">>
<1>1. n \in Nat /\ (n > 0 => e[n] # "BS")
  OBVIOUS
<1>2. /\ d \in Seq(Bytes) /\ Len(d) = n + 2 /\ d[n + 1] = "BS" /\ d[n + 2] = "n"
      /\ \A i \in 1 .. n : d[i] = e[i]
  <2>1. "BS" \in Bytes /\ "n" \in Bytes
    BY DEF Bytes
  <2>. QED  BY ONLY <2>1, e \in Seq(Bytes)
<1>. HIDE DEF n, d
<1>3. PICK f : TakenIn(f, e) /\ Unescape(e) = FlattenSeq([i \in 1 .. n |-> PartOf(e, f, i)])
  BY UnescapeIs DEF n
<1>4. PICK g : TakenIn(g, d) /\ Unescape(d) = FlattenSeq([i \in 1 .. n + 2 |-> PartOf(d, g, i)])
  BY <1>2, UnescapeIs
<1>. DEFINE s == [i \in 1 .. n |-> PartOf(e, f, i)]
            t == [i \in 1 .. n + 1 |-> PartOf(d, g, i)]
            u == [i \in 1 .. n + 2 |-> PartOf(d, g, i)]
<1>5. \A i \in 0 .. n : f[i] = g[i]
  BY <1>1, <1>2, <1>3, <1>4, TakenSame DEF n
<1>6. /\ s \in [1 .. n -> Seq(Bytes)] /\ t \in [1 .. n + 1 -> Seq(Bytes)]
      /\ u \in [1 .. n + 2 -> Seq(Bytes)]
  <2>1. \A i \in 1 .. n : PartOf(e, f, i) \in Seq(Bytes)
    BY <1>3, PartBytes DEF n
  <2>2. \A i \in 1 .. n + 2 : PartOf(d, g, i) \in Seq(Bytes)
    BY <1>2, <1>4, PartBytes
  <2>3. \A i \in 1 .. n + 1 : i \in 1 .. n + 2
    BY <1>1
  <2>. QED  BY <2>1, <2>2, <2>3
<1>7. ASSUME NEW i \in 1 .. n PROVE t[i] = s[i]
  <2>1. i \in 0 .. n /\ i \in 1 .. n + 1 /\ i < n + 2 /\ (i < n <=> i # n)
    BY <1>1
  <2>2. d[i] = e[i] /\ f[i] = g[i] /\ (d[i] = "BS" => i < n)
    BY <1>1, <1>2, <1>5, <2>1
  <2>3. PartOf(d, g, i) = PartOf(e, f, i)
    BY <1>2, <2>1, <2>2 DEF PartOf, n
  <2>. QED  BY <2>1, <2>3
<1>8. ~g[n + 1]
  <2>1. n + 1 \in 0 .. Len(d) /\ n = (n + 1) - 1 /\ (n > 0 => d[n] = e[n])
    BY <1>1, <1>2
  <2>. QED  BY <1>1, <1>4, <2>1 DEF TakenIn
<1>9. t[n + 1] = <<>>
  <2>1. n + 1 \in 1 .. n + 1 /\ n + 1 < Len(d)
    BY <1>1, <1>2
  <2>2. PartOf(d, g, n + 1) = <<>>
    BY <1>2, <1>8, <2>1 DEF PartOf
  <2>. QED  BY <2>1, <2>2
<1>10. u[n + 2] = <<"LF">>
  <2>1. n + 2 \in 0 .. Len(d) /\ n + 2 \in 1 .. n + 2 /\ (n + 2) - 1 = n + 1 /\ n + 2 > 0 /\ n + 1 > 0
    BY <1>1, <1>2
  <2>2. g[n + 2]
    BY <1>2, <1>4, <1>8, <2>1 DEF TakenIn
  <2>3. PartOf(d, g, n + 2) = <<"LF">>
    BY <1>2, <2>2 DEF PartOf
  <2>. QED  BY <2>1, <2>3
<1>11. /\ FlattenSeq(s) \in Seq(Bytes) /\ FlattenSeq(t) = FlattenSeq(s) \o <<>>
       /\ FlattenSeq(u) = FlattenSeq(t) \o <<"LF">>
  <2>1. \A i \in 1 .. n + 1 : u[i] = t[i]
    <3>1. \A i \in 1 .. n + 1 : i \in 1 .. n + 2
      BY <1>1
    <3>. QED  BY <3>1
  <2>2. n + 1 \in Nat /\ (n + 1) + 1 = n + 2
    BY <1>1
  <2>. HIDE DEF s, t, u
  <2>3. FlattenSeq(s) \in Seq(Bytes) /\ FlattenSeq(t) = FlattenSeq(s) \o t[n + 1]
    BY ONLY <1>1, <1>6, <1>7, FlattenNext, Zenon
  <2>4. u \in [1 .. (n + 1) + 1 -> Seq(Bytes)]
    BY <1>6, <2>2
  <2>5. FlattenSeq(u) = FlattenSeq(t) \o u[(n + 1) + 1]
    BY ONLY <1>6, <2>1, <2>2, <2>4, FlattenNext, Zenon
  <2>. QED  BY <1>9, <1>10, <2>2, <2>3, <2>5
<1>12. "LF" \in Bytes
  BY DEF Bytes
<1>13. Append(Unescape(e), "LF") = Unescape(e) \o <<"LF">>
  BY <1>3, <1>11, <1>12, AppendIsConcat
<1>14. FlattenSeq(s) \o <<>> = FlattenSeq(s)
  BY <1>11, ConcatEmptySeq
<1>. QED  BY <1>3, <1>4, <1>11, <1>13, <1>14 DEF d

EscapedByte(c) == IF c = "LF" THEN <<"BS", "n">> ELSE <<c>>

LEMMA EscapedByteIs ==
    ASSUME NEW c \in Bytes
    PROVE  /\ EscapedByte(c) \in Seq(Bytes) /\ EscapedByte(c) # <<>>
           /\ ~Contains(EscapedByte(c), "LF")
           /\ c # "BS" => EscapedByte(c)[Len(EscapedByte(c))] # "BS"
<1>1. "BS" \in Bytes /\ "n" \in Bytes
  BY DEF Bytes
<1>2. CASE c = "LF"
  <2>1. EscapedByte(c) = <<"BS", "n">>
    BY <1>2 DEF EscapedByte
  <2>. QED  BY <1>1, <2>1 DEF Contains
<1>3. CASE c # "LF"
  <2>1. EscapedByte(c) = <<c>>
    BY <1>3 DEF EscapedByte
  <2>. QED  BY <1>3, <2>1 DEF Contains
<1>. QED  BY <1>2, <1>3

LEMMA EscapeNext ==
    ASSUME NEW t \in Seq(Bytes), NEW c \in Bytes
    PROVE  /\ Escape(<<>>) = <<>>
           /\ Escape(t) \in Seq(Bytes)
           /\ Escape(Append(t, c)) = Escape(t) \o EscapedByte(c)
<1>. DEFINE n == Len(t)
            u == Append(t, c)
            w(v) == [i \in DOMAIN v |-> EscapedByte(v[i])]
<1>1. /\ n \in Nat /\ DOMAIN t = 1 .. n
      /\ u \in Seq(Bytes) /\ Len(u) = n + 1 /\ u[n + 1] = c /\ \A i \in 1 .. n : u[i] = t[i]
  BY AppendProperties
<1>. HIDE DEF n, u
<1>2. DOMAIN u = 1 .. n + 1
  BY <1>1
<1>3. \A i \in 1 .. n + 1 : EscapedByte(u[i]) \in Seq(Bytes)
  BY <1>1, EscapedByteIs
<1>4. /\ w(u) \in [1 .. n + 1 -> Seq(Bytes)]
      /\ \A i \in 1 .. n + 1 : w(u)[i] = EscapedByte(u[i])
  BY <1>2, <1>3
<1>5. \A i \in 1 .. n : EscapedByte(t[i]) \in Seq(Bytes)
  BY EscapedByteIs DEF n
<1>6. w(t) \in [1 .. n -> Seq(Bytes)] /\ \A i \in 1 .. n : w(t)[i] = EscapedByte(t[i])
  BY <1>1, <1>5
<1>7. w(<<>>) = <<>>
  OBVIOUS
<1>8. Escape(t) = FlattenSeq(w(t)) /\ Escape(u) = FlattenSeq(w(u)) /\ Escape(<<>>) = FlattenSeq(w(<<>>))
  BY Zenon DEF Escape, EscapedByte
<1>. HIDE DEF w
<1>9. (\A i \in 1 .. n : w(u)[i] = w(t)[i]) /\ w(u)[n + 1] = EscapedByte(c)
  <2>1. n + 1 \in 1 .. n + 1 /\ \A i \in 1 .. n : i \in 1 .. n + 1
    BY <1>1
  <2>. QED  BY ONLY <1>1, <1>4, <1>6, <2>1
<1>10. /\ FlattenSeq(<<>>) = <<>> /\ FlattenSeq(w(t)) \in Seq(Bytes)
       /\ FlattenSeq(w(u)) = FlattenSeq(w(t)) \o w(u)[n + 1]
  BY ONLY <1>1, <1>4, <1>6, <1>9, FlattenNext, Zenon
<1>. QED  BY <1>7, <1>8, <1>9, <1>10 DEF u

(* What a slot reads back from what the server has escaped.                 *)
Restored(u) ==
    /\ Escape(u) \in Seq(Bytes)
    /\ ~Contains(Escape(u), "LF")
    /\ ~Contains(u, "BS") => /\ Escape(u) # <<>> => Escape(u)[Len(Escape(u))] # "BS"
                             /\ Unescape(Escape(u)) = u

LEMMA EscapeRestored ==
    ASSUME NEW t \in Seq(Bytes)
    PROVE  Restored(t)
<1>. DEFINE n == Len(t)
            T == {i \in 0 .. n : Restored(SubSeq(t, 1, i))}
<1>1. n \in Nat /\ SubSeq(t, 1, 0) = <<>> /\ SubSeq(t, 1, n) = t
  OBVIOUS
<1>2. 0 \in T
  <2>1. Escape(<<>>) = <<>>
    <3>1. "n" \in Bytes /\ <<>> \in Seq(Bytes)
      BY DEF Bytes
    <3>. QED  BY ONLY <3>1, EscapeNext, Zenon
  <2>2. PICK taken : /\ TakenIn(taken, <<>>)
                     /\ Unescape(<<>>) = FlattenSeq([i \in 1 .. Len(<<>>) |-> PartOf(<<>>, taken, i)])
    <3>1. <<>> \in Seq(Bytes)
      OBVIOUS
    <3>. QED  BY ONLY <3>1, UnescapeIs, Zenon
  <2>3. [i \in 1 .. Len(<<>>) |-> PartOf(<<>>, taken, i)] = <<>>
    OBVIOUS
  <2>4. Unescape(<<>>) = <<>>
    BY <2>2, <2>3 DEF FlattenSeq
  <2>5. ~Contains(<<>>, "LF") /\ <<>> \in Seq(Bytes)
    BY DEF Contains
  <2>6. Restored(<<>>)
    BY ONLY <2>1, <2>4, <2>5 DEF Restored
  <2>7. Restored(SubSeq(t, 1, 0))
    BY ONLY <1>1, <2>6
  <2>. QED  BY <1>1, <2>7
<1>3. ASSUME NEW i \in 1 .. n, i - 1 \in T PROVE i \in T
  <2>. DEFINE u == SubSeq(t, 1, i - 1)
              v == SubSeq(t, 1, i)
              c == t[i]
  <2>1. c \in Bytes /\ u \in Seq(Bytes) /\ v = Append(u, c) /\ Restored(u)
    <3>1. i \in 1 .. Len(t) /\ i - 1 \in 0 .. n
      BY <1>1
    <3>2. c \in Bytes /\ u \in Seq(Bytes) /\ v = Append(u, c)
      BY ONLY <3>1, t \in Seq(Bytes)
    <3>. QED  BY <1>3, <3>2
  <2>. HIDE DEF u, v, c
  <2>. DEFINE e == Escape(u)
              d == EscapedByte(c)
  <2>2. /\ e \in Seq(Bytes) /\ d \in Seq(Bytes) /\ d # <<>> /\ Escape(v) = e \o d
        /\ ~Contains(d, "LF") /\ (c # "BS" => d[Len(d)] # "BS")
    BY <2>1, EscapeNext, EscapedByteIs
  <2>3. ~Contains(e, "LF") /\ (~Contains(u, "BS") => (e # <<>> => e[Len(e)] # "BS") /\ Unescape(e) = u)
    BY <2>1 DEF Restored
  <2>4. ~Contains(v, "BS") => ~Contains(u, "BS") /\ c # "BS"
    <3>1. Len(v) = Len(u) + 1 /\ v[Len(u) + 1] = c /\ \A k \in 1 .. Len(u) : v[k] = u[k]
      BY <2>1, AppendProperties
    <3>2. Len(u) \in Nat
      BY <2>1
    <3>. QED  BY ONLY <3>1, <3>2 DEF Contains
  <2>5. ~Contains(v, "BS") => Unescape(e \o d) = v
    <3>. SUFFICES ASSUME ~Contains(v, "BS") PROVE Unescape(e \o d) = v
      OBVIOUS
    <3>1. c # "BS" /\ (e # <<>> => e[Len(e)] # "BS") /\ Unescape(e) = u
      BY <2>3, <2>4
    <3>2. CASE c = "LF"
      <4>1. d = <<"BS", "n">>
        BY <3>2 DEF EscapedByte
      <4>2. Unescape(e \o <<"BS", "n">>) = Append(Unescape(e), "LF")
        BY ONLY <2>2, <3>1, UnescapeNewline, Zenon
      <4>. QED  BY <2>1, <3>1, <3>2, <4>1, <4>2
    <3>3. CASE c # "LF"
      <4>1. d = <<c>>
        BY <3>3 DEF EscapedByte
      <4>2. Append(e, c) = e \o <<c>>
        BY <2>1, <2>2, AppendIsConcat
      <4>3. Unescape(Append(e, c)) = Append(Unescape(e), c)
        BY ONLY <2>1, <2>2, <3>1, UnescapeNext, Zenon
      <4>. QED  BY <2>1, <3>1, <4>1, <4>2, <4>3
    <3>. QED  BY <3>2, <3>3
  <2>. HIDE DEF e, d
  <2>. DEFINE f == e \o d
  <2>6. /\ f \in Seq(Bytes) /\ Len(f) = Len(e) + Len(d) /\ Len(e) \in Nat /\ Len(d) \in Nat \ {0}
        /\ \A k \in 1 .. Len(e) : f[k] = e[k]
        /\ \A k \in 1 .. Len(d) : f[Len(e) + k] = d[k]
    BY <2>2
  <2>. HIDE DEF f
  <2>7. ~Contains(f, "LF")
    <3>. SUFFICES ASSUME NEW k \in 1 .. Len(f), f[k] = "LF" PROVE FALSE
      BY DEF Contains
    <3>1. k \in 1 .. Len(e) \/ (k - Len(e) \in 1 .. Len(d) /\ Len(e) + (k - Len(e)) = k)
      BY ONLY <2>6, k \in 1 .. Len(f)
    <3>. QED  BY <2>2, <2>3, <2>6, <3>1 DEF Contains
  <2>8. f[Len(f)] = d[Len(d)]
    BY <2>6
  <2>9. Restored(v)
    BY <2>2, <2>4, <2>5, <2>6, <2>7, <2>8 DEF Restored, f
  <2>. QED  BY <2>9 DEF v
<1>4. n \in T
  <2>. HIDE DEF T
  <2>1. \A i \in 0 .. n : i \in T
    BY <1>1, <1>2, <1>3, Induction, Zenon
  <2>. QED  BY <1>1, <2>1
<1>. QED  BY <1>1, <1>4

-----------------------------------------------------------------------------
(* The bytes of a reply.                                                    *)

LEMMA EscapeBytes ==
    ASSUME NEW t \in Seq(Bytes)
    PROVE  Escape(t) \in Seq(Bytes)
  BY EscapeNext, "LF" \in Bytes DEF Bytes

(* What a reply to the input j begins with.                                 *)
Answer(s, j) ==
    /\ s \in Seq(Bytes)
    /\ \/ /\ Len(s) > Len(j) /\ s[Len(j) + 1] = Space
          /\ \A k \in 1 .. Len(j) : s[k] = j[k]
       \/ Len(s) > 0 /\ s[1] = "ERR"

LEMMA AnswerGoesOn ==
    ASSUME NEW s, NEW j \in Seq(Bytes), NEW t \in Seq(Bytes), Answer(s, j)
    PROVE  Answer(s \o t, j)
<1>. DEFINE u == s \o t
<1>. SUFFICES Answer(u, j)
  OBVIOUS
<1>1. s \in Seq(Bytes)
  BY DEF Answer
<1>2. u \in Seq(Bytes) /\ Len(u) = Len(s) + Len(t) /\ \A k \in 1 .. Len(s) : u[k] = s[k]
  BY ONLY <1>1, t \in Seq(Bytes)
<1>3. Len(s) \in Nat /\ Len(t) \in Nat /\ Len(j) \in Nat
  BY ONLY <1>1, t \in Seq(Bytes), j \in Seq(Bytes)
<1>. HIDE DEF u
<1>4. CASE Len(s) > 0 /\ s[1] = "ERR"
  BY ONLY <1>2, <1>3, <1>4 DEF Answer
<1>5. CASE /\ Len(s) > Len(j) /\ s[Len(j) + 1] = Space
           /\ \A k \in 1 .. Len(j) : s[k] = j[k]
  <2>1. Len(u) > Len(j) /\ Len(j) + 1 \in 1 .. Len(s)
    BY ONLY <1>2, <1>3, <1>5
  <2>2. u[Len(j) + 1] = Space
    BY ONLY <1>2, <1>5, <2>1
  <2>3. \A k \in 1 .. Len(j) : u[k] = j[k]
    BY ONLY <1>2, <1>3, <1>5
  <2>. QED  BY ONLY <1>2, <2>1, <2>2, <2>3 DEF Answer
<1>. QED  BY <1>4, <1>5 DEF Answer

LEMMA Answered ==
    ASSUME NEW e, e.op = "inp", e.jid \in Numbers, e.text \in Seq(Bytes),
           NEW r \in Answers(e)
    PROVE  Answer(Encode(r), e.jid)
<1>. DEFINE j == e.jid
<1>1. j \in Seq(Bytes)
  BY NumberBytes
<1>2. Space \in Bytes /\ "LF" \in Bytes /\ "ERR" \in Bytes
  BY DEF Bytes
<1>3. <<Space>> \in Seq(Bytes) /\ <<"LF">> \in Seq(Bytes) /\ <<"ERR", Space>> \in Seq(Bytes)
  BY ONLY <1>2
<1>4. Answers(e) = [kind : {"output"}, jid : {j}, status : {<<"0">>, <<"1", "2">>},
                    out : Results, err : Results]
                       \cup [kind : {"error"}, jid : {j}, out : {e.text}]
  BY Zenon DEF Answers
<1>. HIDE DEF j
<1>5. CASE r \in [kind : {"error"}, jid : {j}, out : {e.text}]
  <2>. DEFINE a == <<"ERR", Space>> \o r.jid
              b == a \o <<Space>>
              c == b \o Escape(r.out)
              d == c \o <<"LF">>
  <2>1. r.kind = "error" /\ r.jid = j /\ r.out = e.text
    BY ONLY <1>5
  <2>2. Encode(r) = d
    BY <2>1, Zenon DEF Encode
  <2>3. Escape(r.out) \in Seq(Bytes)
    BY <2>1, EscapeBytes
  <2>4. Answer(<<"ERR", Space>>, j)
    BY ONLY <1>3 DEF Answer
  <2>5. Answer(a, j)
    BY ONLY <1>1, <2>1, <2>4, AnswerGoesOn
  <2>. HIDE DEF a
  <2>6. Answer(b, j)
    BY ONLY <1>1, <1>3, <2>5, AnswerGoesOn
  <2>. HIDE DEF b
  <2>7. Answer(c, j)
    BY ONLY <1>1, <2>3, <2>6, AnswerGoesOn
  <2>. HIDE DEF c
  <2>8. Answer(d, j)
    BY ONLY <1>1, <1>3, <2>7, AnswerGoesOn
  <2>. QED  BY ONLY <2>2, <2>8 DEF j
<1>6. CASE r \in [kind : {"output"}, jid : {j}, status : {<<"0">>, <<"1", "2">>},
                  out : Results, err : Results]
  <2>. DEFINE a == r.jid \o <<Space>>
              b == a \o r.status
              c == b \o <<"LF">>
              d == c \o Escape(r.out)
              f == d \o <<"LF">>
              g == f \o Escape(r.err)
              h == g \o <<"LF">>
  <2>1. /\ r.kind = "output" /\ r.jid = j /\ r.out \in Results /\ r.err \in Results
        /\ r.status \in {<<"0">>, <<"1", "2">>}
    BY ONLY <1>6
  <2>2. Encode(r) = h
    BY <2>1, Zenon DEF Encode
  <2>3. Escape(r.out) \in Seq(Bytes) /\ Escape(r.err) \in Seq(Bytes)
    BY <2>1, EscapeBytes, ConstantTypes
  <2>4. r.status \in Seq(Bytes)
    <3>1. "0" \in Bytes /\ "1" \in Bytes /\ "2" \in Bytes
      BY DEF Bytes, Digits
    <3>2. <<"0">> \in Seq(Bytes) /\ <<"1", "2">> \in Seq(Bytes)
      BY ONLY <3>1
    <3>. QED  BY ONLY <2>1, <3>2
  <2>5. Answer(a, j)
    <3>1. r.jid \in Seq(Bytes) /\ r.jid = j
      BY ONLY <1>1, <2>1
    <3>2. /\ a \in Seq(Bytes) /\ Len(a) = Len(r.jid) + 1 /\ a[Len(r.jid) + 1] = Space
          /\ \A k \in 1 .. Len(r.jid) : a[k] = r.jid[k]
      BY ONLY <1>2, <3>1
    <3>. HIDE DEF a
    <3>3. Len(a) > Len(j)
      BY ONLY <1>1, <3>1, <3>2
    <3>. QED  BY ONLY <3>1, <3>2, <3>3 DEF Answer
  <2>. HIDE DEF a
  <2>6. Answer(b, j)
    BY ONLY <1>1, <2>4, <2>5, AnswerGoesOn
  <2>. HIDE DEF b
  <2>7. Answer(c, j)
    BY ONLY <1>1, <1>3, <2>6, AnswerGoesOn
  <2>. HIDE DEF c
  <2>8. Answer(d, j)
    BY ONLY <1>1, <2>3, <2>7, AnswerGoesOn
  <2>. HIDE DEF d
  <2>9. Answer(f, j)
    BY ONLY <1>1, <1>3, <2>8, AnswerGoesOn
  <2>. HIDE DEF f
  <2>10. Answer(g, j)
    BY ONLY <1>1, <2>3, <2>9, AnswerGoesOn
  <2>. HIDE DEF g
  <2>11. Answer(h, j)
    BY ONLY <1>1, <1>3, <2>10, AnswerGoesOn
  <2>. QED  BY ONLY <2>2, <2>11 DEF j
<1>. QED  BY <1>4, <1>5, <1>6

(* A status line that is cut anywhere names the input, or none.             *)
LEMMA StatusNames ==
    ASSUME NEW j \in Numbers, NEW s, Answer(s, j), NEW m \in 0 .. Len(s),
           ParseStatus(SubSeq(s, 1, m)) # None
    PROVE  ParseStatus(SubSeq(s, 1, m)).jid = j
<1>. DEFINE line == SubSeq(s, 1, m)
            i == Position(Space, line)
            jid == SubSeq(line, 1, i - 1)
            status == SubSeq(line, i + 1, Len(line))
<1>1. /\ Contains(line, Space) /\ IsNumber(jid)
      /\ ParseStatus(line) = [jid |-> jid, status |-> status]
  <2>1. ParseStatus(line) = IF Contains(line, Space) /\ IsNumber(jid) /\ IsNumber(status)
                            THEN [jid |-> jid, status |-> status] ELSE None
    BY Zenon DEF ParseStatus
  <2>. HIDE DEF line, i, jid, status
  <2>2. ParseStatus(line) # None
    BY DEF line
  <2>. QED  BY ONLY <2>1, <2>2, Zenon
<1>2. ParseStatus(line).jid = jid
  <2>. HIDE DEF line, jid, status
  <2>. QED  BY ONLY <1>1
<1>. SUFFICES jid = j
  BY <1>2, Zenon
<1>3. s \in Seq(Bytes) /\ Len(s) \in Nat /\ m \in 0 .. Len(s)
  BY DEF Answer
<1>4. line \in Seq(Bytes) /\ Len(line) = m /\ \A k \in 1 .. m : line[k] = s[k]
  BY ONLY <1>3
<1>. HIDE DEF line
<1>5. i \in 1 .. m /\ line[i] = Space /\ \A k \in 1 .. i - 1 : line[k] # Space
  BY ONLY <1>1, <1>4, FirstPosition
<1>. HIDE DEF i
<1>6. jid \in Seq(Bytes) /\ Len(jid) = i - 1 /\ \A k \in 1 .. i - 1 : jid[k] = line[k]
  BY ONLY <1>4, <1>5, <1>3
<1>. HIDE DEF jid
<1>7. CASE Len(s) > 0 /\ s[1] = "ERR"
  <2>1. jid # <<>> /\ \A k \in 1 .. i - 1 : jid[k] \in Digits
    BY <1>1, <1>6 DEF IsNumber
  <2>2. 1 \in 1 .. i - 1
    <3>1. i - 1 # 0
      BY ONLY <1>6, <2>1
    <3>. QED  BY ONLY <1>3, <1>5, <3>1
  <2>3. jid[1] = "ERR" /\ jid[1] \in Digits
    BY ONLY <1>3, <1>4, <1>5, <1>6, <1>7, <2>1, <2>2
  <2>. QED  BY ONLY <2>3 DEF Digits
<1>8. CASE /\ Len(s) > Len(j) /\ s[Len(j) + 1] = Space
           /\ \A k \in 1 .. Len(j) : s[k] = j[k]
  <2>. DEFINE n == Len(j)
  <2>1. j \in Seq(Bytes) /\ n \in Nat /\ \A k \in 1 .. n : j[k] # Space
    BY NumberBytes
  <2>2. s[n + 1] = Space /\ \A k \in 1 .. n : s[k] = j[k]
    BY ONLY <1>8
  <2>. HIDE DEF n
  <2>3. ~(i \in 1 .. n)
    BY ONLY <1>4, <1>5, <2>1, <2>2
  <2>4. ~(n + 1 \in 1 .. i - 1)
    <3>1. n + 1 \in 1 .. i - 1 => n + 1 \in 1 .. m
      BY ONLY <1>3, <1>5, <2>1
    <3>. QED  BY ONLY <1>4, <1>5, <2>2, <3>1
  <2>5. i - 1 = n
    BY ONLY <1>3, <1>5, <2>1, <2>3, <2>4
  <2>6. \A k \in 1 .. n : jid[k] = j[k]
    <3>1. n <= m
      BY ONLY <1>3, <1>5, <2>1, <2>5
    <3>. QED  BY ONLY <1>3, <1>4, <1>6, <2>1, <2>2, <2>5, <3>1
  <2>. QED  BY ONLY <1>6, <2>1, <2>5, <2>6, SameSeq DEF n
<1>. QED  BY <1>7, <1>8 DEF Answer

LEMMA LineBegins ==
    ASSUME NEW s \in Seq(Bytes)
    PROVE  /\ LineEnd(s) \in 0 .. Len(s)
           /\ Line(s) \in Seq(Bytes) /\ Rest(s) \in Seq(Bytes)
           /\ Pop(Line(s)) \in Seq(Bytes)
           /\ \E m \in 0 .. Len(s) : Pop(Line(s)) = SubSeq(s, 1, m)
<1>1. LineEnd(s) \in 0 .. Len(s)
  BY FirstPosition DEF LineEnd
<1>. DEFINE n == LineEnd(s)
            a == SubSeq(s, 1, n)
            b == SubSeq(a, 1, n - 1)
<1>2. n \in 0 .. Len(s)
  BY <1>1
<1>. HIDE DEF n
<1>3. a \in Seq(Bytes) /\ Len(a) = n /\ \A k \in 1 .. n : a[k] = s[k]
  BY ONLY <1>2, s \in Seq(Bytes)
<1>4. SubSeq(s, n + 1, Len(s)) \in Seq(Bytes)
  BY ONLY <1>2, s \in Seq(Bytes)
<1>. HIDE DEF a
<1>5. b \in Seq(Bytes) /\ \E m \in 0 .. Len(s) : b = SubSeq(s, 1, m)
  <2>1. CASE n = 0
    <3>1. b \in Seq(Bytes) /\ Len(b) = 0
      BY ONLY <1>3, <2>1
    <3>2. SubSeq(s, 1, 0) \in Seq(Bytes) /\ Len(SubSeq(s, 1, 0)) = 0 /\ 0 \in 0 .. Len(s)
      BY ONLY s \in Seq(Bytes)
    <3>. HIDE DEF b
    <3>3. b = SubSeq(s, 1, 0)
      BY ONLY <3>1, <3>2
    <3>. QED  BY ONLY <3>1, <3>2, <3>3
  <2>2. CASE n # 0
    <3>. DEFINE c == SubSeq(s, 1, n - 1)
    <3>1. b \in Seq(Bytes) /\ Len(b) = n - 1 /\ \A k \in 1 .. n - 1 : b[k] = a[k]
      BY ONLY <1>2, <1>3, <2>2
    <3>2. c \in Seq(Bytes) /\ Len(c) = n - 1 /\ \A k \in 1 .. n - 1 : c[k] = s[k]
      BY ONLY <1>2, <2>2, s \in Seq(Bytes)
    <3>. HIDE DEF b
    <3>3. b = c
      <4>. HIDE DEF c
      <4>1. \A k \in 1 .. n - 1 : b[k] = c[k]
        BY ONLY <1>2, <1>3, <2>2, <3>1, <3>2
      <4>. QED  BY ONLY <3>1, <3>2, <4>1, SameSeq
    <3>4. n - 1 \in 0 .. Len(s)
      BY ONLY <1>2, <2>2, s \in Seq(Bytes)
    <3>. QED  BY ONLY <3>1, <3>3, <3>4
  <2>. QED  BY ONLY <2>1, <2>2
<1>6. Line(s) = a /\ Rest(s) = SubSeq(s, n + 1, Len(s)) /\ Pop(Line(s)) = b
  <2>1. Line(s) = a
    BY DEF Line, n, a
  <2>. QED  BY <1>3, <2>1 DEF Rest, Pop, n
<1>. QED  BY <1>1, <1>3, <1>4, <1>5, <1>6

(* The reply to get cores and to com, when it comes whole.                  *)
LEMMA NumberLine ==
    ASSUME NEW n \in Numbers
    PROVE  /\ n \o <<"LF">> \in Seq(Bytes)
           /\ Pop(Line(n \o <<"LF">>)) = n
           /\ Rest(n \o <<"LF">>) = <<>>
<1>. DEFINE s == n \o <<"LF">>
            x == Len(n)
            a == SubSeq(s, 1, x + 1)
            b == SubSeq(a, 1, x)
            r == SubSeq(s, x + 2, x + 1)
<1>1. n \in Seq(Bytes) /\ x \in Nat /\ \A k \in 1 .. x : n[k] # "LF"
  BY NumberBytes
<1>2. /\ s \in Seq(Bytes) /\ Len(s) = x + 1 /\ s[x + 1] = "LF"
      /\ \A k \in 1 .. x : s[k] = n[k]
  <2>1. "LF" \in Bytes /\ n \in Seq(Bytes)
    BY <1>1 DEF Bytes
  <2>. QED  BY ONLY <2>1
<1>. HIDE DEF s, x
<1>3. LineEnd(s) = x + 1
  <2>1. x + 1 \in 1 .. Len(s)
    BY ONLY <1>1, <1>2
  <2>2. \A k \in 1 .. (x + 1) - 1 : s[k] # "LF"
    BY ONLY <1>1, <1>2
  <2>3. Contains(s, "LF")
    BY ONLY <1>2, <2>1 DEF Contains
  <2>4. Position("LF", s) = x + 1
    BY ONLY <1>2, <2>1, <2>2, PositionIs
  <2>. QED  BY ONLY <2>3, <2>4 DEF LineEnd
<1>4. a \in Seq(Bytes) /\ Len(a) = x + 1 /\ \A k \in 1 .. x + 1 : a[k] = s[k]
  BY ONLY <1>1, <1>2
<1>. HIDE DEF a
<1>5. b \in Seq(Bytes) /\ Len(b) = x /\ \A k \in 1 .. x : b[k] = a[k]
  BY ONLY <1>1, <1>4
<1>6. r \in Seq(Bytes) /\ Len(r) = 0
  BY ONLY <1>1, <1>2
<1>. HIDE DEF b, r
<1>7. b = n
  <2>1. \A k \in 1 .. x : b[k] = n[k]
    BY ONLY <1>1, <1>2, <1>4, <1>5
  <2>. QED  BY ONLY <1>1, <1>5, <2>1, SameSeq DEF x
<1>8. r = <<>>
  BY ONLY <1>6
<1>9. Line(s) = a
  BY ONLY <1>3 DEF Line, a
<1>10. Pop(Line(s)) = b
  <2>1. (x + 1) - 1 = x
    BY ONLY <1>1
  <2>. QED  BY ONLY <1>4, <1>9, <2>1 DEF Pop, b
<1>11. Rest(s) = r
  <2>1. (x + 1) + 1 = x + 2
    BY ONLY <1>1
  <2>. QED  BY ONLY <1>2, <1>3, <2>1 DEF Rest, r
<1>. QED  BY ONLY <1>2, <1>7, <1>8, <1>10, <1>11 DEF s

LEMMA NoStatus ==
    ParseStatus(Pop(Line(<<>>))) = None
<1>. DEFINE p == Pop(Line(<<>>))
<1>1. <<>> \in Seq(Bytes)
  OBVIOUS
<1>2. PICK m \in 0 .. Len(<<>>) : p = SubSeq(<<>>, 1, m)
  BY ONLY <1>1, LineBegins
<1>3. Len(p) = 0
  <2>. HIDE DEF p
  <2>. QED  BY ONLY <1>2
<1>. HIDE DEF p
<1>4. ~Contains(p, Space)
  BY ONLY <1>3 DEF Contains
<1>5. ParseStatus(p) = None
  BY ONLY <1>4, Zenon DEF ParseStatus
<1>. QED  BY <1>5 DEF p

-----------------------------------------------------------------------------
(* A reply that comes whole, line by line.                                  *)

LEMMA FirstLine ==
    ASSUME NEW s \in Seq(Bytes), ~Contains(s, "LF"), NEW r \in Seq(Bytes)
    PROVE  /\ (s \o <<"LF">>) \o r \in Seq(Bytes)
           /\ Pop(Line((s \o <<"LF">>) \o r)) = s
           /\ Rest((s \o <<"LF">>) \o r) = r
<1>. DEFINE l == s \o <<"LF">>
            u == l \o r
            x == Len(s)
            y == Len(r)
            a == SubSeq(u, 1, x + 1)
            b == SubSeq(a, 1, x)
            c == SubSeq(u, x + 2, (x + 1) + y)
<1>1. x \in Nat /\ y \in Nat /\ \A k \in 1 .. x : s[k] # "LF"
  BY DEF Contains
<1>2. /\ l \in Seq(Bytes) /\ Len(l) = x + 1 /\ l[x + 1] = "LF"
      /\ \A k \in 1 .. x : l[k] = s[k]
  <2>1. "LF" \in Bytes
    BY DEF Bytes
  <2>. QED  BY ONLY <2>1, s \in Seq(Bytes)
<1>. HIDE DEF l
<1>3. /\ u \in Seq(Bytes) /\ Len(u) = (x + 1) + y
      /\ \A k \in 1 .. x + 1 : u[k] = l[k]
      /\ \A k \in 1 .. y : u[(x + 1) + k] = r[k]
  BY ONLY <1>2, r \in Seq(Bytes)
<1>. HIDE DEF u, x, y
<1>4. LineEnd(u) = x + 1
  <2>1. x + 1 \in 1 .. Len(u) /\ u[x + 1] = "LF"
    BY ONLY <1>1, <1>2, <1>3
  <2>2. \A k \in 1 .. (x + 1) - 1 : u[k] # "LF"
    BY ONLY <1>1, <1>2, <1>3
  <2>3. Contains(u, "LF")
    BY ONLY <1>3, <2>1 DEF Contains
  <2>4. Position("LF", u) = x + 1
    BY ONLY <1>3, <2>1, <2>2, PositionIs
  <2>. QED  BY ONLY <2>3, <2>4 DEF LineEnd
<1>5. a \in Seq(Bytes) /\ Len(a) = x + 1 /\ \A k \in 1 .. x + 1 : a[k] = u[k]
  BY ONLY <1>1, <1>3
<1>. HIDE DEF a
<1>6. b \in Seq(Bytes) /\ Len(b) = x /\ \A k \in 1 .. x : b[k] = a[k]
  BY ONLY <1>1, <1>5
<1>7. c \in Seq(Bytes) /\ Len(c) = y /\ \A k \in 1 .. y : c[k] = u[(x + 1) + k]
  BY ONLY <1>1, <1>3
<1>. HIDE DEF b, c
<1>8. b = s
  <2>1. \A k \in 1 .. x : b[k] = s[k]
    BY ONLY <1>1, <1>2, <1>3, <1>5, <1>6
  <2>. QED  BY ONLY <1>6, <2>1, s \in Seq(Bytes), SameSeq DEF x
<1>9. c = r
  <2>1. \A k \in 1 .. y : c[k] = r[k]
    BY ONLY <1>1, <1>3, <1>7
  <2>. QED  BY ONLY <1>7, <2>1, r \in Seq(Bytes), SameSeq DEF y
<1>10. Line(u) = a
  BY ONLY <1>4 DEF Line, a
<1>11. Pop(Line(u)) = b
  <2>1. (x + 1) - 1 = x
    BY ONLY <1>1
  <2>. QED  BY ONLY <1>5, <1>10, <2>1 DEF Pop, b
<1>12. Rest(u) = c
  <2>1. (x + 1) + 1 = x + 2
    BY ONLY <1>1
  <2>. QED  BY ONLY <1>3, <1>4, <2>1 DEF Rest, c
<1>. QED  BY ONLY <1>3, <1>8, <1>9, <1>11, <1>12 DEF u, l

LEMMA StatusIs ==
    ASSUME NEW j \in Numbers, NEW n \in Numbers
    PROVE  /\ (j \o <<Space>>) \o n \in Seq(Bytes)
           /\ ~Contains((j \o <<Space>>) \o n, "LF")
           /\ ParseStatus((j \o <<Space>>) \o n) = [jid |-> j, status |-> n]
<1>. DEFINE l == j \o <<Space>>
            u == l \o n
            x == Len(j)
            y == Len(n)
            b == SubSeq(u, 1, (x + 1) - 1)
            c == SubSeq(u, (x + 1) + 1, (x + 1) + y)
<1>1. /\ j \in Seq(Bytes) /\ n \in Seq(Bytes) /\ IsNumber(j) /\ IsNumber(n)
      /\ x \in Nat /\ y \in Nat
      /\ \A k \in 1 .. x : j[k] # "LF" /\ j[k] # Space
      /\ \A k \in 1 .. y : n[k] # "LF"
  BY NumberBytes
<1>2. /\ l \in Seq(Bytes) /\ Len(l) = x + 1 /\ l[x + 1] = Space
      /\ \A k \in 1 .. x : l[k] = j[k]
  <2>1. Space \in Bytes
    BY DEF Bytes
  <2>. QED  BY ONLY <1>1, <2>1
<1>. HIDE DEF l
<1>3. /\ u \in Seq(Bytes) /\ Len(u) = (x + 1) + y
      /\ \A k \in 1 .. x + 1 : u[k] = l[k]
      /\ \A k \in 1 .. y : u[(x + 1) + k] = n[k]
  BY ONLY <1>1, <1>2, SMTT(30)
<1>. HIDE DEF u, x, y
<1>4. Contains(u, Space) /\ Position(Space, u) = x + 1
  <2>1. x + 1 \in 1 .. Len(u) /\ u[x + 1] = Space
    BY ONLY <1>1, <1>2, <1>3
  <2>2. \A k \in 1 .. (x + 1) - 1 : u[k] # Space
    BY ONLY <1>1, <1>2, <1>3
  <2>3. Contains(u, Space)
    BY ONLY <1>3, <2>1 DEF Contains
  <2>4. Position(Space, u) = x + 1
    BY ONLY <1>3, <2>1, <2>2, PositionIs
  <2>. QED  BY ONLY <2>3, <2>4
<1>5. ~Contains(u, "LF")
  <2>1. Space # "LF"
    BY DEF Space
  <2>2. ASSUME NEW k \in 1 .. Len(u) PROVE u[k] # "LF"
    <3>1. CASE k \in 1 .. x
      BY ONLY <1>1, <1>2, <1>3, <3>1
    <3>2. CASE k = x + 1
      BY ONLY <1>1, <1>2, <1>3, <2>1, <3>2
    <3>3. CASE k \notin 1 .. x + 1
      <4>1. k - (x + 1) \in 1 .. y /\ (x + 1) + (k - (x + 1)) = k
        BY ONLY <1>1, <1>3, <3>3, k \in 1 .. Len(u)
      <4>. QED  BY ONLY <1>1, <1>3, <4>1
    <3>. QED  BY ONLY <1>1, <3>1, <3>2, <3>3
  <2>. QED  BY ONLY <1>3, <2>2 DEF Contains
<1>6. b \in Seq(Bytes) /\ Len(b) = x /\ \A k \in 1 .. x : b[k] = u[k]
  BY ONLY <1>1, <1>3
<1>7. c \in Seq(Bytes) /\ Len(c) = y /\ \A k \in 1 .. y : c[k] = u[(x + 1) + k]
  BY ONLY <1>1, <1>3
<1>. HIDE DEF b, c
<1>8. b = j
  <2>1. \A k \in 1 .. x : b[k] = j[k]
    BY ONLY <1>1, <1>2, <1>3, <1>6
  <2>. QED  BY ONLY <1>1, <1>6, <2>1, SameSeq DEF x
<1>9. c = n
  <2>1. \A k \in 1 .. y : c[k] = n[k]
    BY ONLY <1>1, <1>3, <1>7
  <2>. QED  BY ONLY <1>1, <1>7, <2>1, SameSeq DEF y
<1>10. ParseStatus(u) = IF Contains(u, Space) /\ IsNumber(b) /\ IsNumber(c)
                        THEN [jid |-> b, status |-> c] ELSE None
  <2>1. b = SubSeq(u, 1, Position(Space, u) - 1)
    BY ONLY <1>4 DEF b
  <2>2. c = SubSeq(u, Position(Space, u) + 1, Len(u))
    BY ONLY <1>3, <1>4 DEF c
  <2>. QED  BY ONLY <2>1, <2>2, Zenon DEF ParseStatus
<1>. QED  BY ONLY <1>1, <1>3, <1>4, <1>5, <1>8, <1>9, <1>10 DEF u, l

(* An error is never taken for a result.                                    *)
LEMMA ErrorHasNoStatus ==
    ASSUME NEW s \in Seq(Bytes), Len(s) > 0, s[1] = "ERR"
    PROVE  ParseStatus(Pop(Line(s))) = None
<1>. DEFINE line == Pop(Line(s))
            i == Position(Space, line)
            jid == SubSeq(line, 1, i - 1)
<1>1. PICK m \in 0 .. Len(s) : line = SubSeq(s, 1, m)
  BY ONLY s \in Seq(Bytes), LineBegins
<1>2. line \in Seq(Bytes) /\ Len(line) = m /\ \A k \in 1 .. m : line[k] = s[k]
  <2>. HIDE DEF line
  <2>. QED  BY ONLY <1>1, s \in Seq(Bytes)
<1>. HIDE DEF line
<1>3. ~(Contains(line, Space) /\ IsNumber(jid))
  <2>. SUFFICES ASSUME Contains(line, Space), IsNumber(jid) PROVE FALSE
    OBVIOUS
  <2>1. i \in 1 .. m /\ line[i] = Space
    BY ONLY <1>2, Contains(line, Space), FirstPosition
  <2>. HIDE DEF i
  <2>2. jid \in Seq(Bytes) /\ Len(jid) = i - 1 /\ \A k \in 1 .. i - 1 : jid[k] = line[k]
    BY ONLY <1>2, <2>1, m \in 0 .. Len(s), s \in Seq(Bytes)
  <2>. HIDE DEF jid
  <2>3. jid # <<>> /\ \A k \in 1 .. i - 1 : jid[k] \in Digits
    BY <2>2 DEF IsNumber
  <2>4. i - 1 # 0
    BY ONLY <2>2, <2>3
  <2>5. m \in Nat /\ i \in Nat
    BY ONLY <2>1, m \in 0 .. Len(s), s \in Seq(Bytes)
  <2>6. 1 \in 1 .. i - 1 /\ 1 \in 1 .. m
    BY ONLY <2>1, <2>4, <2>5
  <2>7. jid[1] = "ERR" /\ jid[1] \in Digits
    BY ONLY <1>2, <2>2, <2>3, <2>6, s[1] = "ERR"
  <2>. QED  BY ONLY <2>7 DEF Digits
<1>4. ParseStatus(line) = None
  BY ONLY <1>3, Zenon DEF ParseStatus, i, jid
<1>. QED  BY ONLY <1>4 DEF line

Statuses == {<<"0">>, <<"1", "2">>}

Outputs ==
    [kind : {"output"}, jid : Numbers, status : Statuses, out : Results, err : Results]

Errors == [kind : {"error"}, jid : Numbers, out : Seq(Bytes)]

(* What read_results makes of the bytes of a reply.                         *)
Taken(text) ==
    LET s == ParseStatus(Pop(Line(text)))
        rest == Rest(text)
    IN  IF s = None THEN None
        ELSE [jid |-> s.jid, status |-> s.status, out |-> Unescape(Pop(Line(rest))),
              err |-> Unescape(Pop(Line(Rest(rest))))]

LEMMA ErrorIsNoResult ==
    ASSUME NEW r \in Errors
    PROVE  Taken(Encode(r)) = None
<1>. DEFINE a == <<"ERR", Space>> \o r.jid
            b == a \o <<Space>>
            c == b \o Escape(r.out)
            d == c \o <<"LF">>
<1>1. r.kind = "error" /\ r.jid \in Seq(Bytes) /\ r.out \in Seq(Bytes)
  BY NumberBytes DEF Errors
<1>2. Encode(r) = d
  BY <1>1, Zenon DEF Encode
<1>3. Escape(r.out) \in Seq(Bytes)
  BY <1>1, EscapeBytes
<1>4. /\ <<Space>> \in Seq(Bytes) /\ <<"LF">> \in Seq(Bytes)
      /\ <<"ERR", Space>> \in Seq(Bytes)
  <2>1. Space \in Bytes /\ "LF" \in Bytes /\ "ERR" \in Bytes
    BY DEF Bytes
  <2>. QED  BY ONLY <2>1
<1>5. a \in Seq(Bytes) /\ Len(a) > 0 /\ a[1] = "ERR"
  <2>. DEFINE e == <<"ERR", Space>>
  <2>1. Len(e) = 2 /\ e[1] = "ERR" /\ e \in Seq(Bytes)
    BY <1>4
  <2>2. r.jid \in Seq(Bytes) /\ a = e \o r.jid
    BY <1>1
  <2>. HIDE DEF e, a
  <2>. QED  BY ONLY <2>1, <2>2
<1>. HIDE DEF a
<1>6. b \in Seq(Bytes) /\ Len(b) > 0 /\ b[1] = "ERR"
  BY ONLY <1>4, <1>5
<1>. HIDE DEF b
<1>7. c \in Seq(Bytes) /\ Len(c) > 0 /\ c[1] = "ERR"
  BY ONLY <1>3, <1>6
<1>. HIDE DEF c
<1>8. d \in Seq(Bytes) /\ Len(d) > 0 /\ d[1] = "ERR"
  BY ONLY <1>4, <1>7
<1>. HIDE DEF d
<1>9. ParseStatus(Pop(Line(d))) = None
  BY ONLY <1>8, ErrorHasNoStatus
<1>. QED  BY ONLY <1>2, <1>9, Zenon DEF Taken

LEMMA OutputIsItsResult ==
    ASSUME NEW r \in Outputs, NoBackslash(r.out \o r.err), Taken(Encode(r)) # None
    PROVE  Taken(Encode(r)) =
               [jid |-> r.jid, status |-> r.status, out |-> r.out, err |-> r.err]
<1>. DEFINE lf == <<"LF">>
            n == (r.jid \o <<Space>>) \o r.status
            x == Escape(r.out)
            y == Escape(r.err)
            rest == (x \o lf) \o ((y \o lf) \o <<>>)
            u == (n \o lf) \o rest
<1>1. /\ r.kind = "output" /\ r.jid \in Numbers /\ r.status \in Statuses
      /\ r.out \in Seq(Bytes) /\ r.err \in Seq(Bytes)
  BY ConstantTypes DEF Outputs
<1>2. r.status \in Numbers
  <2>1. "0" \in Bytes /\ "1" \in Bytes /\ "2" \in Bytes
    BY DEF Bytes, Digits
  <2>2. "0" \in Digits /\ "1" \in Digits /\ "2" \in Digits
    BY DEF Digits
  <2>3. <<"0">> \in Seq(Bytes) /\ <<"1", "2">> \in Seq(Bytes)
    BY ONLY <2>1
  <2>4. IsNumber(<<"0">>) /\ IsNumber(<<"1", "2">>)
    BY ONLY <2>2 DEF IsNumber
  <2>. QED  BY ONLY <1>1, <2>3, <2>4 DEF Statuses, Numbers
<1>3. /\ n \in Seq(Bytes) /\ ~Contains(n, "LF")
      /\ ParseStatus(n) = [jid |-> r.jid, status |-> r.status]
  BY ONLY <1>1, <1>2, StatusIs
<1>4. ~Contains(r.out, "BS") /\ ~Contains(r.err, "BS")
  <2>. DEFINE o == r.out
              e == r.err
              w == o \o e
  <2>1. ~Contains(w, "BS")
    BY DEF NoBackslash
  <2>2. o \in Seq(Bytes) /\ e \in Seq(Bytes)
    BY <1>1
  <2>. HIDE DEF o, e
  <2>3. /\ w \in Seq(Bytes) /\ Len(w) = Len(o) + Len(e) /\ Len(o) \in Nat /\ Len(e) \in Nat
        /\ \A k \in 1 .. Len(o) : w[k] = o[k]
        /\ \A k \in 1 .. Len(e) : w[Len(o) + k] = e[k]
    BY ONLY <2>2
  <2>. HIDE DEF w
  <2>4. \A k \in 1 .. Len(w) : w[k] # "BS"
    BY ONLY <2>1, <2>3 DEF Contains
  <2>5. \A k \in 1 .. Len(o) : o[k] # "BS"
    BY ONLY <2>3, <2>4
  <2>6. \A k \in 1 .. Len(e) : e[k] # "BS"
    <3>. SUFFICES ASSUME NEW k \in 1 .. Len(e) PROVE e[k] # "BS"
      OBVIOUS
    <3>1. Len(o) + k \in 1 .. Len(w)
      BY ONLY <2>3, k \in 1 .. Len(e)
    <3>. QED  BY ONLY <2>3, <2>4, <3>1, k \in 1 .. Len(e)
  <2>. QED  BY ONLY <2>2, <2>5, <2>6 DEF Contains, o, e
<1>5. /\ x \in Seq(Bytes) /\ ~Contains(x, "LF") /\ Unescape(x) = r.out
      /\ y \in Seq(Bytes) /\ ~Contains(y, "LF") /\ Unescape(y) = r.err
  BY ONLY <1>1, <1>4, EscapeRestored DEF Restored
<1>6. lf \in Seq(Bytes)
  <2>1. "LF" \in Bytes
    BY DEF Bytes
  <2>. QED  BY ONLY <2>1
<1>7. Encode(r) = (((((((r.jid \o <<Space>>) \o r.status) \o lf) \o x) \o lf) \o y) \o lf)
  BY <1>1, Zenon DEF Encode
<1>. HIDE DEF n, x, y, lf
<1>8. Encode(r) = u
  <2>1. Encode(r) = ((((n \o lf) \o x) \o lf) \o y) \o lf
    BY ONLY <1>7 DEF n
  <2>. DEFINE nl == n \o lf
              xl == x \o lf
              yl == y \o lf
  <2>2. nl \in Seq(Bytes) /\ xl \in Seq(Bytes) /\ yl \in Seq(Bytes)
    BY ONLY <1>3, <1>5, <1>6
  <2>3. ASSUME NEW p \in Seq(Bytes), NEW q \in Seq(Bytes), NEW z \in Seq(Bytes)
        PROVE  (p \o q) \o z = p \o (q \o z)
    BY ONLY p \in Seq(Bytes), q \in Seq(Bytes), z \in Seq(Bytes), ConcatProperties
  <2>4. (nl \o x) \o lf = nl \o xl
    BY <1>5, <1>6, <2>2, <2>3, ZenonT(30)
  <2>5. ((nl \o xl) \o y) \o lf = (nl \o xl) \o yl
    <3>1. nl \o xl \in Seq(Bytes)
      BY ONLY <2>2
    <3>. QED  BY <1>5, <1>6, <2>3, <3>1, Zenon
  <2>6. (nl \o xl) \o yl = nl \o (xl \o yl)
    BY <2>2, <2>3, Zenon
  <2>7. yl \o <<>> = yl
    BY ONLY <2>2, ConcatEmptySeq
  <2>8. u = nl \o (xl \o yl)
    BY ONLY <2>7
  <2>. QED  BY ONLY <2>1, <2>4, <2>5, <2>6, <2>8
<1>9. /\ (y \o lf) \o <<>> \in Seq(Bytes) /\ Pop(Line((y \o lf) \o <<>>)) = y
  <2>1. <<>> \in Seq(Bytes)
    OBVIOUS
  <2>. QED  BY ONLY <1>5, <2>1, FirstLine DEF lf
<1>10. /\ rest \in Seq(Bytes) /\ Pop(Line(rest)) = x
       /\ Rest(rest) = (y \o lf) \o <<>>
  BY ONLY <1>5, <1>9, FirstLine DEF lf
<1>. HIDE DEF rest
<1>11. Pop(Line(u)) = n /\ Rest(u) = rest
  BY ONLY <1>3, <1>10, FirstLine DEF lf
<1>. HIDE DEF u
<1>. DEFINE s == [jid |-> r.jid, status |-> r.status]
<1>13. s.jid = r.jid /\ s.status = r.status
  OBVIOUS
<1>14. ParseStatus(Pop(Line(u))) = s
  BY ONLY <1>3, <1>11
<1>. HIDE DEF s
<1>15. Taken(u) = IF s = None THEN None
                  ELSE [jid |-> s.jid, status |-> s.status, out |-> Unescape(Pop(Line(rest))),
                        err |-> Unescape(Pop(Line(Rest(rest))))]
  BY ONLY <1>11, <1>14, Zenon DEF Taken
<1>16. Unescape(Pop(Line(rest))) = r.out /\ Unescape(Pop(Line(Rest(rest)))) = r.err
  BY ONLY <1>5, <1>9, <1>10
<1>17. Taken(u) # None
  BY <1>8
<1>. QED  BY ONLY <1>8, <1>13, <1>15, <1>16, <1>17

-----------------------------------------------------------------------------
(* The lines that are under way: where they begin, and their frames.        *)

Heads(s) == {k \in 1 .. Len(s) : k = 1 \/ s[k - 1] = "LF"}

(* What is under way is put together of whole lines, while nothing is lost. *)
Whole(s) == s # <<>> => s[Len(s)] = "LF"

(* s ends with l, from k on.                                                *)
Final(s, k, l) ==
    /\ k \in 1 .. Len(s)
    /\ Len(s) = (k - 1) + Len(l)
    /\ \A m \in 1 .. Len(l) : s[(k - 1) + m] = l[m]

FirstNewline(s, i) == i \in 1 .. Len(s) /\ s[i] = "LF" /\ \A k \in 1 .. i - 1 : s[k] # "LF"

LEMMA FramesAre ==
    ASSUME NEW s \in Seq(Bytes), NEW f
    PROVE  f \in Frames(s) <=>
              \E a, b \in 1 .. Len(s) :
                 /\ a = 1 \/ s[a - 1] = "LF"
                 /\ a <= b /\ s[b] = "LF"
                 /\ \A m \in a .. b - 1 : s[m] # "LF"
                 /\ f = SubSeq(s, a, b - 2)
<1>. DEFINE is(a, b) == /\ a = 1 \/ s[a - 1] = "LF"
                        /\ a <= b /\ s[b] = "LF"
                        /\ \A m \in a .. b - 1 : s[m] # "LF"
<1>1. DOMAIN s = 1 .. Len(s)
  OBVIOUS
<1>2. Lines(s) = {l \in (1 .. Len(s)) \X (1 .. Len(s)) : is(l[1], l[2])}
  BY <1>1, Zenon DEF Lines
<1>. HIDE DEF is
<1>3. f \in Frames(s) <=> \E a, b \in 1 .. Len(s) : is(a, b) /\ f = SubSeq(s, a, b - 2)
  <2>1. ASSUME f \in Frames(s) PROVE \E a, b \in 1 .. Len(s) : is(a, b) /\ f = SubSeq(s, a, b - 2)
    <3>1. PICK l \in Lines(s) : f = SubSeq(s, l[1], l[2] - 2)
      BY <2>1, Zenon DEF Frames
    <3>2. l[1] \in 1 .. Len(s) /\ l[2] \in 1 .. Len(s) /\ is(l[1], l[2])
      BY ONLY <1>2, l \in Lines(s)
    <3>. QED  BY <3>1, <3>2, Zenon
  <2>2. ASSUME NEW a \in 1 .. Len(s), NEW b \in 1 .. Len(s), is(a, b), f = SubSeq(s, a, b - 2)
        PROVE  f \in Frames(s)
    <3>1. <<a, b>> \in Lines(s) /\ <<a, b>>[1] = a /\ <<a, b>>[2] = b
      BY ONLY <1>2, <2>2
    <3>. QED  BY ONLY <2>2, <3>1, Zenon DEF Frames
  <2>. QED  BY <2>1, <2>2
<1>. QED  BY <1>3, Zenon DEF is

LEMMA JoinBytes ==
    ASSUME NEW s \in Seq(Bytes), NEW t \in Seq(Bytes)
    PROVE  /\ s \o t \in Seq(Bytes) /\ Len(s \o t) = Len(s) + Len(t)
           /\ Len(s) \in Nat /\ Len(t) \in Nat
           /\ \A k \in 1 .. Len(s) : (s \o t)[k] = s[k]
           /\ \A k \in 1 .. Len(t) : (s \o t)[Len(s) + k] = t[k]
OBVIOUS

LEMMA PartBytesAre ==
    ASSUME NEW s \in Seq(Bytes), NEW a \in 1 .. Len(s) + 1, NEW b \in 0 .. Len(s), a <= b + 1
    PROVE  /\ SubSeq(s, a, b) \in Seq(Bytes) /\ Len(SubSeq(s, a, b)) = b - a + 1
           /\ \A k \in 1 .. b - a + 1 : SubSeq(s, a, b)[k] = s[(a - 1) + k]
OBVIOUS

(* The same part of two sequences.                                          *)
LEMMA SamePart ==
    ASSUME NEW s \in Seq(Bytes), NEW u \in Seq(Bytes), NEW d \in Nat,
           NEW a \in Nat \ {0}, NEW b \in Nat, b <= Len(s), b + d <= Len(u),
           \A k \in a .. b : u[d + k] = s[k]
    PROVE  SubSeq(u, d + a, d + b) = SubSeq(s, a, b)
<1>1. CASE b < a
  <2>1. d + b < d + a
    BY <1>1
  <2>. QED  BY <1>1, <2>1
<1>2. CASE a <= b
  <2>. DEFINE x == SubSeq(s, a, b)
              y == SubSeq(u, d + a, d + b)
              n == b - a + 1
  <2>1. x \in Seq(Bytes) /\ Len(x) = n /\ \A k \in 1 .. n : x[k] = s[(a - 1) + k]
    <3>1. a \in 1 .. Len(s) + 1 /\ b \in 0 .. Len(s) /\ a <= b + 1
      BY <1>2
    <3>. QED  BY ONLY <3>1, s \in Seq(Bytes), PartBytesAre
  <2>2. y \in Seq(Bytes) /\ Len(y) = n /\ \A k \in 1 .. n : y[k] = u[(d + a - 1) + k]
    <3>1. d + a \in 1 .. Len(u) + 1 /\ d + b \in 0 .. Len(u) /\ d + a <= d + b + 1
      BY <1>2
    <3>2. (d + b) - (d + a) + 1 = n
      OBVIOUS
    <3>. QED  BY ONLY <3>1, <3>2, u \in Seq(Bytes), PartBytesAre
  <2>3. ASSUME NEW k \in 1 .. n PROVE x[k] = y[k]
    <3>1. (a - 1) + k \in a .. b /\ d + ((a - 1) + k) = (d + a - 1) + k
      BY <1>2
    <3>2. u[(d + a - 1) + k] = s[(a - 1) + k]
      BY ONLY <3>1, \A m \in a .. b : u[d + m] = s[m]
    <3>3. x[k] = s[(a - 1) + k] /\ y[k] = u[(d + a - 1) + k]
      BY ONLY <2>1, <2>2, k \in 1 .. n
    <3>. QED  BY ONLY <3>2, <3>3
  <2>. HIDE DEF x, y, n
  <2>. QED  BY ONLY <2>1, <2>2, <2>3, SameSeq DEF x, y
<1>. QED  BY <1>1, <1>2

(* Frames of a part that begins a line are frames of the whole.             *)
LEMMA FramesOfPart ==
    ASSUME NEW s \in Seq(Bytes), NEW u \in Seq(Bytes), NEW d \in Nat, Len(s) + d <= Len(u),
           \A k \in 1 .. Len(s) : u[d + k] = s[k],
           d = 0 \/ u[d] = "LF"
    PROVE  Frames(s) \subseteq Frames(u)
<1>. SUFFICES ASSUME NEW f \in Frames(s) PROVE f \in Frames(u)
  OBVIOUS
<1>1. PICK a \in 1 .. Len(s), b \in 1 .. Len(s) :
         /\ a = 1 \/ s[a - 1] = "LF"
         /\ a <= b /\ s[b] = "LF"
         /\ \A m \in a .. b - 1 : s[m] # "LF"
         /\ f = SubSeq(s, a, b - 2)
  <2>1. f \in Frames(s)
    OBVIOUS
  <2>. QED  BY ONLY <2>1, s \in Seq(Bytes), FramesAre
<1>2. d + a \in 1 .. Len(u) /\ d + b \in 1 .. Len(u) /\ d + a <= d + b
  BY <1>1
<1>3. d + a = 1 \/ u[d + a - 1] = "LF"
  <2>1. CASE a = 1
    BY <2>1
  <2>2. CASE a # 1
    <3>1. a - 1 \in 1 .. Len(s) /\ d + (a - 1) = d + a - 1
      BY <2>2
    <3>. QED  BY ONLY <1>1, <2>2, <3>1, \A k \in 1 .. Len(s) : u[d + k] = s[k]
  <2>. QED  BY <2>1, <2>2
<1>4. u[d + b] = "LF"
  BY <1>1
<1>5. ASSUME NEW m \in d + a .. d + b - 1 PROVE u[m] # "LF"
  <2>1. m - d \in a .. b - 1 /\ m - d \in 1 .. Len(s) /\ d + (m - d) = m
    BY <1>1
  <2>2. u[m] = s[m - d]
    BY ONLY <2>1, \A k \in 1 .. Len(s) : u[d + k] = s[k]
  <2>. QED  BY ONLY <1>1, <2>1, <2>2
<1>6. f = SubSeq(u, d + a, d + b - 2)
  <2>1. CASE b = 1
    <3>1. SubSeq(s, a, b - 2) = <<>>
      BY <2>1
    <3>2. SubSeq(u, d + a, d + b - 2) = <<>>
      BY <2>1
    <3>. QED  BY <1>1, <3>1, <3>2
  <2>2. CASE b # 1
    <3>1. /\ b - 2 \in Nat /\ a \in Nat \ {0} /\ b - 2 <= Len(s) /\ (b - 2) + d <= Len(u)
          /\ d + (b - 2) = d + b - 2 /\ a .. b - 2 \subseteq 1 .. Len(s)
      BY <2>2
    <3>2. \A k \in a .. b - 2 : u[d + k] = s[k]
      BY ONLY <3>1, \A k \in 1 .. Len(s) : u[d + k] = s[k]
    <3>3. SubSeq(u, d + a, d + (b - 2)) = SubSeq(s, a, b - 2)
      BY ONLY <3>1, <3>2, s \in Seq(Bytes), u \in Seq(Bytes), d \in Nat, SamePart
    <3>. QED  BY ONLY <1>1, <3>1, <3>3
  <2>. QED  BY ONLY <2>1, <2>2
<1>. DEFINE x == d + a
            y == d + b
<1>7. /\ x \in 1 .. Len(u) /\ y \in 1 .. Len(u)
      /\ x = 1 \/ u[x - 1] = "LF"
      /\ x <= y /\ u[y] = "LF"
      /\ \A m \in x .. y - 1 : u[m] # "LF"
      /\ f = SubSeq(u, x, y - 2)
  BY ONLY <1>2, <1>3, <1>4, <1>5, <1>6
<1>. HIDE DEF x, y
<1>. QED  BY ONLY <1>7, u \in Seq(Bytes), FramesAre, Zenon

LEMMA FramesOfRest ==
    ASSUME NEW s \in Seq(Bytes), NEW i \in 1 .. Len(s), s[i] = "LF"
    PROVE  Frames(SubSeq(s, i + 1, Len(s))) \subseteq Frames(s)
<1>. DEFINE r == SubSeq(s, i + 1, Len(s))
<1>1. i + 1 \in 1 .. Len(s) + 1 /\ Len(s) \in 0 .. Len(s) /\ i + 1 <= Len(s) + 1
      /\ Len(s) - (i + 1) + 1 = Len(s) - i /\ (i + 1) - 1 = i
  OBVIOUS
<1>2. r \in Seq(Bytes) /\ Len(r) = Len(s) - i /\ \A k \in 1 .. Len(r) : s[i + k] = r[k]
  <2>1. /\ r \in Seq(Bytes) /\ Len(r) = Len(s) - (i + 1) + 1
        /\ \A k \in 1 .. Len(s) - (i + 1) + 1 : r[k] = s[((i + 1) - 1) + k]
    BY ONLY <1>1, s \in Seq(Bytes), PartBytesAre
  <2>. HIDE DEF r
  <2>. QED  BY ONLY <1>1, <2>1
<1>3. i \in Nat /\ Len(r) + i <= Len(s)
  <2>1. Len(s) \in Nat
    OBVIOUS
  <2>. HIDE DEF r
  <2>. QED  BY ONLY <1>2, <2>1, i \in 1 .. Len(s)
<1>. HIDE DEF r
<1>. QED  BY ONLY <1>2, <1>3, s \in Seq(Bytes), s[i] = "LF", FramesOfPart DEF r

(* What lines have been put behind whole ones.                              *)
LEMMA FramesOfJoin ==
    ASSUME NEW s \in Seq(Bytes), NEW t \in Seq(Bytes)
    PROVE  /\ Frames(s) \subseteq Frames(s \o t)
           /\ Whole(s) => Frames(s \o t) \subseteq Frames(s) \cup Frames(t)
<1>. DEFINE u == s \o t
            n == Len(s)
<1>1. /\ u \in Seq(Bytes) /\ Len(u) = n + Len(t) /\ n \in Nat /\ Len(t) \in Nat
      /\ \A k \in 1 .. n : u[k] = s[k]
      /\ \A k \in 1 .. Len(t) : u[n + k] = t[k]
  BY JoinBytes
<1>. HIDE DEF u
<1>2. Frames(s) \subseteq Frames(u)
  <2>1. Len(s) + 0 <= Len(u) /\ \A k \in 1 .. Len(s) : u[0 + k] = s[k]
    BY ONLY <1>1 DEF n
  <2>. QED  BY ONLY <1>1, <2>1, s \in Seq(Bytes), 0 \in Nat, FramesOfPart
<1>3. ASSUME Whole(s), NEW f \in Frames(u) PROVE f \in Frames(s) \cup Frames(t)
  <2>1. PICK a \in 1 .. Len(u), b \in 1 .. Len(u) :
           /\ a = 1 \/ u[a - 1] = "LF"
           /\ a <= b /\ u[b] = "LF"
           /\ \A m \in a .. b - 1 : u[m] # "LF"
           /\ f = SubSeq(u, a, b - 2)
    <3>1. f \in Frames(u) /\ u \in Seq(Bytes)
      BY <1>1, <1>3
    <3>. QED  BY ONLY <3>1, FramesAre
  <2>2. CASE b <= n
    <3>1. a \in 1 .. n /\ b \in 1 .. n
      BY ONLY <1>1, <2>1, <2>2
    <3>2. (a = 1 \/ s[a - 1] = "LF") /\ s[b] = "LF" /\ \A m \in a .. b - 1 : s[m] # "LF"
      <4>1. a # 1 => a - 1 \in 1 .. n
        BY ONLY <1>1, <3>1
      <4>2. a .. b - 1 \subseteq 1 .. n
        BY ONLY <1>1, <3>1
      <4>. HIDE DEF n
      <4>. QED  BY ONLY <1>1, <2>1, <3>1, <4>1, <4>2
    <3>3. SubSeq(u, a, b - 2) = SubSeq(s, a, b - 2)
      <4>1. CASE b = 1
        <5>1. SubSeq(u, a, b - 2) = <<>>
          BY ONLY <1>1, <3>1, <4>1
        <5>2. SubSeq(s, a, b - 2) = <<>>
          BY ONLY <3>1, <4>1, s \in Seq(Bytes)
        <5>. QED  BY ONLY <5>1, <5>2
      <4>2. CASE b # 1
        <5>1. /\ b - 2 \in Nat /\ a \in Nat \ {0} /\ b - 2 <= Len(s) /\ (b - 2) + 0 <= Len(u)
              /\ 0 + (b - 2) = b - 2 /\ 0 + a = a
              /\ \A k \in a .. b - 2 : u[0 + k] = s[k]
          <6>1. /\ b - 2 \in Nat /\ a \in Nat \ {0} /\ b - 2 <= Len(s) /\ (b - 2) + 0 <= Len(u)
                /\ 0 + (b - 2) = b - 2 /\ 0 + a = a
            BY ONLY <1>1, <3>1, <4>2 DEF n
          <6>2. \A k \in a .. b - 2 : k \in 1 .. n /\ 0 + k = k
            BY ONLY <1>1, <3>1
          <6>. QED  BY ONLY <1>1, <6>1, <6>2
        <5>2. SubSeq(u, 0 + a, 0 + (b - 2)) = SubSeq(s, a, b - 2)
          BY ONLY <1>1, <5>1, s \in Seq(Bytes), 0 \in Nat, SamePart
        <5>. QED  BY ONLY <5>1, <5>2
      <4>. QED  BY ONLY <4>1, <4>2
    <3>4. a \in 1 .. Len(s) /\ b \in 1 .. Len(s) /\ a <= b /\ f = SubSeq(s, a, b - 2)
      BY <2>1, <3>1, <3>3 DEF n
    <3>. QED  BY ONLY <3>2, <3>4, s \in Seq(Bytes), FramesAre, Zenon
  <2>3. CASE b > n
    <3>1. a > n
      <4>1. n \in Nat /\ a \in Nat /\ b \in Nat
        BY <1>1
      <4>2. ASSUME a <= n PROVE FALSE
        <5>1. s # <<>> /\ s[n] = "LF"
          BY <1>1, <1>3, <4>1, <4>2 DEF Whole, n
        <5>2. n \in a .. b - 1 /\ n \in 1 .. n
          BY ONLY <2>3, <4>1, <4>2, a \in 1 .. Len(u)
        <5>. QED  BY ONLY <1>1, <2>1, <5>1, <5>2
      <4>. QED  BY ONLY <4>1, <4>2
    <3>. DEFINE x == a - n
                y == b - n
    <3>2. x \in 1 .. Len(t) /\ y \in 1 .. Len(t) /\ x <= y /\ n + x = a /\ n + y = b
      BY ONLY <1>1, <2>1, <2>3, <3>1
    <3>3. x = 1 \/ t[x - 1] = "LF"
      <4>1. CASE x # 1
        <5>1. x - 1 \in 1 .. Len(t) /\ n + (x - 1) = a - 1 /\ a # 1
          BY ONLY <1>1, <3>2, <4>1
        <5>. QED  BY ONLY <1>1, <2>1, <5>1
      <4>. QED  BY <4>1
    <3>4. t[y] = "LF"
      BY ONLY <1>1, <2>1, <3>2
    <3>5. ASSUME NEW m \in x .. y - 1 PROVE t[m] # "LF"
      <4>1. n + m \in a .. b - 1 /\ m \in 1 .. Len(t)
        BY ONLY <1>1, <2>1, <3>2, m \in x .. y - 1
      <4>. QED  BY ONLY <1>1, <2>1, <4>1
    <3>6. SubSeq(u, a, b - 2) = SubSeq(t, x, y - 2)
      <4>1. CASE y = 1
        <5>1. b - 2 < a
          BY ONLY <1>1, <3>2, <4>1
        <5>2. SubSeq(u, a, b - 2) = <<>>
          BY ONLY <1>1, <5>1, a \in 1 .. Len(u), b \in 1 .. Len(u)
        <5>3. SubSeq(t, x, y - 2) = <<>>
          BY ONLY <3>2, <4>1, t \in Seq(Bytes)
        <5>. QED  BY ONLY <5>2, <5>3
      <4>2. CASE y # 1
        <5>. DEFINE z == y - 2
        <5>1. /\ z \in Nat /\ x \in Nat \ {0} /\ z <= Len(t) /\ z + n <= Len(u)
              /\ n + z = b - 2 /\ n + x = a /\ x .. z \subseteq 1 .. Len(t)
          BY ONLY <1>1, <3>2, <4>2
        <5>2. \A k \in x .. z : u[n + k] = t[k]
          BY ONLY <1>1, <5>1
        <5>3. u \in Seq(Bytes) /\ t \in Seq(Bytes) /\ n \in Nat
          BY ONLY <1>1, t \in Seq(Bytes)
        <5>. HIDE DEF n, x, y, z
        <5>4. SubSeq(u, n + x, n + z) = SubSeq(t, x, z)
          BY ONLY <5>1, <5>2, <5>3, SamePart
        <5>5. SubSeq(u, a, b - 2) = SubSeq(t, x, z)
          BY ONLY <5>1, <5>4
        <5>. QED  BY ONLY <5>5 DEF z
      <4>. QED  BY ONLY <4>1, <4>2
    <3>. HIDE DEF x, y
    <3>7. f = SubSeq(t, x, y - 2)
      BY <2>1, <3>6
    <3>8. f \in Frames(t)
      BY ONLY <3>2, <3>3, <3>4, <3>5, <3>7, t \in Seq(Bytes), FramesAre, Zenon
    <3>. QED  BY <3>8
  <2>. QED  BY ONLY <1>1, <2>2, <2>3, b \in 1 .. Len(u)
<1>. QED  BY <1>2, <1>3 DEF u

LEMMA FirstFrame ==
    ASSUME NEW s \in Seq(Bytes), NEW i, FirstNewline(s, i)
    PROVE  SubSeq(s, 1, i - 2) \in Frames(s)
<1>1. /\ i \in 1 .. Len(s) /\ s[i] = "LF" /\ \A k \in 1 .. i - 1 : s[k] # "LF"
      /\ 1 \in 1 .. Len(s) /\ 1 <= i
  BY DEF FirstNewline
<1>. DEFINE f == SubSeq(s, 1, i - 2)
<1>. HIDE DEF f
<1>. QED  BY ONLY <1>1, s \in Seq(Bytes), f = SubSeq(s, 1, i - 2), FramesAre, Zenon DEF f

LEMMA HeadsOfJoin ==
    ASSUME NEW s \in Seq(Bytes), NEW t \in Seq(Bytes)
    PROVE  /\ \A k \in Heads(s) : k \in Heads(s \o t) /\ (s \o t)[k] = s[k]
           /\ \A k \in Heads(s \o t) :
                 \/ k \in Heads(s) /\ (s \o t)[k] = s[k]
                 \/ /\ Whole(s) => k - Len(s) \in Heads(t)
                    /\ k - Len(s) \in 1 .. Len(t) /\ (s \o t)[k] = t[k - Len(s)]
           /\ (Whole(s) /\ t # <<>>) => /\ Len(s) + 1 \in Heads(s \o t)
                                        /\ Final(s \o t, Len(s) + 1, t)
<1>. DEFINE u == s \o t
            n == Len(s)
<1>1. /\ u \in Seq(Bytes) /\ Len(u) = n + Len(t) /\ n \in Nat /\ Len(t) \in Nat
      /\ \A k \in 1 .. n : u[k] = s[k]
      /\ \A k \in 1 .. Len(t) : u[n + k] = t[k]
  BY JoinBytes
<1>2. (Whole(s) /\ n # 0) => s[n] = "LF"
  BY DEF Whole
<1>3. t # <<>> => Len(t) >= 1
  OBVIOUS
<1>4. Heads(s) = {k \in 1 .. n : k = 1 \/ s[k - 1] = "LF"}
  BY DEF Heads
<1>. HIDE DEF u, n
<1>5. ASSUME NEW k \in Heads(s) PROVE k \in Heads(u) /\ u[k] = s[k]
  <2>1. k \in 1 .. n /\ (k = 1 \/ s[k - 1] = "LF")
    BY ONLY <1>4, k \in Heads(s)
  <2>2. k \in 1 .. Len(u) /\ (k # 1 => k - 1 \in 1 .. n)
    BY ONLY <1>1, <2>1
  <2>3. u[k] = s[k] /\ (k = 1 \/ u[k - 1] = "LF")
    BY ONLY <1>1, <2>1, <2>2
  <2>. QED  BY ONLY <2>2, <2>3 DEF Heads
<1>6. ASSUME NEW k \in Heads(u)
      PROVE  \/ k \in Heads(s) /\ u[k] = s[k]
             \/ /\ Whole(s) => k - n \in Heads(t)
                /\ k - n \in 1 .. Len(t) /\ u[k] = t[k - n]
  <2>1. k \in 1 .. Len(u) /\ (k = 1 \/ u[k - 1] = "LF")
    BY ONLY k \in Heads(u) DEF Heads
  <2>2. CASE k <= n
    <3>1. k \in 1 .. n /\ (k # 1 => k - 1 \in 1 .. n)
      BY ONLY <1>1, <2>1, <2>2
    <3>2. u[k] = s[k] /\ (k = 1 \/ s[k - 1] = "LF")
      BY ONLY <1>1, <2>1, <3>1
    <3>. QED  BY ONLY <1>4, <3>1, <3>2
  <2>3. CASE k > n
    <3>1. k - n \in 1 .. Len(t) /\ n + (k - n) = k
      BY ONLY <1>1, <2>1, <2>3
    <3>2. u[k] = t[k - n]
      BY ONLY <1>1, <3>1
    <3>3. ASSUME k - n # 1 PROVE t[(k - n) - 1] = "LF"
      <4>1. (k - n) - 1 \in 1 .. Len(t) /\ n + ((k - n) - 1) = k - 1 /\ k # 1
        BY ONLY <1>1, <2>1, <3>1, <3>3
      <4>. QED  BY ONLY <1>1, <2>1, <4>1
    <3>4. k - n \in Heads(t)
      BY ONLY <3>1, <3>3 DEF Heads
    <3>. QED  BY ONLY <3>1, <3>2, <3>4
  <2>. QED  BY ONLY <1>1, <2>1, <2>2, <2>3
<1>7. ASSUME Whole(s), t # <<>> PROVE n + 1 \in Heads(u) /\ Final(u, n + 1, t)
  <2>1. n + 1 \in 1 .. Len(u) /\ (n + 1) - 1 = n
    BY ONLY <1>1, <1>3, <1>7
  <2>2. n # 0 => u[(n + 1) - 1] = "LF"
    BY ONLY <1>1, <1>2, <1>7, <2>1
  <2>3. n + 1 \in Heads(u)
    BY ONLY <1>1, <2>1, <2>2 DEF Heads
  <2>4. Len(u) = ((n + 1) - 1) + Len(t) /\ \A m \in 1 .. Len(t) : u[((n + 1) - 1) + m] = t[m]
    BY ONLY <1>1, <2>1
  <2>. QED  BY ONLY <2>1, <2>3, <2>4 DEF Final
<1>. QED  BY ONLY <1>5, <1>6, <1>7 DEF u, n

LEMMA RestBytes ==
    ASSUME NEW s \in Seq(Bytes), NEW i \in 1 .. Len(s)
    PROVE  /\ SubSeq(s, i + 1, Len(s)) \in Seq(Bytes)
           /\ Len(SubSeq(s, i + 1, Len(s))) = Len(s) - i
           /\ \A k \in 1 .. Len(s) - i : SubSeq(s, i + 1, Len(s))[k] = s[i + k]
<1>. DEFINE r == SubSeq(s, i + 1, Len(s))
<1>1. i + 1 \in 1 .. Len(s) + 1 /\ Len(s) \in 0 .. Len(s) /\ i + 1 <= Len(s) + 1
      /\ Len(s) - (i + 1) + 1 = Len(s) - i /\ (i + 1) - 1 = i
  OBVIOUS
<1>2. /\ r \in Seq(Bytes) /\ Len(r) = Len(s) - (i + 1) + 1
      /\ \A k \in 1 .. Len(s) - (i + 1) + 1 : r[k] = s[((i + 1) - 1) + k]
  BY ONLY <1>1, s \in Seq(Bytes), PartBytesAre
<1>. HIDE DEF r
<1>3. r \in Seq(Bytes) /\ Len(r) = Len(s) - i /\ \A k \in 1 .. Len(s) - i : r[k] = s[i + k]
  BY ONLY <1>1, <1>2
<1>. QED  BY <1>3 DEF r

LEMMA HeadsOfRest ==
    ASSUME NEW s \in Seq(Bytes), NEW i \in 1 .. Len(s), s[i] = "LF"
    PROVE  LET r == SubSeq(s, i + 1, Len(s)) IN
           /\ \A k \in Heads(r) : i + k \in Heads(s) /\ r[k] = s[i + k]
           /\ \A k \in Heads(s) : k > i => k - i \in Heads(r) /\ r[k - i] = s[k]
           /\ \A k, l : (k > i /\ Len(l) \in Nat /\ Final(s, k, l)) => Final(r, k - i, l)
           /\ Whole(s) => Whole(r)
<1>. DEFINE r == SubSeq(s, i + 1, Len(s))
            n == Len(s)
<1>1. /\ r \in Seq(Bytes) /\ Len(r) = n - i /\ n \in Nat /\ i \in 1 .. n
      /\ \A k \in 1 .. n - i : r[k] = s[i + k]
  BY RestBytes
<1>2. Whole(s) => s[n] = "LF"
  BY DEF Whole
<1>3. Heads(s) = {k \in 1 .. n : k = 1 \/ s[k - 1] = "LF"}
  BY DEF Heads
<1>4. \A k, l : Final(s, k, l) => /\ k \in 1 .. n /\ n = (k - 1) + Len(l)
                                  /\ \A m \in 1 .. Len(l) : s[(k - 1) + m] = l[m]
  BY Zenon DEF Final, n
<1>. HIDE DEF r, n
<1>5. ASSUME NEW k \in Heads(r) PROVE i + k \in Heads(s) /\ r[k] = s[i + k]
  <2>1. k \in 1 .. Len(r) /\ (k = 1 \/ r[k - 1] = "LF")
    BY ONLY k \in Heads(r) DEF Heads
  <2>2. i + k \in 1 .. n /\ r[k] = s[i + k] /\ i + k # 1
    BY ONLY <1>1, <2>1
  <2>3. s[(i + k) - 1] = "LF"
    <3>1. CASE k = 1
      <4>1. (i + k) - 1 = i
        BY ONLY <1>1, <3>1
      <4>. QED  BY ONLY <4>1, s[i] = "LF"
    <3>2. CASE k # 1
      <4>1. k - 1 \in 1 .. n - i /\ i + (k - 1) = (i + k) - 1
        BY ONLY <1>1, <2>1, <3>2
      <4>2. r[k - 1] = s[i + (k - 1)]
        BY ONLY <1>1, <4>1
      <4>. QED  BY ONLY <2>1, <3>2, <4>1, <4>2
    <3>. QED  BY ONLY <3>1, <3>2
  <2>. QED  BY ONLY <1>3, <2>2, <2>3
<1>6. ASSUME NEW k \in Heads(s), k > i PROVE k - i \in Heads(r) /\ r[k - i] = s[k]
  <2>1. k \in 1 .. n /\ (k = 1 \/ s[k - 1] = "LF")
    BY ONLY <1>3, k \in Heads(s)
  <2>2. k - i \in 1 .. n - i /\ i + (k - i) = k /\ k # 1
    BY ONLY <1>1, <1>6, <2>1
  <2>3. r[k - i] = s[k]
    BY ONLY <1>1, <2>2
  <2>4. k - i # 1 => r[(k - i) - 1] = "LF"
    <3>. SUFFICES ASSUME k - i # 1 PROVE r[(k - i) - 1] = "LF"
      OBVIOUS
    <3>1. (k - i) - 1 \in 1 .. n - i /\ i + ((k - i) - 1) = k - 1
      BY ONLY <1>1, <2>1, <2>2, k - i # 1
    <3>2. r[(k - i) - 1] = s[i + ((k - i) - 1)]
      BY ONLY <1>1, <3>1
    <3>. QED  BY ONLY <2>1, <2>2, <3>1, <3>2
  <2>. QED  BY ONLY <1>1, <2>2, <2>3, <2>4 DEF Heads
<1>7. ASSUME NEW k, NEW l, k > i, Len(l) \in Nat, Final(s, k, l) PROVE Final(r, k - i, l)
  <2>1. k \in 1 .. n /\ n = (k - 1) + Len(l) /\ \A m \in 1 .. Len(l) : s[(k - 1) + m] = l[m]
    BY ONLY <1>4, <1>7
  <2>2. k - i \in 1 .. n - i /\ n - i = ((k - i) - 1) + Len(l)
    BY ONLY <1>1, <1>7, <2>1
  <2>3. ASSUME NEW m \in 1 .. Len(l) PROVE r[((k - i) - 1) + m] = l[m]
    <3>1. ((k - i) - 1) + m \in 1 .. n - i /\ i + (((k - i) - 1) + m) = (k - 1) + m
      BY ONLY <1>1, <1>7, <2>1, <2>2, m \in 1 .. Len(l)
    <3>2. r[((k - i) - 1) + m] = s[i + (((k - i) - 1) + m)]
      BY ONLY <1>1, <3>1
    <3>. QED  BY ONLY <2>1, <3>1, <3>2, m \in 1 .. Len(l)
  <2>. QED  BY ONLY <1>1, <2>2, <2>3 DEF Final
<1>8. ASSUME Whole(s) PROVE Whole(r)
  <2>1. CASE r = <<>>
    BY <2>1 DEF Whole
  <2>2. CASE r # <<>>
    <3>1. Len(r) # 0
      BY ONLY <1>1, <2>2
    <3>2. n - i \in 1 .. n - i /\ i + (n - i) = n
      BY ONLY <1>1, <3>1
    <3>3. r[Len(r)] = s[n]
      BY ONLY <1>1, <3>2
    <3>. QED  BY ONLY <1>2, <1>8, <3>3 DEF Whole
  <2>. QED  BY <2>1, <2>2
<1>. QED  BY <1>5, <1>6, <1>7, <1>8 DEF r

LEMMA HeadsOfLine ==
    ASSUME NEW q \in Requests
    PROVE  /\ 1 \in Heads(LineOf(q)) /\ Whole(LineOf(q)) /\ LineOf(q) # <<>>
           /\ \A k \in Heads(LineOf(q)) :
                 LineOf(q)[k] \in Words =>
                    k = 1 \/ (q.op # "del" /\ LineOf(q)[k] \in LineWords(q.text))
<1>. DEFINE l == LineOf(q)
<1>1. /\ l \in Seq(Bytes) /\ Len(l) >= 3 /\ Len(l) \in Nat /\ l[Len(l)] = "LF"
  BY LineBytes
<1>2. ASSUME NEW k \in Heads(l), l[k] \in Words, k # 1
      PROVE  q.op # "del" /\ l[k] \in LineWords(q.text)
  <2>1. k \in 2 .. Len(l) /\ l[k - 1] = "LF"
    <3>. HIDE DEF l
    <3>. QED  BY ONLY <1>1, <1>2, k \in Heads(l) DEF Heads
  <2>. QED  BY ONLY <1>2, <2>1, q \in Requests, WordsOfLine
<1>3. 1 \in Heads(l) /\ Whole(l) /\ l # <<>>
  <2>. HIDE DEF l
  <2>. QED  BY ONLY <1>1 DEF Heads, Whole
<1>. QED  BY <1>2, <1>3

LEMMA FinalIsAll ==
    ASSUME NEW s \in Seq(Bytes), NEW l \in Seq(Bytes), Final(s, 1, l)
    PROVE  s = l
<1>1. Len(s) = Len(l) /\ \A m \in 1 .. Len(l) : s[m] = l[m]
  <2>1. Len(s) = (1 - 1) + Len(l) /\ \A m \in 1 .. Len(l) : s[(1 - 1) + m] = l[m]
    BY Zenon DEF Final
  <2>2. Len(l) \in Nat
    OBVIOUS
  <2>. QED  BY ONLY <2>1, <2>2
<1>. QED  BY ONLY <1>1, s \in Seq(Bytes), l \in Seq(Bytes), SameSeq

-----------------------------------------------------------------------------
(* What the server works on.                                                *)

Events ==
    [op : {"get"}, text : {<<"cores">>, <<"comms">>}] \cup [op : {"com"}, text : Seq(Bytes)]
        \cup [op : {"del"}, cid : Numbers]
        \cup [op : {"inp"}, cid : Numbers, jid : Numbers, text : Seq(Bytes)]

LEMMA GetInputEvent ==
    ASSUME NEW arg \in Seq(Bytes), GetInput(arg) # None
    PROVE  GetInput(arg) \in Events /\ GetInput(arg).op = "inp"
<1>. DEFINE i    == Position(Space, arg)
            rest == SubSeq(arg, i + 1, Len(arg))
            k    == Position(Space, rest)
            cid  == SubSeq(arg, 1, i - 1)
            jid  == SubSeq(rest, 1, k - 1)
            text == SubSeq(rest, k + 1, Len(rest))
            e    == [op |-> "inp", cid |-> cid, jid |-> jid, text |-> text]
<1>1. /\ Contains(arg, Space) /\ Contains(rest, Space) /\ IsNumber(cid) /\ IsNumber(jid)
      /\ GetInput(arg) = e
  BY Zenon DEF GetInput
<1>2. i \in 1 .. Len(arg)
  BY <1>1, FirstPosition
<1>. HIDE DEF i
<1>3. rest \in Seq(Bytes)
  BY ONLY <1>2, arg \in Seq(Bytes), RestBytes
<1>4. cid \in Seq(Bytes)
  <2>1. 1 \in 1 .. Len(arg) + 1 /\ i - 1 \in 0 .. Len(arg) /\ 1 <= (i - 1) + 1
    BY <1>2
  <2>. QED  BY ONLY <2>1, arg \in Seq(Bytes), PartBytesAre
<1>. HIDE DEF rest, cid
<1>5. k \in 1 .. Len(rest)
  BY <1>1, <1>3, FirstPosition
<1>. HIDE DEF k
<1>6. text \in Seq(Bytes)
  BY ONLY <1>3, <1>5, RestBytes
<1>7. jid \in Seq(Bytes)
  <2>1. 1 \in 1 .. Len(rest) + 1 /\ k - 1 \in 0 .. Len(rest) /\ 1 <= (k - 1) + 1
    BY <1>3, <1>5
  <2>. QED  BY ONLY <1>3, <2>1, PartBytesAre
<1>. HIDE DEF jid, text
<1>8. cid \in Numbers /\ jid \in Numbers
  BY ONLY <1>1, <1>4, <1>7 DEF Numbers
<1>9. e \in [op : {"inp"}, cid : Numbers, jid : Numbers, text : Seq(Bytes)] /\ e.op = "inp"
  BY ONLY <1>6, <1>8
<1>. QED  BY ONLY <1>1, <1>9 DEF Events

LEMMA ParseEvent ==
    ASSUME NEW f \in Seq(Bytes), Parse(f) # None
    PROVE  /\ Parse(f) \in Events /\ Parse(f).op = f[1]
           /\ Len(f) >= 2 /\ f[1] \in Words
<1>. DEFINE arg == Tail(f)
<1>1. Len(f) >= 2
  BY DEF Parse
<1>2. arg \in Seq(Bytes)
  BY <1>1
<1>3. f[1] \in Words
  <2>1. ~Garbage(f)
    BY ParseGarbage
  <2>. QED  BY <2>1 DEF Garbage
<1>. HIDE DEF arg
<1>4. CASE f[1] = "com"
  <2>1. Parse(f) = [op |-> "com", text |-> arg]
    BY <1>1, <1>4 DEF Parse, arg
  <2>2. Parse(f) \in [op : {"com"}, text : Seq(Bytes)] /\ Parse(f).op = "com"
    BY ONLY <1>2, <2>1
  <2>. QED  BY ONLY <1>1, <1>3, <1>4, <2>2 DEF Events
<1>5. CASE f[1] = "inp"
  <2>1. Parse(f) = GetInput(arg)
    BY <1>1, <1>5 DEF Parse, arg
  <2>2. Parse(f) \in Events /\ Parse(f).op = "inp"
    BY <1>2, <2>1, GetInputEvent
  <2>. QED  BY ONLY <1>1, <1>3, <1>5, <2>2
<1>6. CASE f[1] = "get"
  <2>1. Parse(f) = [op |-> "get", text |-> arg] /\ arg \in {<<"cores">>, <<"comms">>}
    <3>1. arg \in {<<"cores">>, <<"comms">>}
      BY <1>1, <1>6 DEF Parse, arg
    <3>. QED  BY <1>1, <1>6, <3>1 DEF Parse, arg
  <2>2. /\ Parse(f) \in [op : {"get"}, text : {<<"cores">>, <<"comms">>}]
        /\ Parse(f).op = "get"
    BY ONLY <2>1
  <2>. QED  BY ONLY <1>1, <1>3, <1>6, <2>2 DEF Events
<1>7. CASE f[1] = "del"
  <2>1. Parse(f) = [op |-> "del", cid |-> arg] /\ IsNumber(arg)
    <3>1. IsNumber(arg)
      BY <1>1, <1>7 DEF Parse, arg
    <3>. QED  BY <1>1, <1>7, <3>1 DEF Parse, arg
  <2>2. Parse(f) \in [op : {"del"}, cid : Numbers] /\ Parse(f).op = "del"
    BY ONLY <1>2, <2>1 DEF Numbers
  <2>. QED  BY ONLY <1>1, <1>3, <1>7, <2>2 DEF Events
<1>. QED  BY <1>3, <1>4, <1>5, <1>6, <1>7 DEF Words

LEMMA EventKinds ==
    ASSUME NEW e \in Events
    PROVE  /\ e.op \in Words
           /\ e.op = "get" => e.text \in {<<"cores">>, <<"comms">>}
           /\ e.op = "com" => e.text \in Seq(Bytes)
           /\ e.op = "del" => e.cid \in Numbers
           /\ e.op = "inp" => e.cid \in Numbers /\ e.jid \in Numbers /\ e.text \in Seq(Bytes)
<1>1. CASE e \in [op : {"get"}, text : {<<"cores">>, <<"comms">>}]
  BY <1>1 DEF Words
<1>2. CASE e \in [op : {"com"}, text : Seq(Bytes)]
  BY <1>2 DEF Words
<1>3. CASE e \in [op : {"del"}, cid : Numbers]
  BY <1>3 DEF Words
<1>4. CASE e \in [op : {"inp"}, cid : Numbers, jid : Numbers, text : Seq(Bytes)]
  BY <1>4 DEF Words
<1>. QED  BY <1>1, <1>2, <1>3, <1>4 DEF Events

LEMMA RequestKinds ==
    ASSUME NEW q \in Requests
    PROVE  /\ q.op \in Words
           /\ q.op = "get" => q = [op |-> "get", text |-> <<"cores">>]
           /\ q.op = "com" => q.text \in Commands
           /\ q.op = "del" => q.cid \in Numbers /\ q = [op |-> "del", cid |-> q.cid]
           /\ q.op = "inp" => q.cid \in Numbers /\ q.jid \in Numbers /\ q.text \in Texts
<1>0. Jids \subseteq Numbers
  BY ConstantTypes
<1>1. CASE q \in [op : {"get"}, text : {<<"cores">>}]
  BY <1>1 DEF Words
<1>2. CASE q \in [op : {"com"}, text : Commands]
  BY <1>2 DEF Words
<1>3. CASE q \in [op : {"del"}, cid : Numbers]
  BY <1>3 DEF Words
<1>4. CASE q \in [op : {"inp"}, cid : Numbers, jid : Jids, text : Texts]
  BY <1>0, <1>4 DEF Words
<1>. QED  BY <1>1, <1>2, <1>3, <1>4 DEF Requests

(* The event of a line that begins a request is of its kind; when it is all *)
(* of the request, they are the same.                                       *)
LEMMA EventOfLine ==
    ASSUME NEW q \in Requests, NEW i, FirstNewline(LineOf(q), i),
           Parse(SubSeq(LineOf(q), 1, i - 2)) # None
    PROVE  LET e == Parse(SubSeq(LineOf(q), 1, i - 2)) IN
           /\ i >= 2
           /\ OneLine(BodyOf(q)) => e = q
           /\ q.op = "inp" => e.op = "inp" /\ e.jid = q.jid
<1>. DEFINE e == Parse(SubSeq(LineOf(q), 1, i - 2))
<1>1. i \in 1 .. Len(LineOf(q)) /\ LineOf(q)[i] = "LF" /\ \A k \in 1 .. i - 1 : LineOf(q)[k] # "LF"
  BY DEF FirstNewline
<1>2. i \in 1 .. Len(Instruction(q)) + 2
  BY <1>1, LineBytes
<1>3. i >= 2 /\ CutOf(e, q)
  BY <1>1, <1>2, ParseLine
<1>. HIDE DEF e
<1>4. OneLine(BodyOf(q)) => e = q
  <2>1. q.op # "del" => BodyOf(q) = q.text
    BY DEF BodyOf
  <2>. QED  BY <1>3, <2>1 DEF CutOf
<1>5. q.op = "inp" => e.op = "inp" /\ e.jid = q.jid
  BY <1>3 DEF CutOf
<1>. QED  BY <1>3, <1>4, <1>5 DEF e

-----------------------------------------------------------------------------
(* What the server sends, and what is left of it when it has been read.     *)

(* The first line stays what it is when more is put behind it.              *)
LEMMA FirstLineStays ==
    ASSUME NEW s \in Seq(Bytes), NEW t \in Seq(Bytes), Contains(s, "LF")
    PROVE  Contains(s \o t, "LF") /\ Line(s \o t) = Line(s)
<1>. DEFINE i == Position("LF", s)
            u == s \o t
<1>1. i \in 1 .. Len(s) /\ s[i] = "LF" /\ \A k \in 1 .. i - 1 : s[k] # "LF"
  BY FirstPosition
<1>2. /\ u \in Seq(Bytes) /\ Len(u) = Len(s) + Len(t) /\ Len(s) \in Nat /\ Len(t) \in Nat
      /\ \A k \in 1 .. Len(s) : u[k] = s[k]
  BY JoinBytes
<1>. HIDE DEF i, u
<1>3. i \in 1 .. Len(u) /\ u[i] = "LF" /\ \A k \in 1 .. i - 1 : u[k] # "LF"
  BY ONLY <1>1, <1>2
<1>4. Position("LF", u) = i
  BY ONLY <1>2, <1>3, PositionIs
<1>5. Contains(u, "LF")
  BY ONLY <1>3 DEF Contains
<1>6. SubSeq(u, 0 + 1, 0 + i) = SubSeq(s, 1, i)
  <2>1. /\ 0 \in Nat /\ 1 \in Nat \ {0} /\ i \in Nat /\ i <= Len(s) /\ i + 0 <= Len(u)
        /\ \A k \in 1 .. i : u[0 + k] = s[k]
    BY ONLY <1>1, <1>2
  <2>. QED  BY ONLY <1>2, <2>1, s \in Seq(Bytes), SamePart
<1>7. LineEnd(u) = i /\ LineEnd(s) = i
  BY <1>4, <1>5 DEF LineEnd, i
<1>8. 0 + 1 = 1 /\ 0 + i = i
  BY <1>1
<1>. QED  BY <1>5, <1>6, <1>7, <1>8 DEF Line, u

LEMMA EncodeBytes ==
    ASSUME NEW e \in Events, NEW r \in Answers(e)
    PROVE  /\ Encode(r) \in Seq(Bytes)
           /\ e.op \in {"com", "get"} => Encode(r) = r.text \o <<"LF">>
           /\ e.op = "get" /\ e.text = <<"cores">> => r.text = Cores
           /\ e.op = "com" => r.text \in Cids /\ \A c \in commands : c.cid # r.text
           /\ e.op = "inp" => /\ r \in Outputs \cup Errors /\ r.jid = e.jid
                              /\ Answer(Encode(r), e.jid)
<1>1. /\ e.op \in Words
      /\ e.op = "get" => e.text \in {<<"cores">>, <<"comms">>}
      /\ e.op = "inp" => e.jid \in Numbers /\ e.text \in Seq(Bytes)
  BY EventKinds
<1>2. "LF" \in Bytes /\ "2" \in Bytes /\ "deleted" \in Bytes /\ Space \in Bytes /\ "job" \in Bytes
  BY DEF Bytes, Digits
<1>3. <<"LF">> \in Seq(Bytes) /\ Cores \in Seq(Bytes) /\ <<"deleted", Space, "job">> \in Seq(Bytes)
  BY ONLY <1>2 DEF Cores
<1>4. ASSUME r.kind = "info", r.text \in Seq(Bytes)
      PROVE  Encode(r) = r.text \o <<"LF">> /\ Encode(r) \in Seq(Bytes)
  <2>1. Encode(r) = r.text \o <<"LF">>
    BY <1>4, Zenon DEF Encode
  <2>. DEFINE t == r.text
  <2>2. t \o <<"LF">> \in Seq(Bytes)
    BY ONLY <1>3, <1>4
  <2>. QED  BY <2>1, <2>2
<1>5. CASE e.op = "get"
  <2>1. r \in [kind : {"info"}, text : IF e.text = <<"cores">> THEN {Cores} ELSE Listings]
    BY <1>5, Zenon DEF Answers
  <2>. DEFINE T == IF e.text = <<"cores">> THEN {Cores} ELSE Listings
  <2>2. T \subseteq Seq(Bytes) /\ (e.text = <<"cores">> => T = {Cores})
    BY <1>3, ConstantTypes
  <2>3. r \in [kind : {"info"}, text : T]
    BY <2>1
  <2>. HIDE DEF T
  <2>4. r.kind = "info" /\ r.text \in T
    BY ONLY <2>3
  <2>5. r.text \in Seq(Bytes) /\ (e.text = <<"cores">> => r.text = Cores)
    BY ONLY <2>2, <2>4
  <2>. QED  BY <1>4, <1>5, <2>4, <2>5
<1>6. CASE e.op = "com"
  <2>. DEFINE T == {id \in Cids : \A c \in commands : c.cid # id}
  <2>1. r \in [kind : {"info"}, text : T]
    BY <1>6, Zenon DEF Answers
  <2>2. r.kind = "info" /\ r.text \in T
    <3>. HIDE DEF T
    <3>. QED  BY ONLY <2>1
  <2>3. r.text \in Cids /\ \A c \in commands : c.cid # r.text
    BY <2>2
  <2>4. r.text \in Seq(Bytes)
    BY <2>3, ConstantTypes, NumberBytes
  <2>. QED  BY <1>4, <1>6, <2>2, <2>3, <2>4
<1>7. CASE e.op = "del"
  <2>1. r \in [kind : {"info"}, text : {<<"deleted", Space, "job">>}]
    BY <1>7, Zenon DEF Answers
  <2>2. r.kind = "info" /\ r.text \in Seq(Bytes)
    BY ONLY <1>3, <2>1
  <2>. QED  BY <1>4, <1>7, <2>2
<1>8. CASE e.op = "inp"
  <2>. DEFINE j == e.jid
              t == e.text
  <2>1. Answers(e) = [kind : {"output"}, jid : {j}, status : {<<"0">>, <<"1", "2">>},
                      out : Results, err : Results]
                         \cup [kind : {"error"}, jid : {j}, out : {t}]
    BY <1>8, Zenon DEF Answers
  <2>2. j \in Numbers /\ t \in Seq(Bytes)
    BY <1>1, <1>8
  <2>. HIDE DEF j, t
  <2>3. r \in Outputs \cup Errors /\ r.jid = j
    BY ONLY <2>1, <2>2, r \in Answers(e) DEF Outputs, Errors, Statuses
  <2>4. Answer(Encode(r), e.jid)
    BY <1>1, <1>8, Answered
  <2>5. Encode(r) \in Seq(Bytes)
    BY ONLY <2>4 DEF Answer
  <2>. QED  BY <1>8, <2>3, <2>4, <2>5 DEF j
<1>. QED  BY <1>1, <1>5, <1>6, <1>7, <1>8 DEF Words

(* The bytes of a reply to an input are that wherever it is remembered.     *)
LEMMA ReplyAnswers ==
    ASSUME NEW r \in Outputs \cup Errors
    PROVE  Answer(Encode(r), r.jid) /\ Encode(r) \in Seq(Bytes) /\ r.jid \in Numbers
<1>. DEFINE text == IF r.kind = "error" THEN r.out ELSE <<>>
            e == [op |-> "inp", jid |-> r.jid, text |-> text]
            j == r.jid
<1>1. CASE r \in Errors
  <2>1. r.kind = "error" /\ j \in Numbers /\ r.out \in Seq(Bytes) /\ text = r.out
    BY <1>1 DEF Errors
  <2>2. r \in [kind : {"error"}, jid : {j}, out : {text}]
    <3>1. r \in [kind : {"error"}, jid : {r.jid}, out : {r.out}]
      BY <1>1 DEF Errors
    <3>. QED  BY <2>1, <3>1
  <2>3. e.op = "inp" /\ e.jid = j /\ e.text = text /\ text \in Seq(Bytes)
    BY <2>1
  <2>. HIDE DEF e, text, j
  <2>4. r \in Answers(e)
    <3>1. Answers(e) = [kind : {"output"}, jid : {e.jid}, status : {<<"0">>, <<"1", "2">>},
                        out : Results, err : Results]
                           \cup [kind : {"error"}, jid : {e.jid}, out : {e.text}]
      BY <2>3, Zenon DEF Answers
    <3>. QED  BY <2>2, <2>3, <3>1
  <2>5. Answer(Encode(r), j)
    BY <2>1, <2>3, <2>4, Answered
  <2>. QED  BY <2>1, <2>5 DEF Answer, j
<1>2. CASE r \in Outputs
  <2>1. r.kind = "output" /\ j \in Numbers /\ text = <<>>
    BY <1>2 DEF Outputs
  <2>2. r \in [kind : {"output"}, jid : {j}, status : {<<"0">>, <<"1", "2">>},
               out : Results, err : Results]
    BY <1>2 DEF Outputs, Statuses
  <2>3. e.op = "inp" /\ e.jid = j /\ e.text = text /\ text \in Seq(Bytes)
    BY <2>1
  <2>. HIDE DEF e, text, j
  <2>4. r \in Answers(e)
    <3>1. Answers(e) = [kind : {"output"}, jid : {e.jid}, status : {<<"0">>, <<"1", "2">>},
                        out : Results, err : Results]
                           \cup [kind : {"error"}, jid : {e.jid}, out : {e.text}]
      BY <2>3, Zenon DEF Answers
    <3>. QED  BY <2>2, <2>3, <3>1
  <2>5. Answer(Encode(r), j)
    BY <2>1, <2>3, <2>4, Answered
  <2>. QED  BY <2>1, <2>5 DEF Answer, j
<1>. QED  BY <1>1, <1>2

(* A part of a reply, cut anywhere: what is behind its first line is a part *)
(* of what is behind the first line of the whole.                           *)
LEMMA RestOfPart ==
    ASSUME NEW s \in Seq(Bytes), ~Contains(s, "LF"), NEW r \in Seq(Bytes),
           NEW p, Begins(p, (s \o <<"LF">>) \o r)
    PROVE  Begins(Rest(p), r)
<1>. DEFINE l == s \o <<"LF">>
            u == l \o r
            x == Len(s)
            y == Len(r)
<1>1. x \in Nat /\ y \in Nat /\ \A k \in 1 .. x : s[k] # "LF"
  BY DEF Contains
<1>2. /\ l \in Seq(Bytes) /\ Len(l) = x + 1 /\ l[x + 1] = "LF"
      /\ \A k \in 1 .. x : l[k] = s[k]
  <2>1. "LF" \in Bytes
    BY DEF Bytes
  <2>. QED  BY ONLY <2>1, s \in Seq(Bytes)
<1>. HIDE DEF l
<1>3. /\ u \in Seq(Bytes) /\ Len(u) = (x + 1) + y
      /\ \A k \in 1 .. x + 1 : u[k] = l[k]
      /\ \A k \in 1 .. y : u[(x + 1) + k] = r[k]
  BY ONLY <1>2, r \in Seq(Bytes)
<1>4. PICK n \in 0 .. Len(u) : p = SubSeq(u, 1, n)
  BY DEF Begins, l
<1>. HIDE DEF u, x, y
<1>5. p \in Seq(Bytes) /\ Len(p) = n /\ \A k \in 1 .. n : p[k] = u[k]
  BY ONLY <1>3, <1>4, n \in 0 .. Len(u)
<1>6. n \in Nat /\ n <= (x + 1) + y
  BY ONLY <1>1, <1>3, n \in 0 .. Len(u)
<1>7. CASE n <= x
  <2>1. \A k \in 1 .. n : p[k] # "LF"
    BY ONLY <1>1, <1>2, <1>3, <1>5, <1>6, <1>7
  <2>2. ~Contains(p, "LF")
    BY ONLY <1>5, <2>1 DEF Contains
  <2>3. LineEnd(p) = n
    BY ONLY <1>5, <2>2 DEF LineEnd
  <2>4. SubSeq(p, n + 1, n) = <<>>
    BY ONLY <1>5, <1>6
  <2>5. Rest(p) = <<>>
    BY ONLY <1>5, <2>3, <2>4 DEF Rest
  <2>6. SubSeq(r, 1, 0) = <<>> /\ 0 \in 0 .. Len(r)
    BY ONLY r \in Seq(Bytes)
  <2>. QED  BY ONLY <2>5, <2>6 DEF Begins
<1>8. CASE n > x
  <2>. DEFINE i == x + 1
              b == n - (x + 1)
  <2>1. i \in 1 .. Len(p) /\ p[i] = "LF" /\ \A k \in 1 .. i - 1 : p[k] # "LF"
    BY ONLY <1>1, <1>2, <1>3, <1>5, <1>6, <1>8
  <2>2. Position("LF", p) = i
    BY ONLY <1>5, <2>1, PositionIs
  <2>3. LineEnd(p) = i
    <3>1. Contains(p, "LF")
      BY ONLY <2>1 DEF Contains
    <3>. QED  BY ONLY <2>2, <3>1 DEF LineEnd
  <2>4. /\ b \in 0 .. Len(r) /\ i \in Nat /\ 1 \in Nat \ {0} /\ b \in Nat /\ b <= Len(r)
        /\ b + i <= Len(p) /\ i + b = n
    BY ONLY <1>1, <1>5, <1>6, <1>8 DEF y
  <2>5. \A k \in 1 .. b : p[i + k] = r[k]
    <3>. SUFFICES ASSUME NEW k \in 1 .. b PROVE p[i + k] = r[k]
      OBVIOUS
    <3>1. i + k \in 1 .. n /\ k \in 1 .. y
      BY ONLY <1>1, <1>6, <1>8, k \in 1 .. b
    <3>2. p[i + k] = u[i + k] /\ u[(x + 1) + k] = r[k]
      BY ONLY <1>3, <1>5, <3>1
    <3>. QED  BY ONLY <3>2
  <2>. HIDE DEF i, b
  <2>6. SubSeq(p, i + 1, i + b) = SubSeq(r, 1, b)
    BY ONLY <1>5, <2>4, <2>5, r \in Seq(Bytes), SamePart
  <2>7. Rest(p) = SubSeq(r, 1, b)
    BY ONLY <1>5, <2>3, <2>4, <2>6 DEF Rest
  <2>. QED  BY ONLY <2>4, <2>7 DEF Begins
<1>. QED  BY ONLY <1>1, <1>6, <1>7, <1>8

LEMMA PartOfNothing ==
    ASSUME NEW p, Begins(p, <<>>) PROVE p = <<>>
BY DEF Begins

LEMMA NothingIsLeft ==
    Rest(<<>>) = <<>> /\ Unbuffered(<<>>) = {<<>>}
<1>1. LineEnd(<<>>) = 0
  BY DEF LineEnd, Contains
<1>2. Rest(<<>>) = <<>>
  BY <1>1 DEF Rest
<1>3. Unbuffered(<<>>) = {<<>>}
  <2>. DEFINE e == <<>>
  <2>1. Len(e) = 0 /\ 1 .. 0 + 1 = {1} /\ SubSeq(e, 1, 0) = e
    OBVIOUS
  <2>2. Unbuffered(e) = {SubSeq(e, n, Len(e)) : n \in 1 .. Len(e) + 1}
    BY Zenon DEF Unbuffered
  <2>. HIDE DEF e
  <2>3. Unbuffered(e) = {SubSeq(e, n, 0) : n \in {1}}
    BY ONLY <2>1, <2>2
  <2>4. {SubSeq(e, n, 0) : n \in {1}} = {SubSeq(e, 1, 0)}
    OBVIOUS
  <2>. QED  BY <2>1, <2>3, <2>4 DEF e
<1>. QED  BY <1>2, <1>3

(* What is unread of the bytes stays bytes.                                 *)
LEMMA UnbufferedBytes ==
    ASSUME NEW s \in Seq(Bytes), NEW t \in Unbuffered(s) PROVE t \in Seq(Bytes)
<1>1. PICK n \in 1 .. Len(s) + 1 : t = SubSeq(s, n, Len(s))
  BY DEF Unbuffered
<1>2. Len(s) \in 0 .. Len(s) /\ n <= Len(s) + 1
  OBVIOUS
<1>. QED  BY ONLY <1>1, <1>2, s \in Seq(Bytes), n \in 1 .. Len(s) + 1, PartBytesAre

(* A reply to an input has three lines, or one.                             *)
LEMMA OutputLines ==
    ASSUME NEW r \in Outputs
    PROVE  \E n, x, y \in Seq(Bytes) :
              /\ ~Contains(n, "LF") /\ ~Contains(x, "LF") /\ ~Contains(y, "LF")
              /\ Encode(r) = (n \o <<"LF">>) \o ((x \o <<"LF">>) \o ((y \o <<"LF">>) \o <<>>))
<1>. DEFINE lf == <<"LF">>
            n == (r.jid \o <<Space>>) \o r.status
            x == Escape(r.out)
            y == Escape(r.err)
            rest == (x \o lf) \o ((y \o lf) \o <<>>)
            u == (n \o lf) \o rest
<1>1. /\ r.kind = "output" /\ r.jid \in Numbers /\ r.status \in Statuses
      /\ r.out \in Seq(Bytes) /\ r.err \in Seq(Bytes)
  BY ConstantTypes DEF Outputs
<1>2. r.status \in Numbers
  <2>1. "0" \in Bytes /\ "1" \in Bytes /\ "2" \in Bytes
    BY DEF Bytes, Digits
  <2>2. "0" \in Digits /\ "1" \in Digits /\ "2" \in Digits
    BY DEF Digits
  <2>3. <<"0">> \in Seq(Bytes) /\ <<"1", "2">> \in Seq(Bytes)
    BY ONLY <2>1
  <2>4. IsNumber(<<"0">>) /\ IsNumber(<<"1", "2">>)
    BY ONLY <2>2 DEF IsNumber
  <2>. QED  BY ONLY <1>1, <2>3, <2>4 DEF Statuses, Numbers
<1>3. n \in Seq(Bytes) /\ ~Contains(n, "LF")
  BY ONLY <1>1, <1>2, StatusIs
<1>5. x \in Seq(Bytes) /\ ~Contains(x, "LF") /\ y \in Seq(Bytes) /\ ~Contains(y, "LF")
  BY ONLY <1>1, EscapeRestored DEF Restored
<1>6. lf \in Seq(Bytes)
  <2>1. "LF" \in Bytes
    BY DEF Bytes
  <2>. QED  BY ONLY <2>1
<1>7. Encode(r) = (((((((r.jid \o <<Space>>) \o r.status) \o lf) \o x) \o lf) \o y) \o lf)
  BY <1>1, Zenon DEF Encode
<1>. HIDE DEF n, x, y, lf
<1>8. Encode(r) = u
  <2>1. Encode(r) = ((((n \o lf) \o x) \o lf) \o y) \o lf
    BY ONLY <1>7 DEF n
  <2>. DEFINE nl == n \o lf
              xl == x \o lf
              yl == y \o lf
  <2>2. nl \in Seq(Bytes) /\ xl \in Seq(Bytes) /\ yl \in Seq(Bytes)
    BY ONLY <1>3, <1>5, <1>6
  <2>3. ASSUME NEW p \in Seq(Bytes), NEW q \in Seq(Bytes), NEW z \in Seq(Bytes)
        PROVE  (p \o q) \o z = p \o (q \o z)
    BY ONLY p \in Seq(Bytes), q \in Seq(Bytes), z \in Seq(Bytes), ConcatProperties
  <2>4. (nl \o x) \o lf = nl \o xl
    BY <1>5, <1>6, <2>2, <2>3, ZenonT(30)
  <2>5. ((nl \o xl) \o y) \o lf = (nl \o xl) \o yl
    <3>1. nl \o xl \in Seq(Bytes)
      BY ONLY <2>2
    <3>. QED  BY <1>5, <1>6, <2>3, <3>1, Zenon
  <2>6. (nl \o xl) \o yl = nl \o (xl \o yl)
    BY <2>2, <2>3, Zenon
  <2>7. yl \o <<>> = yl
    BY ONLY <2>2, ConcatEmptySeq
  <2>8. u = nl \o (xl \o yl)
    BY ONLY <2>7
  <2>. QED  BY ONLY <2>1, <2>4, <2>5, <2>6, <2>8
<1>. QED  BY <1>3, <1>5, <1>8 DEF lf

LEMMA ErrorLine ==
    ASSUME NEW r \in Errors
    PROVE  \E x \in Seq(Bytes) : ~Contains(x, "LF") /\ Encode(r) = (x \o <<"LF">>) \o <<>>
<1>. DEFINE e == <<"ERR", Space>>
            a == e \o r.jid
            b == a \o <<Space>>
            y == Escape(r.out)
            c == b \o y
            d == c \o <<"LF">>
<1>1. r.kind = "error" /\ r.jid \in Numbers /\ r.out \in Seq(Bytes)
  BY DEF Errors
<1>2. Encode(r) = d
  BY <1>1, Zenon DEF Encode
<1>3. y \in Seq(Bytes) /\ ~Contains(y, "LF")
  BY <1>1, EscapeRestored DEF Restored
<1>4. Space \in Bytes /\ "LF" \in Bytes /\ "ERR" \in Bytes /\ Space # "LF"
  BY DEF Bytes, Space
<1>5. r.jid \in Seq(Bytes) /\ ~Contains(r.jid, "LF")
  BY <1>1, NumberBytes DEF Contains
<1>6. ASSUME NEW s \in Seq(Bytes), NEW t \in Seq(Bytes), ~Contains(s, "LF"), ~Contains(t, "LF")
      PROVE  s \o t \in Seq(Bytes) /\ ~Contains(s \o t, "LF")
  <2>. DEFINE u == s \o t
  <2>1. /\ u \in Seq(Bytes) /\ Len(u) = Len(s) + Len(t) /\ Len(s) \in Nat /\ Len(t) \in Nat
        /\ \A k \in 1 .. Len(s) : u[k] = s[k]
        /\ \A k \in 1 .. Len(t) : u[Len(s) + k] = t[k]
    BY JoinBytes
  <2>. HIDE DEF u
  <2>2. ASSUME NEW k \in 1 .. Len(u) PROVE u[k] # "LF"
    <3>1. CASE k <= Len(s)
      <4>1. k \in 1 .. Len(s)
        BY ONLY <2>1, <3>1, k \in 1 .. Len(u)
      <4>. QED  BY <1>6, <2>1, <4>1 DEF Contains
    <3>2. CASE k > Len(s)
      <4>1. k - Len(s) \in 1 .. Len(t) /\ Len(s) + (k - Len(s)) = k
        BY ONLY <2>1, <3>2, k \in 1 .. Len(u)
      <4>2. t[k - Len(s)] # "LF"
        BY <1>6, <4>1 DEF Contains
      <4>. QED  BY ONLY <2>1, <4>1, <4>2
    <3>. QED  BY <2>1, <3>1, <3>2
  <2>3. ~Contains(u, "LF")
    BY ONLY <2>1, <2>2 DEF Contains
  <2>. QED  BY <2>1, <2>3 DEF u
<1>7. e \in Seq(Bytes) /\ ~Contains(e, "LF")
  <2>1. e \in Seq(Bytes)
    BY ONLY <1>4
  <2>2. "ERR" # "LF"
    OBVIOUS
  <2>. QED  BY <1>4, <2>1, <2>2 DEF Contains
<1>8. <<Space>> \in Seq(Bytes) /\ ~Contains(<<Space>>, "LF")
  BY ONLY <1>4 DEF Contains
<1>9. c \in Seq(Bytes) /\ ~Contains(c, "LF")
  <2>. HIDE DEF e, y
  <2>1. a \in Seq(Bytes) /\ ~Contains(a, "LF")
    BY <1>5, <1>6, <1>7
  <2>. HIDE DEF a
  <2>2. b \in Seq(Bytes) /\ ~Contains(b, "LF")
    BY <1>6, <1>8, <2>1
  <2>. HIDE DEF b
  <2>. QED  BY <1>3, <1>6, <2>2
<1>. HIDE DEF c
<1>10. d \o <<>> = d
  <2>1. d \in Seq(Bytes)
    BY ONLY <1>4, <1>9
  <2>. QED  BY ONLY <2>1, ConcatEmptySeq
<1>. QED  BY <1>2, <1>9, <1>10

(* Three lines are all of a reply, however much of it has come.             *)
LEMMA RepliesAreRead ==
    ASSUME NEW r \in Outputs \cup Errors, NEW p, Begins(p, Encode(r))
    PROVE  Rest(Rest(Rest(p))) = <<>>
<1>0. <<>> \in Seq(Bytes)
  OBVIOUS
<1>1. CASE r \in Outputs
  <2>1. PICK n \in Seq(Bytes), x \in Seq(Bytes), y \in Seq(Bytes) :
           /\ ~Contains(n, "LF") /\ ~Contains(x, "LF") /\ ~Contains(y, "LF")
           /\ Encode(r) = (n \o <<"LF">>) \o ((x \o <<"LF">>) \o ((y \o <<"LF">>) \o <<>>))
    BY <1>1, OutputLines
  <2>. DEFINE t == (y \o <<"LF">>) \o <<>>
              s == (x \o <<"LF">>) \o t
  <2>2. t \in Seq(Bytes)
    BY ONLY <1>0, <2>1, FirstLine
  <2>. HIDE DEF t
  <2>3. s \in Seq(Bytes)
    BY ONLY <2>1, <2>2, FirstLine
  <2>4. Begins(p, (n \o <<"LF">>) \o s)
    BY <2>1 DEF t
  <2>. HIDE DEF s
  <2>5. Begins(Rest(p), s)
    BY ONLY <2>1, <2>3, <2>4, RestOfPart
  <2>6. Begins(Rest(Rest(p)), t)
    BY ONLY <2>1, <2>2, <2>5, RestOfPart DEF s
  <2>7. Begins(Rest(Rest(Rest(p))), <<>>)
    BY ONLY <1>0, <2>1, <2>6, RestOfPart DEF t
  <2>. QED  BY ONLY <2>7, PartOfNothing
<1>2. CASE r \in Errors
  <2>1. PICK x \in Seq(Bytes) : ~Contains(x, "LF") /\ Encode(r) = (x \o <<"LF">>) \o <<>>
    BY <1>2, ErrorLine
  <2>2. Begins(p, (x \o <<"LF">>) \o <<>>)
    BY <2>1
  <2>3. Begins(Rest(p), <<>>)
    BY ONLY <1>0, <2>1, <2>2, RestOfPart
  <2>4. Rest(p) = <<>>
    BY ONLY <2>3, PartOfNothing
  <2>. QED  BY ONLY <2>4, NothingIsLeft
<1>. QED  BY <1>1, <1>2

-----------------------------------------------------------------------------
(* The inductive invariant, first what holds of every stream: what has left *)
(* the client comes as it was sent, in order.                               *)

(* Bytes that have left the client and are not decoded.                     *)
UnderWay == buf \o toServer

LastAsked == asked[Len(asked)]

AskedFrames == UNION {Frames(LineOf(asked[i])) : i \in DOMAIN asked}

Typed ==
    /\ \/ role = "control" /\ pc \in {"start", "cores", "connected", "id", "drop", "gone"}
       \/ /\ role = "slot" /\ pc \in {"start", "result"}
          /\ \A i \in DOMAIN asked : asked[i].op = "inp"
    /\ pc = "result" => asked # <<>>
    /\ told \in Numbers
    /\ asked \in Seq(Requests)
    /\ toServer \in Seq(Bytes)
    /\ buf \in Seq(Bytes)
    /\ stream \in {"up", "broken", "closed"}
    /\ toClient \in Seq(Bytes)
    /\ event # None => event \in Events

(* A stream that is lost delivers nothing more, and one that the server has *)
(* closed has nothing left to decode.                                       *)
Lost ==
    /\ stream # "up" => toServer = <<>>
    /\ stream = "closed" => buf = <<>> /\ event = None

(* Every line that comes is a line of one request, and so is what the       *)
(* server works on.                                                         *)
Arrived ==
    /\ Frames(UnderWay) \subseteq AskedFrames
    /\ event # None => \E f \in AskedFrames : event = Parse(f)
    /\ stream = "up" => Whole(UnderWay)

LineInv == Typed /\ Lost /\ Arrived

LEMMA UnderWayIs ==
    ASSUME Typed
    PROVE  /\ UnderWay \in Seq(Bytes) /\ buf \in Seq(Bytes) /\ toServer \in Seq(Bytes)
           /\ asked \in Seq(Requests) /\ toClient \in Seq(Bytes)
<1>1. buf \in Seq(Bytes) /\ toServer \in Seq(Bytes) /\ asked \in Seq(Requests) /\ toClient \in Seq(Bytes)
  BY DEF Typed
<1>2. UnderWay \in Seq(Bytes)
  BY ONLY <1>1, JoinBytes DEF UnderWay
<1>. QED  BY <1>1, <1>2

LEMMA DeliverKeeps ==
    ASSUME NEW b \in Seq(Bytes), NEW t \in Seq(Bytes), t # <<>>
    PROVE  /\ Append(b, Head(t)) \in Seq(Bytes) /\ Tail(t) \in Seq(Bytes)
           /\ Append(b, Head(t)) \o Tail(t) = b \o t
OBVIOUS

(* A step that sends nothing changes none of what has been asked.           *)
LEMMA NothingAsked ==
    ASSUME asked' = asked
    PROVE  AskedFrames' = AskedFrames /\ AskedWords' = AskedWords /\ LastAsked' = LastAsked
BY DEF AskedFrames, AskedWords, LastAsked

LEMMA Sent ==
    ASSUME Typed, NEW q \in Requests, NEW label, Send(q, label)
    PROVE  /\ UNCHANGED <<role, told, buf, stream, event, commands, reply, toClient>>
           /\ pc' = label /\ result' = None
           /\ asked' \in Seq(Requests) /\ asked' # <<>> /\ LastAsked' = q
           /\ \A i \in DOMAIN asked' : asked'[i] = q \/ \E k \in DOMAIN asked : asked'[i] = asked[k]
           /\ AskedFrames' = AskedFrames \cup Frames(LineOf(q))
           /\ AskedWords' = AskedWords \cup (IF q.op = "del" THEN {} ELSE LineWords(q.text))
           /\ toServer' \in Seq(Bytes)
           /\ UnderWay' = IF stream = "up" THEN UnderWay \o LineOf(q) ELSE UnderWay
           /\ stream # "up" => toServer' = toServer
<1>1. /\ UNCHANGED <<role, told, buf, stream, event, commands, reply, toClient>>
      /\ pc' = label /\ result' = None /\ asked' = Append(asked, q)
      /\ stream # "up" => toServer' = toServer
      /\ stream = "up" => toServer' = toServer \o Instruction(q) \o <<"CR", "LF">>
  BY DEF Send
<1>2. buf \in Seq(Bytes) /\ toServer \in Seq(Bytes) /\ asked \in Seq(Requests)
  BY DEF Typed
<1>3. /\ asked' \in Seq(Requests) /\ Len(asked') = Len(asked) + 1 /\ Len(asked) \in Nat
      /\ asked'[Len(asked) + 1] = q
      /\ \A i \in 1 .. Len(asked) : asked'[i] = asked[i]
      /\ DOMAIN asked' = 1 .. Len(asked) + 1 /\ DOMAIN asked = 1 .. Len(asked)
  <2>1. asked' = Append(asked, q)
    BY <1>1
  <2>. QED  BY ONLY <1>2, <2>1, q \in Requests
<1>4. asked' # <<>> /\ asked'[Len(asked')] = q
  BY ONLY <1>3
<1>5. DOMAIN asked' = DOMAIN asked \cup {Len(asked) + 1}
  BY ONLY <1>3
<1>6. AskedFrames' = AskedFrames \cup Frames(LineOf(q))
  <2>1. AskedFrames' = UNION {Frames(LineOf(asked'[i])) : i \in DOMAIN asked'}
    BY DEF AskedFrames
  <2>. DEFINE fr(r) == Frames(LineOf(r))
  <2>2. AskedFrames' = UNION {fr(asked'[i]) : i \in DOMAIN asked'} /\ AskedFrames = UNION {fr(asked[i]) : i \in DOMAIN asked}
    BY <2>1 DEF AskedFrames
  <2>. HIDE DEF fr
  <2>3. AskedFrames' = AskedFrames \cup fr(q)
    BY ONLY <1>3, <1>5, <2>2
  <2>. QED  BY <2>3 DEF fr
<1>7. AskedWords' = AskedWords \cup (IF q.op = "del" THEN {} ELSE LineWords(q.text))
  <2>. DEFINE wd(r) == LineWords(r.text)
  <2>1. AskedWords' = UNION {wd(asked'[i]) : i \in {k \in DOMAIN asked' : asked'[k].op # "del"}} /\ AskedWords = UNION {wd(asked[i]) : i \in {k \in DOMAIN asked : asked[k].op # "del"}}
    BY DEF AskedWords
  <2>. HIDE DEF wd
  <2>2. AskedWords' = AskedWords \cup (IF q.op = "del" THEN {} ELSE wd(q))
    BY ONLY <1>3, <1>5, <2>1
  <2>. QED  BY <2>2 DEF wd
<1>8. /\ toServer' \in Seq(Bytes)
      /\ UnderWay' = IF stream = "up" THEN UnderWay \o LineOf(q) ELSE UnderWay
  <2>1. CASE stream = "up"
    <3>. DEFINE i == Instruction(q)
                e == <<"CR", "LF">>
                l == LineOf(q)
    <3>1. i \in Seq(Bytes) /\ l = i \o e
      BY InstructionBytes DEF LineOf
    <3>2. e \in Seq(Bytes)
      <4>1. "CR" \in Bytes /\ "LF" \in Bytes
        BY DEF Bytes
      <4>. QED  BY ONLY <4>1
    <3>3. toServer' = (toServer \o i) \o e
      BY <1>1, <2>1, Zenon
    <3>. HIDE DEF i, e, l
    <3>4. toServer' = toServer \o l
      BY ONLY <1>2, <3>1, <3>2, <3>3, ConcatProperties
    <3>5. l \in Seq(Bytes)
      BY ONLY <3>1, <3>2
    <3>6. toServer' \in Seq(Bytes) /\ buf \o toServer' = (buf \o toServer) \o l
      BY ONLY <1>2, <3>4, <3>5
    <3>7. UnderWay' = buf \o toServer'
      BY <1>1 DEF UnderWay
    <3>. QED  BY <2>1, <3>6, <3>7 DEF UnderWay, l
  <2>2. CASE stream # "up"
    BY <1>1, <1>2, <2>2 DEF UnderWay
  <2>. QED  BY <2>1, <2>2
<1>9. ASSUME NEW i \in DOMAIN asked'
      PROVE  asked'[i] = q \/ \E k \in DOMAIN asked : asked'[i] = asked[k]
  <2>1. i \in 1 .. Len(asked) \/ i = Len(asked) + 1
    BY ONLY <1>3, i \in DOMAIN asked'
  <2>. QED  BY ONLY <1>3, <2>1
<1>. QED  BY <1>1, <1>3, <1>4, <1>6, <1>7, <1>8, <1>9 DEF LastAsked

(* What decode does to what is under way.                                   *)
Taking(i) ==
    /\ FirstNewline(UnderWay, i)
    /\ event' = Parse(SubSeq(UnderWay, 1, i - 2))
    /\ event' # None /\ i >= 4
    /\ UnderWay' = SubSeq(UnderWay, i + 1, Len(UnderWay))
    /\ UNCHANGED <<stream, toServer>>

LEMMA Decoded ==
    ASSUME Typed, Decode
    PROVE  /\ UNCHANGED <<role, pc, told, asked, commands, reply, toClient, result>>
           /\ event = None /\ stream # "closed"
           /\ buf' \in Seq(Bytes) /\ toServer' \in Seq(Bytes)
           /\ \/ /\ event' = None /\ stream' = "closed" /\ buf' = <<>> /\ toServer' = <<>>
                 /\ UnderWay' = <<>>
              \/ \E i \in 1 .. Len(UnderWay) : Taking(i)
<1>. DEFINE i == Position("LF", buf)
            f == SubSeq(buf, 1, i - 2)
            rest == SubSeq(buf, i + 1, Len(buf))
            u == UnderWay
            n == Len(buf)
<1>1. /\ buf \in Seq(Bytes) /\ toServer \in Seq(Bytes) /\ u \in Seq(Bytes)
      /\ event = None /\ stream # "closed" /\ Contains(buf, "LF")
      /\ UNCHANGED <<role, pc, told, asked, commands, reply, toClient, result>>
  BY UnderWayIs DEF Decode
<1>2. /\ event' = None => stream' = "closed" /\ buf' = <<>> /\ toServer' = <<>>
      /\ event' # None => /\ i # 1 /\ event' = Parse(f)
                          /\ stream' = stream /\ buf' = rest /\ toServer' = toServer
  <2>1. Frame(i) = [frame |-> f, rest |-> rest]
    BY DEF Frame
  <2>2. Frame(i).frame = f /\ Frame(i).rest = rest
    BY <2>1
  <2>. DEFINE e == IF i = 1 THEN None ELSE Parse(Frame(i).frame)
  <2>3. /\ event' = e
        /\ stream' = IF e = None THEN "closed" ELSE stream
        /\ buf' = IF e = None THEN <<>> ELSE Frame(i).rest
        /\ toServer' = IF e = None THEN <<>> ELSE toServer
    BY Zenon DEF Decode
  <2>4. e # None => i # 1 /\ e = Parse(f)
    BY ONLY <2>2
  <2>. HIDE DEF e, f, rest, i, u, n
  <2>. QED  BY ONLY <2>2, <2>3, <2>4
<1>3. i \in 1 .. n /\ buf[i] = "LF" /\ \A k \in 1 .. i - 1 : buf[k] # "LF"
  BY <1>1, FirstPosition
<1>4. /\ u = buf \o toServer /\ Len(u) = n + Len(toServer) /\ n \in Nat /\ Len(toServer) \in Nat
      /\ \A k \in 1 .. n : u[k] = buf[k]
      /\ \A k \in 1 .. Len(toServer) : u[n + k] = toServer[k]
  BY <1>1, JoinBytes DEF UnderWay
<1>5. /\ rest \in Seq(Bytes) /\ Len(rest) = n - i
      /\ \A k \in 1 .. n - i : rest[k] = buf[i + k]
  <2>. HIDE DEF i
  <2>. QED  BY ONLY <1>1, <1>3, RestBytes DEF n
<1>. HIDE DEF i, rest, u, n
<1>6. FirstNewline(u, i) /\ i \in 1 .. Len(u)
  BY ONLY <1>3, <1>4 DEF FirstNewline
<1>7. CASE event' = None
  <2>1. UnderWay' = buf' \o toServer' /\ <<>> \in Seq(Bytes) /\ <<>> \o <<>> = <<>>
    BY DEF UnderWay
  <2>. QED  BY <1>1, <1>2, <1>7, <2>1
<1>8. CASE event' # None
  <2>1. i >= 2
    BY ONLY <1>2, <1>3, <1>4, <1>8
  <2>2. f = SubSeq(u, 1, i - 2)
    <3>1. /\ 0 \in Nat /\ 1 \in Nat \ {0} /\ i - 2 \in Nat /\ i - 2 <= Len(buf)
          /\ (i - 2) + 0 <= Len(u) /\ 0 + 1 = 1 /\ 0 + (i - 2) = i - 2
      BY ONLY <1>3, <1>4, <2>1 DEF n
    <3>2. \A k \in 1 .. i - 2 : k \in 1 .. n /\ 0 + k = k
      BY ONLY <1>3, <1>4, <2>1
    <3>3. \A k \in 1 .. i - 2 : u[0 + k] = buf[k]
      BY ONLY <1>4, <3>2
    <3>4. SubSeq(u, 0 + 1, 0 + (i - 2)) = SubSeq(buf, 1, i - 2)
      BY ONLY <1>1, <3>1, <3>3, SamePart
    <3>. QED  BY ONLY <3>1, <3>4 DEF f
  <2>3. f \in Seq(Bytes) /\ Len(f) = i - 2
    <3>1. 1 \in 1 .. Len(buf) + 1 /\ i - 2 \in 0 .. Len(buf) /\ 1 <= (i - 2) + 1 /\ (i - 2) - 1 + 1 = i - 2
      BY ONLY <1>3, <1>4, <2>1 DEF n
    <3>2. SubSeq(buf, 1, i - 2) \in Seq(Bytes) /\ Len(SubSeq(buf, 1, i - 2)) = (i - 2) - 1 + 1
      BY ONLY <1>1, <3>1, PartBytesAre
    <3>. QED  BY ONLY <3>1, <3>2 DEF f
  <2>. HIDE DEF f
  <2>4. i >= 4
    <3>1. Len(f) >= 2
      BY <1>2, <1>8, <2>3, ParseEvent
    <3>. QED  BY ONLY <1>3, <1>4, <2>3, <3>1
  <2>5. rest \o toServer = SubSeq(u, i + 1, Len(u))
    <3>. DEFINE x == rest \o toServer
                y == SubSeq(u, i + 1, Len(u))
                m == Len(u) - i
    <3>1. /\ x \in Seq(Bytes) /\ Len(x) = (n - i) + Len(toServer)
          /\ \A k \in 1 .. n - i : x[k] = rest[k]
          /\ \A k \in 1 .. Len(toServer) : x[(n - i) + k] = toServer[k]
      <4>1. /\ x \in Seq(Bytes) /\ Len(x) = Len(rest) + Len(toServer)
            /\ \A k \in 1 .. Len(rest) : x[k] = rest[k]
            /\ \A k \in 1 .. Len(toServer) : x[Len(rest) + k] = toServer[k]
        BY ONLY <1>1, <1>5, JoinBytes
      <4>. HIDE DEF x
      <4>. QED  BY ONLY <1>5, <4>1
    <3>2. y \in Seq(Bytes) /\ Len(y) = m /\ \A k \in 1 .. m : y[k] = u[i + k]
      BY ONLY <1>1, <1>6, RestBytes
    <3>. HIDE DEF x, y
    <3>3. Len(x) = m
      BY ONLY <1>3, <1>4, <3>1
    <3>4. ASSUME NEW k \in 1 .. m PROVE x[k] = y[k]
      <4>1. CASE k <= n - i
        <5>1. k \in 1 .. n - i /\ i + k \in 1 .. n
          BY ONLY <1>3, <1>4, <4>1, k \in 1 .. m
        <5>. QED  BY ONLY <1>4, <1>5, <3>1, <3>2, <5>1, k \in 1 .. m
      <4>2. CASE k > n - i
        <5>. DEFINE z == k - (n - i)
        <5>1. z \in 1 .. Len(toServer) /\ (n - i) + z = k /\ n + z = i + k
          BY ONLY <1>3, <1>4, <4>2, k \in 1 .. m
        <5>. HIDE DEF z
        <5>2. x[(n - i) + z] = toServer[z] /\ u[n + z] = toServer[z] /\ y[k] = u[i + k]
          BY ONLY <1>4, <3>1, <3>2, <5>1, k \in 1 .. m
        <5>. QED  BY ONLY <5>1, <5>2
      <4>. QED  BY ONLY <1>3, <1>4, <4>1, <4>2, k \in 1 .. m
    <3>. HIDE DEF m
    <3>. QED  BY ONLY <3>1, <3>2, <3>3, <3>4, SameSeq DEF x, y
  <2>6. UnderWay' = SubSeq(u, i + 1, Len(u))
    BY <1>2, <1>8, <2>5 DEF UnderWay
  <2>7. Taking(i)
    BY <1>2, <1>6, <1>8, <2>2, <2>4, <2>6 DEF Taking, u
  <2>. QED  BY <1>1, <1>2, <1>5, <1>6, <1>8, <2>7 DEF u
<1>. QED  BY <1>7, <1>8

LEMMA InitLines == Init => LineInv
<1>. SUFFICES ASSUME Init PROVE LineInv
  OBVIOUS
<1>. USE DEF Init
<1>1. "0" \in Bytes /\ "0" \in Digits
  BY DEF Bytes, Digits
<1>2. told \in Numbers
  <2>1. <<"0">> \in Seq(Bytes) /\ IsNumber(<<"0">>)
    BY <1>1 DEF IsNumber
  <2>2. Cids \subseteq Numbers
    BY ConstantTypes
  <2>. QED  BY <2>1, <2>2 DEF Numbers
<1>3. Typed
  BY <1>2 DEF Typed
<1>4. UnderWay = <<>>
  BY DEF UnderWay
<1>5. Frames(UnderWay) = {}
  BY <1>4 DEF Frames, Lines
<1>. QED  BY <1>3, <1>4, <1>5 DEF LineInv, Lost, Arrived, Whole

(* Nothing of what is under way is touched.                                 *)
LEMMA QuietLines ==
    ASSUME LineInv, Typed', UNCHANGED <<asked, toServer, buf, stream>>, event' \in {None, event}
    PROVE  LineInv' /\ UnderWay' = UnderWay
<1>1. UnderWay' = UnderWay /\ AskedFrames' = AskedFrames
  BY NothingAsked DEF UnderWay
<1>2. Lost'
  BY DEF LineInv, Lost
<1>3. Arrived'
  BY <1>1 DEF LineInv, Arrived
<1>. QED  BY <1>1, <1>2, <1>3 DEF LineInv

LEMMA SendLines ==
    ASSUME LineInv, NEW q \in Requests, NEW label, Send(q, label),
           \/ role = "control" /\ label \in {"cores", "id", "gone"}
           \/ role = "slot" /\ label = "result" /\ q.op = "inp"
    PROVE  LineInv'
<1>. DEFINE l == LineOf(q)
            u == UnderWay
<1>1. Typed
  BY DEF LineInv
<1>2. /\ UNCHANGED <<role, told, buf, stream, event, commands, reply, toClient>>
      /\ pc' = label /\ result' = None
      /\ asked' \in Seq(Requests) /\ asked' # <<>>
      /\ \A i \in DOMAIN asked' : asked'[i] = q \/ \E k \in DOMAIN asked : asked'[i] = asked[k]
      /\ AskedFrames' = AskedFrames \cup Frames(l)
      /\ toServer' \in Seq(Bytes)
      /\ UnderWay' = IF stream = "up" THEN u \o l ELSE u
      /\ stream # "up" => toServer' = toServer
  BY <1>1, Sent
<1>3. u \in Seq(Bytes) /\ l \in Seq(Bytes) /\ l # <<>> /\ Whole(l)
  BY <1>1, UnderWayIs, LineBytes, HeadsOfLine
<1>4. Typed'
  <2>1. role = "slot" => \A i \in DOMAIN asked' : asked'[i].op = "inp"
    BY <1>1, <1>2 DEF Typed
  <2>. QED  BY <1>1, <1>2, <2>1 DEF Typed
<1>5. Lost'
  BY <1>2 DEF LineInv, Lost
<1>6. CASE stream = "up"
  <2>1. Whole(u) /\ Frames(u) \subseteq AskedFrames
    BY <1>6 DEF LineInv, Arrived
  <2>2. UnderWay' = u \o l
    BY <1>2, <1>6
  <2>. HIDE DEF u, l
  <2>3. Frames(u \o l) \subseteq Frames(u) \cup Frames(l)
    BY ONLY <1>3, <2>1, FramesOfJoin
  <2>4. Whole(u \o l)
    <3>1. Len(u \o l) = Len(u) + Len(l) /\ Len(l) \in 1 .. Len(l) /\ (u \o l)[Len(u) + Len(l)] = l[Len(l)]
      BY ONLY <1>3, JoinBytes
    <3>. QED  BY ONLY <1>3, <3>1 DEF Whole
  <2>5. Frames(UnderWay') \subseteq AskedFrames'
    BY <1>2, <2>1, <2>2, <2>3
  <2>6. event' # None => \E f \in AskedFrames' : event' = Parse(f)
    BY <1>2 DEF LineInv, Arrived
  <2>7. stream' = "up" => Whole(UnderWay')
    BY <2>2, <2>4
  <2>8. Arrived'
    BY <2>5, <2>6, <2>7 DEF Arrived
  <2>. QED  BY <1>4, <1>5, <2>8 DEF LineInv
<1>7. CASE stream # "up"
  <2>1. Arrived'
    BY <1>2, <1>7 DEF LineInv, Arrived
  <2>. QED  BY <1>4, <1>5, <2>1 DEF LineInv
<1>. QED  BY <1>6, <1>7

(* Where a client goes on that has sent a request.                         *)
Labels == {"cores", "id", "gone", "result"}

(* The steps of a client that send.                                         *)
LEMMA Sends ==
    ASSUME Typed, GetCores \/ SendCommand \/ DropConnection \/ WriteInstruction
    PROVE  \E q \in Requests, label \in Labels :
              /\ Send(q, label)
              /\ \/ /\ role = "control" /\ pc = "start" /\ label = "cores"
                    /\ q = [op |-> "get", text |-> <<"cores">>]
                 \/ role = "control" /\ pc = "connected" /\ label = "id" /\ q.op = "com"
                 \/ /\ role = "control" /\ pc = "drop" /\ label = "gone"
                    /\ q = [op |-> "del", cid |-> told]
                 \/ role = "slot" /\ pc = "start" /\ label = "result" /\ q.op = "inp"
<1>0. "cores" \in Labels /\ "id" \in Labels /\ "gone" \in Labels /\ "result" \in Labels
  BY DEF Labels
<1>1. CASE GetCores
  <2>. DEFINE q == [op |-> "get", text |-> <<"cores">>]
  <2>1. q \in Requests
    BY DEF Requests
  <2>2. role = "control" /\ pc = "start" /\ Send(q, "cores")
    BY <1>1 DEF GetCores
  <2>3. q = [op |-> "get", text |-> <<"cores">>]
    OBVIOUS
  <2>. HIDE DEF q
  <2>. QED  BY ONLY <1>0, <2>1, <2>2, <2>3, Zenon
<1>2. CASE SendCommand
  <2>1. PICK t \in Commands : pc = "connected" /\ Send([op |-> "com", text |-> t], "id")
    BY <1>2 DEF SendCommand
  <2>. DEFINE q == [op |-> "com", text |-> t]
  <2>2. q \in Requests /\ q.op = "com"
    BY DEF Requests
  <2>3. role = "control" /\ pc = "connected"
    BY <2>1 DEF Typed
  <2>4. Send(q, "id")
    BY <2>1
  <2>. HIDE DEF q
  <2>. QED  BY ONLY <1>0, <2>2, <2>3, <2>4, Zenon
<1>3. CASE DropConnection
  <2>. DEFINE q == [op |-> "del", cid |-> told]
  <2>1. pc = "drop" /\ Send(q, "gone")
    BY <1>3 DEF DropConnection
  <2>2. q \in Requests
    BY DEF Typed, Requests
  <2>3. role = "control"
    BY <2>1 DEF Typed
  <2>4. q = [op |-> "del", cid |-> told]
    OBVIOUS
  <2>. HIDE DEF q
  <2>. QED  BY ONLY <1>0, <2>1, <2>2, <2>3, <2>4, Zenon
<1>4. CASE WriteInstruction
  <2>1. PICK j \in Jids, t \in Texts :
           role = "slot" /\ pc = "start"
             /\ Send([op |-> "inp", cid |-> told, jid |-> j, text |-> t], "result")
    BY <1>4 DEF WriteInstruction
  <2>. DEFINE q == [op |-> "inp", cid |-> told, jid |-> j, text |-> t]
  <2>2. q \in Requests /\ q.op = "inp"
    BY DEF Typed, Requests
  <2>3. role = "slot" /\ pc = "start" /\ Send(q, "result")
    BY <2>1
  <2>. HIDE DEF q
  <2>. QED  BY ONLY <1>0, <2>2, <2>3, Zenon
<1>. QED  BY <1>1, <1>2, <1>3, <1>4

(* The steps of a client that read.                                         *)
LEMMA Reads ==
    ASSUME Typed, ReadCores \/ ReadId \/ ReadResults
    PROVE  /\ UNCHANGED <<role, asked, toServer, buf, stream, event, commands, reply>>
           /\ toClient' \in Seq(Bytes) /\ told' \in Numbers
           /\ \/ role = "control" /\ pc = "cores" /\ pc' \in {"connected", "gone"} /\ UNCHANGED told
              \/ role = "control" /\ pc = "id" /\ pc' = "drop"
              \/ role = "slot" /\ pc = "result" /\ pc' = "start" /\ UNCHANGED told
<1>1. toClient \in Seq(Bytes) /\ told \in Numbers
  BY DEF Typed
<1>2. /\ Pop(Line(toClient)) \in Seq(Bytes) /\ Rest(toClient) \in Seq(Bytes)
      /\ Rest(Rest(Rest(toClient))) \in Seq(Bytes)
  <2>1. \A s \in Seq(Bytes) : Rest(s) \in Seq(Bytes) /\ Pop(Line(s)) \in Seq(Bytes)
    BY LineBegins
  <2>. QED  BY <1>1, <2>1
<1>3. CASE ReadCores
  <2>1. /\ UNCHANGED <<role, told, asked, toServer, buf, stream, event, commands, reply>>
        /\ pc = "cores" /\ pc' \in {"connected", "gone"} /\ toClient' \in Unbuffered(Rest(toClient))
    BY <1>3 DEF ReadCores
  <2>2. role = "control"
    BY <2>1 DEF Typed
  <2>3. toClient' \in Seq(Bytes)
    BY <1>2, <2>1, UnbufferedBytes
  <2>. QED  BY <1>1, <2>1, <2>2, <2>3
<1>4. CASE ReadId
  <2>. DEFINE id == Pop(Line(toClient))
  <2>1. /\ UNCHANGED <<role, asked, toServer, buf, stream, event, commands, reply>>
        /\ pc = "id" /\ pc' = "drop" /\ toClient' \in Unbuffered(Rest(toClient))
        /\ told' = IF IsNumber(id) THEN id ELSE told
    BY <1>4, Zenon DEF ReadId
  <2>2. role = "control"
    BY <2>1 DEF Typed
  <2>3. toClient' \in Seq(Bytes)
    BY <1>2, <2>1, UnbufferedBytes
  <2>4. told' \in Numbers
    <3>1. id \in Seq(Bytes)
      BY <1>2
    <3>. HIDE DEF id
    <3>. QED  BY <1>1, <2>1, <3>1 DEF Numbers
  <2>. QED  BY <2>1, <2>2, <2>3, <2>4
<1>5. CASE ReadResults
  <2>1. /\ UNCHANGED <<role, told, asked, toServer, buf, stream, event, commands, reply>>
        /\ pc = "result" /\ pc' = "start"
        /\ toClient' \in Unbuffered(Rest(Rest(Rest(toClient))))
    BY <1>5, Zenon DEF ReadResults
  <2>2. role = "slot"
    BY <2>1 DEF Typed
  <2>3. toClient' \in Seq(Bytes)
    BY <1>2, <2>1, UnbufferedBytes
  <2>. QED  BY <1>1, <2>1, <2>2, <2>3
<1>. QED  BY <1>3, <1>4, <1>5

(* A reply is put behind what is on its way to the client.                  *)
LEMMA Served ==
    ASSUME Typed, Serve
    PROVE  /\ UNCHANGED <<role, pc, told, asked, toServer, buf, stream, result>>
           /\ event # None /\ event \in Events /\ event' = None
           /\ \E r \in Answers(event) :
                 /\ reply' = r
                 /\ Encode(r) \in Seq(Bytes)
                 /\ toClient' = IF stream = "up" THEN toClient \o Encode(r) ELSE toClient
                 /\ toClient' \in Seq(Bytes)
                 /\ event.op = "com" =>
                       commands' = commands \cup
                          {[cid |-> r.text, text |-> event.text, tokens |-> Tokens(event.text)]}
                 /\ event.op = "del" => commands' = {c \in commands : c.cid # event.cid}
                 /\ event.op \notin {"com", "del"} => commands' = commands
<1>1. /\ UNCHANGED <<role, pc, told, asked, toServer, buf, stream, result>>
      /\ event # None /\ event \in Events /\ event' = None /\ toClient \in Seq(Bytes)
  BY DEF Serve, Typed
<1>2. PICK r \in Answers(event) :
         /\ reply' = r
         /\ toClient' = IF stream = "up" THEN toClient \o Encode(r) ELSE toClient
         /\ commands' =
               CASE event.op = "com" ->
                      commands \cup {[cid |-> r.text, text |-> event.text, tokens |-> Tokens(event.text)]}
                 [] event.op = "del" -> {c \in commands : c.cid # event.cid}
                 [] OTHER -> commands
  BY DEF Serve
<1>3. Encode(r) \in Seq(Bytes)
  BY <1>1, EncodeBytes
<1>4. toClient' \in Seq(Bytes)
  <2>. DEFINE x == Encode(r)
  <2>1. toClient \o x \in Seq(Bytes)
    <3>. HIDE DEF x
    <3>. QED  BY ONLY <1>1, <1>3 DEF x
  <2>. QED  BY <1>1, <1>2, <2>1
<1>5. event.op = "com" => commands' = commands \cup {[cid |-> r.text, text |-> event.text, tokens |-> Tokens(event.text)]}
  BY <1>2, Zenon
<1>6. event.op = "del" => commands' = {c \in commands : c.cid # event.cid}
  BY <1>2, Zenon
<1>7. event.op \notin {"com", "del"} => commands' = commands
  BY <1>2, Zenon
<1>. QED  BY <1>1, <1>2, <1>3, <1>4, <1>5, <1>6, <1>7, Zenon

LEMMA DeliverLines ==
    ASSUME LineInv, Deliver
    PROVE  LineInv' /\ UnderWay' = UnderWay
<1>. USE DEF Deliver
<1>1. buf \in Seq(Bytes) /\ toServer \in Seq(Bytes)
  BY DEF LineInv, Typed
<1>2. buf' \in Seq(Bytes) /\ toServer' \in Seq(Bytes) /\ UnderWay' = UnderWay
  BY <1>1, DeliverKeeps DEF UnderWay
<1>3. Typed'
  BY <1>2 DEF LineInv, Typed
<1>4. Lost'
  BY DEF LineInv, Lost
<1>5. Arrived'
  BY <1>2, NothingAsked DEF LineInv, Arrived
<1>. QED  BY <1>2, <1>3, <1>4, <1>5 DEF LineInv

LEMMA DecodeLines ==
    ASSUME LineInv, Decode
    PROVE  LineInv'
<1>1. /\ UNCHANGED <<role, pc, told, asked, commands, reply, toClient, result>>
      /\ event = None /\ stream # "closed"
      /\ buf' \in Seq(Bytes) /\ toServer' \in Seq(Bytes)
      /\ \/ /\ event' = None /\ stream' = "closed" /\ buf' = <<>> /\ toServer' = <<>>
            /\ UnderWay' = <<>>
         \/ \E i \in 1 .. Len(UnderWay) : Taking(i)
  BY Decoded DEF LineInv
<1>2. UnderWay \in Seq(Bytes) /\ AskedFrames' = AskedFrames
  BY <1>1, UnderWayIs, NothingAsked DEF LineInv
<1>3. CASE event' = None /\ stream' = "closed" /\ buf' = <<>> /\ toServer' = <<>> /\ UnderWay' = <<>>
  <2>1. Typed'
    BY <1>1, <1>3 DEF LineInv, Typed
  <2>2. Frames(<<>>) = {}
    BY DEF Frames, Lines
  <2>3. Frames(UnderWay') \subseteq AskedFrames'
    BY <1>3, <2>2
  <2>. QED  BY <1>3, <2>1, <2>3 DEF LineInv, Lost, Arrived
<1>4. CASE \E i \in 1 .. Len(UnderWay) : Taking(i)
  <2>1. PICK i \in 1 .. Len(UnderWay) : Taking(i)
    BY <1>4
  <2>. DEFINE u == UnderWay
              f == SubSeq(u, 1, i - 2)
  <2>2. /\ FirstNewline(u, i) /\ i \in 1 .. Len(u) /\ u[i] = "LF"
        /\ event' = Parse(f) /\ event' # None /\ i >= 4
        /\ UnderWay' = SubSeq(u, i + 1, Len(u)) /\ UNCHANGED <<stream, toServer>>
    BY <2>1 DEF Taking, FirstNewline
  <2>3. f \in Frames(u) /\ u \in Seq(Bytes)
    BY <1>2, <2>2, FirstFrame
  <2>4. f \in Seq(Bytes)
    <3>. HIDE DEF u
    <3>1. 1 \in 1 .. Len(u) + 1 /\ i - 2 \in 0 .. Len(u) /\ 1 <= (i - 2) + 1
      BY <2>2
    <3>. QED  BY ONLY <2>3, <3>1, PartBytesAre
  <2>5. event' \in Events
    BY <2>2, <2>4, ParseEvent
  <2>6. Typed'
    BY <1>1, <2>2, <2>5 DEF LineInv, Typed
  <2>7. Lost'
    BY <1>1, <2>2 DEF LineInv, Lost
  <2>8. Frames(u) \subseteq AskedFrames /\ (stream = "up" => Whole(u))
    BY DEF LineInv, Arrived
  <2>9. Frames(UnderWay') \subseteq AskedFrames'
    <3>. HIDE DEF u, f
    <3>1. Frames(SubSeq(u, i + 1, Len(u))) \subseteq Frames(u)
      BY ONLY <2>2, <2>3, FramesOfRest
    <3>. QED  BY <1>2, <2>2, <2>8, <3>1
  <2>10. stream' = "up" => Whole(UnderWay')
    <3>. HIDE DEF u, f
    <3>1. Whole(u) => Whole(SubSeq(u, i + 1, Len(u)))
      BY ONLY <2>2, <2>3, HeadsOfRest
    <3>. QED  BY <2>2, <2>8, <3>1
  <2>11. \E g \in AskedFrames' : event' = Parse(g)
    BY <1>2, <2>2, <2>3, <2>8
  <2>. QED  BY <2>6, <2>7, <2>9, <2>10, <2>11 DEF LineInv, Arrived
<1>. QED  BY <1>1, <1>3, <1>4

(* What has been lost was the end.                                          *)
LEMMA Broken ==
    ASSUME LineInv, Break
    PROVE  /\ LineInv'
           /\ stream' # "up" /\ pc # "gone"
           /\ UNCHANGED <<role, pc, told, asked, buf, event, commands, reply, result>>
           /\ Begins(toClient', toClient)
           /\ \A k \in Heads(UnderWay') : k \in Heads(UnderWay) /\ UnderWay'[k] = UnderWay[k]
<1>1. /\ buf \in Seq(Bytes) /\ toServer \in Seq(Bytes) /\ toClient \in Seq(Bytes)
      /\ AskedFrames' = AskedFrames
  BY NothingAsked DEF LineInv, Typed, Break
<1>2. /\ stream = "up" /\ pc # "gone" /\ stream' = "broken" /\ toServer' = <<>>
      /\ UNCHANGED <<role, pc, told, asked, buf, event, commands, reply, result>>
  BY DEF Break
<1>3. PICK n \in 0 .. Len(toClient) : toClient' = SubSeq(toClient, 1, n)
  BY DEF Break
<1>4. toClient' \in Seq(Bytes)
  BY ONLY <1>1, <1>3, n \in 0 .. Len(toClient)
<1>5. UnderWay' = buf /\ UnderWay = buf \o toServer
  <2>1. UnderWay' = buf \o <<>>
    BY <1>2 DEF UnderWay
  <2>2. buf \o <<>> = buf
    BY ONLY <1>1, ConcatEmptySeq
  <2>. QED  BY <2>1, <2>2 DEF UnderWay
<1>6. Typed'
  BY <1>2, <1>4 DEF LineInv, Typed
<1>7. Lost'
  BY <1>2 DEF LineInv, Lost
<1>8. Frames(buf) \subseteq Frames(UnderWay)
  BY ONLY <1>1, <1>5, FramesOfJoin
<1>9. Arrived'
  BY <1>1, <1>2, <1>5, <1>8 DEF LineInv, Arrived
<1>10. \A k \in Heads(UnderWay') : k \in Heads(UnderWay) /\ UnderWay'[k] = UnderWay[k]
  BY ONLY <1>1, <1>5, HeadsOfJoin
<1>11. Begins(toClient', toClient)
  BY <1>3 DEF Begins
<1>. QED  BY <1>2, <1>6, <1>7, <1>9, <1>10, <1>11 DEF LineInv

LEMMA NextLines ==
    ASSUME LineInv, [Next]_vars
    PROVE  LineInv'
<1>0. Typed
  BY DEF LineInv
<1>1. CASE GetCores \/ SendCommand \/ DropConnection \/ WriteInstruction
  <2>1. PICK q \in Requests, label \in Labels :
           /\ Send(q, label)
           /\ \/ role = "control" /\ label \in {"cores", "id", "gone"}
              \/ role = "slot" /\ label = "result" /\ q.op = "inp"
    BY <1>0, <1>1, Sends
  <2>. QED  BY ONLY <2>1, q \in Requests, LineInv, SendLines
<1>2. CASE ReadCores \/ ReadId \/ ReadResults
  <2>1. /\ UNCHANGED <<role, asked, toServer, buf, stream, event>>
        /\ toClient' \in Seq(Bytes) /\ told' \in Numbers
        /\ \/ role = "control" /\ pc' \in {"connected", "gone", "drop"}
           \/ role = "slot" /\ pc' = "start"
    BY <1>0, <1>2, Reads
  <2>2. Typed'
    BY <1>0, <2>1 DEF Typed
  <2>. QED  BY <2>1, <2>2, QuietLines
<1>3. CASE Serve
  <2>1. /\ UNCHANGED <<role, pc, told, asked, toServer, buf, stream>> /\ event' = None
        /\ toClient' \in Seq(Bytes)
    BY <1>0, <1>3, Served
  <2>2. Typed'
    BY <1>0, <2>1 DEF Typed
  <2>. QED  BY <2>1, <2>2, QuietLines
<1>4. CASE UNCHANGED vars
  <2>1. UNCHANGED <<role, pc, told, asked, toServer, buf, stream, event, toClient>>
    BY <1>4 DEF vars
  <2>2. Typed'
    BY <1>0, <2>1 DEF Typed
  <2>. QED  BY <2>1, <2>2, QuietLines
<1>. QED  BY <1>1, <1>2, <1>3, <1>4, DeliverLines, DecodeLines, Broken DEF Next, Control, Slot

(* A line that the server works on is all of a request of one line.         *)
LEMMA OneFrame ==
    ASSUME NEW q \in Requests, OneLine(BodyOf(q)), NEW f \in Frames(LineOf(q)), Parse(f) # None
    PROVE  Parse(f) = q
<1>. DEFINE l == LineOf(q)
            n == Len(l)
<1>1. l \in Seq(Bytes) /\ n >= 3 /\ n \in Nat /\ l[n] = "LF" /\ \A k \in 1 .. n - 1 : l[k] # "LF"
  BY LineBytes, OneLineBytes
<1>2. PICK a \in 1 .. n, b \in 1 .. n :
         /\ a = 1 \/ l[a - 1] = "LF"
         /\ a <= b /\ l[b] = "LF"
         /\ f = SubSeq(l, a, b - 2)
  <2>1. f \in Frames(l) /\ l \in Seq(Bytes)
    BY <1>1
  <2>. HIDE DEF l
  <2>. QED  BY ONLY <2>1, FramesAre DEF n
<1>3. b = n
  <2>1. b \in 1 .. n - 1 => FALSE
    BY ONLY <1>1, <1>2
  <2>. QED  BY ONLY <1>1, <2>1, b \in 1 .. n
<1>4. a = 1
  <2>1. a - 1 \in 1 .. n - 1 => FALSE
    BY ONLY <1>1, <1>2
  <2>. QED  BY ONLY <1>1, <2>1, a \in 1 .. n
<1>5. FirstNewline(l, n) /\ f = SubSeq(l, 1, n - 2)
  <2>1. n \in 1 .. n
    BY <1>1
  <2>. HIDE DEF l
  <2>. QED  BY <1>1, <1>2, <1>3, <1>4, <2>1 DEF FirstNewline, n
<1>. HIDE DEF n
<1>. QED  BY <1>5, EventOfLine

LEMMA LinesAreRequests ==
    ASSUME LineInv PROVE RequestsArriveIntact
<1>. SUFFICES ASSUME event # None
              PROVE  \E i \in DOMAIN asked :
                        \/ event = asked[i]
                        \/ /\ asked[i].op # "del" /\ ~OneLine(asked[i].text)
                           /\ event \in {Parse(f) : f \in Frames(Instruction(asked[i]) \o <<"CR", "LF">>)}
  BY DEF RequestsArriveIntact
<1>1. PICK f \in AskedFrames : event = Parse(f)
  BY DEF LineInv, Arrived
<1>2. PICK i \in DOMAIN asked : f \in Frames(LineOf(asked[i]))
  BY DEF AskedFrames
<1>. DEFINE q == asked[i]
<1>3. q \in Requests
  BY DEF LineInv, Typed
<1>4. CASE OneLine(BodyOf(q))
  <2>. HIDE DEF q
  <2>1. Parse(f) = q
    BY <1>1, <1>2, <1>3, <1>4, OneFrame DEF q
  <2>. QED  BY <1>1, <2>1 DEF q
<1>5. CASE ~OneLine(BodyOf(q))
  <2>1. q.op # "del"
    <3>. SUFFICES ASSUME q.op = "del" PROVE FALSE
      OBVIOUS
    <3>1. BodyOf(q) = <<>>
      BY DEF BodyOf
    <3>2. OneLine(<<>>)
      BY DEF OneLine, Contains
    <3>. QED  BY <1>5, <3>1, <3>2
  <2>2. BodyOf(q) = q.text
    BY <2>1 DEF BodyOf
  <2>3. f \in Frames(Instruction(q) \o <<"CR", "LF">>)
    BY <1>2 DEF LineOf
  <2>4. event \in {Parse(g) : g \in Frames(Instruction(q) \o <<"CR", "LF">>)}
    BY <1>1, <2>3
  <2>. QED  BY <1>5, <2>1, <2>2, <2>4
<1>. QED  BY <1>4, <1>5

(* What decode makes of the first line under way.                           *)
LEMMA TakingEvent ==
    ASSUME Typed, NEW i \in 1 .. Len(UnderWay), Taking(i)
    PROVE  /\ event' \in Events /\ event'.op = UnderWay[1] /\ event'.op \in Words
           /\ 1 \in Heads(UnderWay)
           /\ UnderWay[i] = "LF" /\ \A k \in 1 .. i - 1 : UnderWay[k] # "LF"
           /\ i \in Nat /\ Len(UnderWay) \in Nat
<1>. DEFINE u == UnderWay
            f == SubSeq(u, 1, i - 2)
<1>1. u \in Seq(Bytes) /\ i \in 1 .. Len(u)
  BY UnderWayIs
<1>2. /\ event' = Parse(f) /\ event' # None /\ i >= 4 /\ i \in Nat /\ Len(u) \in Nat
      /\ u[i] = "LF" /\ \A k \in 1 .. i - 1 : u[k] # "LF"
  BY DEF Taking, FirstNewline
<1>. HIDE DEF u
<1>3. f \in Seq(Bytes) /\ f[1] = u[1]
  <2>1. 1 \in 1 .. Len(u) + 1 /\ i - 2 \in 0 .. Len(u) /\ 1 <= (i - 2) + 1
    BY ONLY <1>1, <1>2
  <2>2. f \in Seq(Bytes) /\ \A k \in 1 .. (i - 2) - 1 + 1 : f[k] = u[(1 - 1) + k]
    BY ONLY <1>1, <2>1, PartBytesAre
  <2>3. 1 \in 1 .. (i - 2) - 1 + 1 /\ (1 - 1) + 1 = 1
    BY ONLY <1>2
  <2>. HIDE DEF f
  <2>. QED  BY ONLY <2>2, <2>3
<1>. HIDE DEF f
<1>4. event' \in Events /\ event'.op = u[1] /\ u[1] \in Words
  BY <1>2, <1>3, ParseEvent
<1>5. 1 \in Heads(u)
  BY ONLY <1>1, <1>2 DEF Heads
<1>. QED  BY <1>2, <1>4, <1>5 DEF u

LEMMA TakingLine ==
    ASSUME Typed, NEW i \in 1 .. Len(UnderWay), Taking(i), NEW q \in Requests,
           Final(UnderWay, 1, LineOf(q))
    PROVE  /\ OneLine(BodyOf(q)) => event' = q /\ UnderWay' = <<>>
           /\ q.op = "inp" => event'.op = "inp" /\ event'.jid = q.jid
<1>. DEFINE u == UnderWay
            l == LineOf(q)
<1>1. u \in Seq(Bytes) /\ i \in 1 .. Len(u) /\ l \in Seq(Bytes)
  BY UnderWayIs, LineBytes
<1>2. u = l
  <2>1. Final(u, 1, l)
    OBVIOUS
  <2>. HIDE DEF u, l
  <2>. QED  BY ONLY <1>1, <2>1, FinalIsAll
<1>3. /\ FirstNewline(l, i) /\ event' = Parse(SubSeq(l, 1, i - 2)) /\ event' # None
      /\ UnderWay' = SubSeq(l, i + 1, Len(l))
  BY <1>2 DEF Taking
<1>4. /\ OneLine(BodyOf(q)) => event' = q
      /\ q.op = "inp" => event'.op = "inp" /\ event'.jid = q.jid
  BY <1>3, EventOfLine
<1>5. ASSUME OneLine(BodyOf(q)) PROVE UnderWay' = <<>>
  <2>1. \A k \in 1 .. Len(l) - 1 : l[k] # "LF"
    BY <1>5, OneLineBytes
  <2>2. l[i] = "LF" /\ i \in 1 .. Len(l)
    BY <1>3 DEF FirstNewline
  <2>. HIDE DEF l
  <2>3. i = Len(l)
    BY ONLY <1>1, <2>1, <2>2
  <2>4. SubSeq(l, Len(l) + 1, Len(l)) = <<>>
    BY ONLY <1>1
  <2>. QED  BY <1>3, <2>3, <2>4
<1>. QED  BY <1>4, <1>5

(* On a stream that is up there is something to be read.                    *)
LEMMA NothingReadable ==
    ASSUME toClient = <<>>, stream = "up", NEW n \in Nat \ {0}
    PROVE  ~Readable(n)
<1>1. {i \in DOMAIN toClient : toClient[i] = "LF"} = {}
  OBVIOUS
<1>2. Cardinality({i \in DOMAIN toClient : toClient[i] = "LF"}) = 0
  BY <1>1, FS_EmptySet
<1>. QED  BY <1>2 DEF Readable

-----------------------------------------------------------------------------
(* The exchanges, one request after the other, and which lines under way    *)
(* can be taken for a request: exactly those the client has sent, if no     *)
(* line of a text begins with a word.                                       *)

GetReq == [op |-> "get", text |-> <<"cores">>]

OwnDel == [op |-> "del", cid |-> told]

Stored == \E c \in commands : c.cid = told

(* The ID the client reads next.                                            *)
Given == Pop(Line(toClient))

(* The first two exchanges of a control connection. Behind them lines of    *)
(* the command's text may be under way, and answers to such.                *)
ExchangeInv ==
    (role = "control" /\ stream = "up") =>
        /\ pc \in {"start", "connected"} => event = None /\ UnderWay = <<>> /\ toClient = <<>>
        /\ pc = "cores" =>
              \/ event = None /\ UnderWay = LineOf(GetReq) /\ toClient = <<>>
              \/ event = GetReq /\ UnderWay = <<>> /\ toClient = <<>>
              \/ event = None /\ UnderWay = <<>> /\ toClient = Cores \o <<"LF">>
        /\ (pc = "id" /\ toClient = <<>>) =>
              \/ event = None /\ 1 \in Heads(UnderWay) /\ UnderWay[1] = "com"
              \/ event # None /\ event.op = "com"
        /\ (pc = "id" /\ toClient # <<>>) => Contains(toClient, "LF") /\ Given \in Cids

(* The only del is that of a client that has gone: it is the last line      *)
(* under way, and the command it names is stored until it is served.        *)
DelInv ==
    "del" \notin AskedWords =>
        /\ \A k \in Heads(UnderWay) :
              UnderWay[k] = "del" => pc = "gone" /\ Stored /\ Final(UnderWay, k, LineOf(OwnDel))
        /\ (event # None /\ event.op = "del") =>
              /\ pc = "gone" /\ Stored /\ event.cid = told
              /\ \A k \in Heads(UnderWay) : UnderWay[k] # "del"
        /\ (role = "control" /\ stream = "up" /\ pc = "drop") => Stored
        /\ (role = "control" /\ stream = "up" /\ pc = "id" /\ toClient # <<>>) =>
              \E c \in commands : c.cid = Given

(* The only com is the one the client waits for, and what is stored is its  *)
(* command, until the del is served.                                        *)
StoreInv ==
    (role = "control" /\ stream = "up" /\ "com" \notin AskedWords) =>
        /\ \A k \in Heads(UnderWay) :
              UnderWay[k] = "com" => k = 1 /\ event = None /\ pc = "id" /\ toClient = <<>>
        /\ (event # None /\ event.op = "com") =>
              /\ pc = "id" /\ toClient = <<>>
              /\ \A k \in Heads(UnderWay) : UnderWay[k] # "com"
        /\ (pc \in {"start", "cores", "connected"} \/ (pc = "id" /\ toClient = <<>>)) =>
              commands = {}
        /\ (pc = "id" /\ toClient # <<>>) => \A c \in commands : c.cid = Given
        /\ pc \in {"drop", "gone"} => \A c \in commands : c.cid = told
        /\ (pc = "gone" /\ commands # {}) =>
              \/ event # None /\ event = OwnDel
              \/ \E k \in 1 .. Len(UnderWay) :
                    k \in Heads(UnderWay) /\ Final(UnderWay, k, LineOf(OwnDel))

(* A slot has one input under way, or worked on, or answered: while the     *)
(* stream is up the reply is whole, and else it may be cut.                 *)
SlotInv ==
    (role = "slot" /\ AskedWords = {}) =>
        /\ stream = "up" =>
              \A k \in Heads(UnderWay) :
                 UnderWay[k] \in Words =>
                    /\ event = None /\ pc = "result" /\ toClient = <<>>
                    /\ Final(UnderWay, k, LineOf(LastAsked))
        /\ (stream = "up" /\ event # None) =>
              /\ pc = "result" /\ toClient = <<>>
              /\ event.op = "inp" /\ event.jid = LastAsked.jid
        /\ toClient # <<>> =>
              /\ pc = "result"
              /\ \E rep \in Outputs \cup Errors :
                    rep.jid = LastAsked.jid /\ Begins(toClient, Encode(rep))
        /\ (toClient # <<>> /\ stream = "up") =>
              /\ reply \in Outputs \cup Errors /\ reply.jid = LastAsked.jid
              /\ toClient = Encode(reply)

(* The heads a request adds: its own, and lines of its text.                *)
LEMMA SentHeads ==
    ASSUME LineInv, NEW q \in Requests, NEW label, Send(q, label)
    PROVE  /\ \A k \in Heads(UnderWay') : UnderWay'[k] \in Words =>
                 \/ k \in Heads(UnderWay) /\ UnderWay'[k] = UnderWay[k]
                 \/ stream = "up" /\ k = Len(UnderWay) + 1 /\ UnderWay'[k] = q.op
                 \/ UnderWay'[k] \in AskedWords'
           /\ stream = "up" => /\ Len(UnderWay) + 1 \in Heads(UnderWay')
                               /\ UnderWay'[Len(UnderWay) + 1] = q.op
                               /\ Final(UnderWay', Len(UnderWay) + 1, LineOf(q))
           /\ (stream = "up" /\ UnderWay = <<>>) => UnderWay' = LineOf(q)
<1>. DEFINE u == UnderWay
            l == LineOf(q)
            n == Len(u)
<1>1. /\ u \in Seq(Bytes) /\ l \in Seq(Bytes) /\ n \in Nat
      /\ stream = "up" => Whole(u)
      /\ UnderWay' = IF stream = "up" THEN u \o l ELSE u
      /\ AskedWords' = AskedWords \cup (IF q.op = "del" THEN {} ELSE LineWords(q.text))
  <2>1. Typed /\ (stream = "up" => Whole(u))
    BY DEF LineInv, Arrived
  <2>2. u \in Seq(Bytes) /\ l \in Seq(Bytes)
    BY <2>1, UnderWayIs, LineBytes
  <2>3. /\ UnderWay' = IF stream = "up" THEN u \o l ELSE u
        /\ AskedWords' = AskedWords \cup (IF q.op = "del" THEN {} ELSE LineWords(q.text))
    BY <2>1, Sent
  <2>. HIDE DEF u, l
  <2>4. n \in Nat
    BY ONLY <2>2
  <2>. QED  BY <2>1, <2>2, <2>3, <2>4
<1>2. /\ l # <<>> /\ l[1] = q.op /\ 1 \in Heads(l)
      /\ \A k \in Heads(l) : l[k] \in Words => k = 1 \/ (q.op # "del" /\ l[k] \in LineWords(q.text))
  BY HeadsOfLine, LineBytes
<1>. HIDE DEF u, l
<1>3. CASE stream = "up"
  <2>1. UnderWay' = u \o l /\ Whole(u)
    BY <1>1, <1>3
  <2>2. /\ \A k \in Heads(u \o l) :
              \/ k \in Heads(u) /\ (u \o l)[k] = u[k]
              \/ /\ Whole(u) => k - Len(u) \in Heads(l)
                 /\ k - Len(u) \in 1 .. Len(l) /\ (u \o l)[k] = l[k - Len(u)]
        /\ n + 1 \in Heads(u \o l) /\ Final(u \o l, n + 1, l)
    BY ONLY <1>1, <1>2, <2>1, HeadsOfJoin DEF n
  <2>3. (u \o l)[n + 1] = l[1]
    <3>1. Len(l) \in Nat \ {0} /\ n = Len(u)
      BY ONLY <1>1, <1>2 DEF n
    <3>. QED  BY ONLY <1>1, <3>1
  <2>4. ASSUME NEW k \in Heads(u \o l), (u \o l)[k] \in Words
        PROVE  \/ k \in Heads(u) /\ (u \o l)[k] = u[k]
               \/ k = n + 1 /\ (u \o l)[k] = q.op
               \/ (u \o l)[k] \in AskedWords'
    <3>1. k \in Nat
      BY DEF Heads
    <3>2. CASE k \in Heads(u) /\ (u \o l)[k] = u[k]
      BY <3>2
    <3>3. CASE k - n \in Heads(l) /\ (u \o l)[k] = l[k - n]
      <4>1. k - n = 1 \/ (q.op # "del" /\ l[k - n] \in LineWords(q.text))
        BY <1>2, <2>4, <3>3
      <4>2. CASE k - n = 1
        <5>1. k = n + 1
          BY ONLY <1>1, <3>1, <4>2
        <5>. QED  BY <1>2, <2>3, <5>1
      <4>3. CASE q.op # "del" /\ l[k - n] \in LineWords(q.text)
        BY <1>1, <3>3, <4>3
      <4>. QED  BY <4>1, <4>2, <4>3
    <3>4. \/ k \in Heads(u) /\ (u \o l)[k] = u[k]
          \/ k - n \in Heads(l) /\ (u \o l)[k] = l[k - n]
      BY ONLY <2>1, <2>2, k \in Heads(u \o l) DEF n
    <3>. QED  BY ONLY <3>2, <3>3, <3>4
  <2>5. u = <<>> => u \o l = l
    BY ONLY <1>1
  <2>6. (u \o l)[n + 1] = q.op
    BY <1>2, <2>3
  <2>. QED  BY ONLY <1>3, <2>1, <2>2, <2>4, <2>5, <2>6 DEF u, l, n
<1>4. CASE stream # "up"
  <2>1. UnderWay' = u
    BY <1>1, <1>4
  <2>. QED  BY ONLY <1>4, <2>1 DEF u
<1>. QED  BY <1>3, <1>4

(* Behind the first line, which decode takes, all stays as it is.           *)
LEMMA TakenHeads ==
    ASSUME Typed, NEW i \in 1 .. Len(UnderWay), Taking(i)
    PROVE  /\ \A k \in Heads(UnderWay') :
                 i + k \in Heads(UnderWay) /\ UnderWay'[k] = UnderWay[i + k] /\ k \in Nat \ {0}
           /\ \A k, l : (k \in 1 .. Len(UnderWay') /\ Len(l) \in Nat /\ Final(UnderWay, i + k, l)) =>
                           Final(UnderWay', k, l)
           /\ \A k \in Heads(UnderWay) : k = 1 \/ (k > i /\ k - i \in Heads(UnderWay'))
           /\ \A k, l : (k \in Heads(UnderWay) /\ k # 1 /\ Len(l) \in Nat /\ Final(UnderWay, k, l)) =>
                           Final(UnderWay', k - i, l)
<1>. DEFINE u == UnderWay
            r == SubSeq(u, i + 1, Len(u))
<1>1. u \in Seq(Bytes) /\ i \in 1 .. Len(u)
  BY UnderWayIs
<1>2. UnderWay' = r
  BY DEF Taking
<1>3. u[i] = "LF" /\ (\A k \in 1 .. i - 1 : u[k] # "LF") /\ i \in Nat /\ Len(u) \in Nat
  BY TakingEvent
<1>. HIDE DEF u
<1>4. /\ \A k \in Heads(r) : i + k \in Heads(u) /\ r[k] = u[i + k]
      /\ \A k \in Heads(u) : k > i => k - i \in Heads(r) /\ r[k - i] = u[k]
      /\ \A k, l : (k > i /\ Len(l) \in Nat /\ Final(u, k, l)) => Final(r, k - i, l)
  BY ONLY <1>1, <1>3, HeadsOfRest
<1>5. r \in Seq(Bytes) /\ Len(r) = Len(u) - i
  BY ONLY <1>1, RestBytes
<1>. HIDE DEF r
<1>6. ASSUME NEW k \in Heads(r) PROVE k \in Nat \ {0}
  BY ONLY <1>5, k \in Heads(r) DEF Heads
<1>7. ASSUME NEW k, NEW l, k \in 1 .. Len(r), Len(l) \in Nat, Final(u, i + k, l)
      PROVE  Final(r, k, l)
  <2>1. k \in Nat /\ i + k > i /\ (i + k) - i = k
    BY ONLY <1>3, <1>5, <1>7
  <2>2. Final(r, (i + k) - i, l)
    BY ONLY <1>4, <1>7, <2>1
  <2>. QED  BY ONLY <2>1, <2>2
<1>8. ASSUME NEW k \in Heads(u), k # 1 PROVE k > i
  <2>1. k \in 1 .. Len(u) /\ u[k - 1] = "LF" /\ k - 1 \in Nat \ {0}
    BY ONLY <1>3, <1>8 DEF Heads
  <2>2. ~(k - 1 \in 1 .. i - 1)
    BY ONLY <1>3, <2>1
  <2>. QED  BY ONLY <1>3, <2>1, <2>2
<1>9. \A k \in Heads(u) : k = 1 \/ (k > i /\ k - i \in Heads(r))
  BY ONLY <1>4, <1>8
<1>10. \A k, l : (k \in Heads(u) /\ k # 1 /\ Len(l) \in Nat /\ Final(u, k, l)) => Final(r, k - i, l)
  BY ONLY <1>4, <1>8
<1>. QED  BY <1>2, <1>4, <1>6, <1>7, <1>9, <1>10 DEF u

(* The reply to a com tells the ID of what has been stored.                 *)
LEMMA ServedId ==
    ASSUME Typed, ExchangeInv, Serve, role = "control", stream = "up", pc = "id"
    PROVE  /\ toClient' # <<>> /\ Contains(toClient', "LF") /\ Given' \in Cids
           /\ toClient = <<>> =>
                 /\ event.op = "com"
                 /\ \E c : c.cid = Given' /\ commands' = commands \cup {c}
           /\ toClient # <<>> => Given' = Given
<1>1. /\ event # None /\ event \in Events /\ toClient \in Seq(Bytes)
      /\ toClient = <<>> => event.op = "com"
      /\ toClient # <<>> => Contains(toClient, "LF") /\ Given \in Cids
  <2>1. event # None /\ event \in Events
    BY Served
  <2>. QED  BY <2>1 DEF ExchangeInv, Typed
<1>2. PICK r \in Answers(event) :
         /\ Encode(r) \in Seq(Bytes)
         /\ toClient' = toClient \o Encode(r)
         /\ event.op = "com" =>
               commands' = commands \cup
                  {[cid |-> r.text, text |-> event.text, tokens |-> Tokens(event.text)]}
  BY Served
<1>. DEFINE x == Encode(r)
<1>3. CASE toClient = <<>>
  <2>1. x = r.text \o <<"LF">> /\ r.text \in Cids
    BY <1>1, <1>3, EncodeBytes
  <2>2. r.text \in Numbers
    BY <2>1, ConstantTypes
  <2>3. toClient' = x
    <3>1. toClient' = <<>> \o x /\ x \in Seq(Bytes)
      BY <1>2, <1>3
    <3>. HIDE DEF x
    <3>. QED  BY ONLY <3>1
  <2>4. Pop(Line(x)) = r.text
    BY <2>1, <2>2, NumberLine
  <2>5. x # <<>> /\ Contains(x, "LF")
    <3>. DEFINE t == r.text
    <3>1. t \in Seq(Bytes) /\ "LF" \in Bytes /\ x = t \o <<"LF">>
      BY <2>1, <2>2, NumberBytes DEF Bytes
    <3>. HIDE DEF t, x
    <3>2. Len(x) = Len(t) + 1 /\ Len(t) \in Nat /\ x[Len(t) + 1] = "LF"
      BY ONLY <3>1
    <3>3. Len(x) \in 1 .. Len(x) /\ x[Len(x)] = "LF" /\ x # <<>>
      BY ONLY <3>2
    <3>. QED  BY ONLY <3>3 DEF Contains
  <2>6. Given' = r.text
    BY <2>3, <2>4 DEF Given
  <2>. DEFINE c == [cid |-> r.text, text |-> event.text, tokens |-> Tokens(event.text)]
  <2>7. c.cid = Given' /\ commands' = commands \cup {c}
    BY <1>1, <1>2, <1>3, <2>6
  <2>. HIDE DEF c, x
  <2>. QED  BY <1>1, <1>3, <2>1, <2>3, <2>5, <2>6, <2>7
<1>4. CASE toClient # <<>>
  <2>. HIDE DEF x
  <2>1. x \in Seq(Bytes) /\ toClient' = toClient \o x
    BY <1>2 DEF x
  <2>2. Contains(toClient', "LF") /\ Line(toClient') = Line(toClient)
    BY ONLY <1>1, <1>4, <2>1, FirstLineStays
  <2>3. toClient' # <<>>
    BY <2>2 DEF Contains
  <2>4. Given' = Given
    BY <2>2 DEF Given
  <2>. QED  BY <1>1, <1>4, <2>2, <2>3, <2>4
<1>. QED  BY <1>3, <1>4

LEMMA ReadGiven ==
    ASSUME Typed, ExchangeInv, ReadId, stream = "up"
    PROVE  toClient # <<>> /\ told' = Given
<1>1. /\ pc = "id" /\ Readable(1)
      /\ told' = IF IsNumber(Given) THEN Given ELSE told
  BY DEF ReadId, Given
<1>2. role = "control"
  BY <1>1 DEF Typed
<1>3. toClient # <<>>
  BY <1>1, NothingReadable
<1>4. Given \in Numbers
  BY <1>1, <1>2, <1>3, ConstantTypes DEF ExchangeInv
<1>. QED  BY <1>1, <1>3, <1>4 DEF Numbers

(* The reply to get cores is all there is.                                  *)
LEMMA CoresAreRead ==
    ASSUME toClient = Cores \o <<"LF">>, toClient' \in Unbuffered(Rest(toClient))
    PROVE  toClient' = <<>>
<1>1. Cores \in Numbers
  <2>1. "2" \in Digits /\ "2" \in Bytes
    BY DEF Digits, Bytes
  <2>. DEFINE d == "2"
  <2>2. d \in Digits /\ d \in Bytes /\ Cores = <<d>>
    BY <2>1 DEF Cores
  <2>. HIDE DEF d
  <2>3. Cores \in Seq(Bytes) /\ Cores # <<>> /\ \A i \in DOMAIN Cores : Cores[i] \in Digits
    BY ONLY <2>2
  <2>. QED  BY <2>3 DEF Numbers, IsNumber
<1>2. Rest(toClient) = <<>>
  BY <1>1, NumberLine
<1>. QED  BY <1>2, NothingIsLeft

LEMMA NextExchange ==
    ASSUME LineInv, ExchangeInv, [Next]_vars
    PROVE  ExchangeInv'
<1>0. Typed
  BY DEF LineInv
<1>1. CASE GetCores \/ SendCommand \/ DropConnection \/ WriteInstruction
  <2>1. PICK q \in Requests, label \in Labels :
           /\ Send(q, label)
           /\ \/ /\ role = "control" /\ pc = "start" /\ label = "cores" /\ q = GetReq
              \/ role = "control" /\ pc = "connected" /\ label = "id" /\ q.op = "com"
              \/ role = "control" /\ pc = "drop" /\ label = "gone"
              \/ role = "slot"
    BY <1>0, <1>1, Sends DEF GetReq
  <2>2. /\ UNCHANGED <<role, stream, event, toClient>> /\ pc' = label
    BY <1>0, <2>1, Sent
  <2>3. /\ stream = "up" => /\ Len(UnderWay) + 1 \in Heads(UnderWay')
                            /\ UnderWay'[Len(UnderWay) + 1] = q.op
        /\ (stream = "up" /\ UnderWay = <<>>) => UnderWay' = LineOf(q)
    BY <2>1, SentHeads
  <2>4. UnderWay = <<>> => Len(UnderWay) + 1 = 1
    OBVIOUS
  <2>. QED  BY <2>1, <2>2, <2>3, <2>4 DEF ExchangeInv
<1>2. CASE ReadCores \/ ReadId \/ ReadResults
  <2>1. /\ UNCHANGED <<role, stream, event, UnderWay>>
        /\ \/ role = "control" /\ pc = "cores" /\ pc' \in {"connected", "gone"} /\ UNCHANGED told
           \/ role = "control" /\ pc = "id" /\ pc' = "drop"
           \/ role = "slot" /\ pc = "result" /\ pc' = "start" /\ UNCHANGED told
    BY <1>0, <1>2, Reads DEF UnderWay
  <2>2. ASSUME ReadCores, role = "control", stream = "up"
        PROVE  event = None /\ UnderWay = <<>> /\ toClient' = <<>>
    <3>1. pc = "cores" /\ Readable(1) /\ toClient' \in Unbuffered(Rest(toClient))
      BY <2>2 DEF ReadCores
    <3>2. toClient # <<>>
      BY <2>2, <3>1, NothingReadable
    <3>3. event = None /\ UnderWay = <<>> /\ toClient = Cores \o <<"LF">>
      BY <2>2, <3>1, <3>2 DEF ExchangeInv
    <3>. QED  BY <3>1, <3>3, CoresAreRead
  <2>3. pc = "cores" => ReadCores
    BY <1>2 DEF ReadId, ReadResults
  <2>. QED  BY <2>1, <2>2, <2>3 DEF ExchangeInv
<1>3. CASE Deliver
  <2>1. UNCHANGED <<role, pc, stream, event, toClient, UnderWay>>
    BY <1>3, DeliverLines DEF Deliver
  <2>. QED  BY <2>1 DEF ExchangeInv, Given
<1>4. CASE Decode
  <2>1. /\ UNCHANGED <<role, pc, toClient>> /\ event = None
        /\ stream' # "up" \/ \E i \in 1 .. Len(UnderWay) : Taking(i)
    BY <1>0, <1>4, Decoded
  <2>2. ASSUME NEW i \in 1 .. Len(UnderWay), Taking(i), role = "control", stream = "up"
        PROVE  ExchangeInv'
    <3>1. UNCHANGED stream /\ event' \in Events /\ event'.op = UnderWay[1] /\ event' # None
      BY <1>0, <2>2, TakingEvent DEF Taking
    <3>2. UnderWay # <<>>
      BY <2>2
    <3>3. ASSUME pc = "cores" PROVE event' = GetReq /\ UnderWay' = <<>> /\ toClient = <<>>
      <4>1. UnderWay = LineOf(GetReq) /\ toClient = <<>>
        BY <2>2, <3>2, <3>3 DEF ExchangeInv
      <4>2. GetReq \in Requests
        BY DEF GetReq, Requests
      <4>3. Final(UnderWay, 1, LineOf(GetReq))
        <5>. DEFINE l == LineOf(GetReq)
        <5>1. l \in Seq(Bytes) /\ Len(l) >= 3
          BY <4>2, LineBytes
        <5>. HIDE DEF l
        <5>2. Final(l, 1, l)
          BY ONLY <5>1 DEF Final
        <5>. QED  BY <4>1, <5>2 DEF l
      <4>4. OneLine(BodyOf(GetReq))
        BY DEF OneLine, BodyOf, GetReq, Contains
      <4>. QED  BY <1>0, <2>2, <4>1, <4>2, <4>3, <4>4, TakingLine
    <3>4. pc \notin {"start", "connected"}
      BY <2>2, <3>2 DEF ExchangeInv
    <3>5. (pc = "id" /\ toClient = <<>>) => UnderWay[1] = "com"
      BY <2>1, <2>2 DEF ExchangeInv
    <3>6. (pc = "id" /\ toClient # <<>>) => Contains(toClient, "LF") /\ Given \in Cids
      BY <2>2 DEF ExchangeInv
    <3>7. Given' = Given
      BY <2>1 DEF Given
    <3>. QED  BY <2>1, <3>1, <3>3, <3>4, <3>5, <3>6, <3>7 DEF ExchangeInv
  <2>3. ASSUME NEW i \in 1 .. Len(UnderWay), Taking(i)
        PROVE  ExchangeInv'
    <3>1. UNCHANGED stream
      BY <2>3 DEF Taking
    <3>. QED  BY <2>1, <2>2, <2>3, <3>1 DEF ExchangeInv
  <2>. QED  BY <2>1, <2>3 DEF ExchangeInv
<1>5. CASE Serve
  <2>1. /\ UNCHANGED <<role, pc, stream, UnderWay>> /\ event # None /\ event \in Events
        /\ event' = None /\ toClient \in Seq(Bytes)
    BY <1>0, <1>5, Served DEF UnderWay, Typed
  <2>2. ASSUME role = "control", stream = "up", pc = "cores"
        PROVE  UnderWay = <<>> /\ toClient' = Cores \o <<"LF">>
    <3>1. event = GetReq /\ UnderWay = <<>> /\ toClient = <<>>
      BY <2>1, <2>2 DEF ExchangeInv
    <3>2. PICK r \in Answers(event) : Encode(r) \in Seq(Bytes) /\ toClient' = toClient \o Encode(r)
      BY <1>0, <1>5, <2>2, Served
    <3>3. event.op = "get" /\ event.text = <<"cores">>
      BY <3>1 DEF GetReq
    <3>4. Encode(r) = r.text \o <<"LF">> /\ r.text = Cores
      BY <2>1, <3>3, EncodeBytes
    <3>. DEFINE x == Encode(r)
    <3>5. toClient' = <<>> \o x /\ x \in Seq(Bytes)
      BY <3>1, <3>2
    <3>. HIDE DEF x
    <3>6. toClient' = x
      BY ONLY <3>5
    <3>. QED  BY <3>1, <3>4, <3>6 DEF x
  <2>3. (role = "control" /\ stream = "up" /\ pc = "id") =>
           toClient' # <<>> /\ Contains(toClient', "LF") /\ Given' \in Cids
    BY <1>0, <1>5, ServedId
  <2>. QED  BY <2>1, <2>2, <2>3 DEF ExchangeInv
<1>6. CASE Break
  <2>1. stream' # "up"
    BY <1>6, Broken
  <2>. QED  BY <2>1 DEF ExchangeInv
<1>7. CASE UNCHANGED vars
  BY <1>7 DEF vars, ExchangeInv, Given, UnderWay
<1>. QED  BY <1>1, <1>2, <1>3, <1>4, <1>5, <1>6, <1>7 DEF Next, Control, Slot

(* The del of a client is one line, and so all of it is worked on at once.  *)
LEMMA OwnDelLine ==
    ASSUME Typed
    PROVE  /\ OwnDel \in Requests /\ OneLine(BodyOf(OwnDel)) /\ OwnDel.op = "del" /\ OwnDel.cid = told
           /\ LineOf(OwnDel) \in Seq(Bytes) /\ Len(LineOf(OwnDel)) \in Nat /\ Len(LineOf(OwnDel)) >= 3
<1>1. OwnDel \in Requests /\ OwnDel.op = "del" /\ OwnDel.cid = told
  BY DEF OwnDel, Requests, Typed
<1>2. BodyOf(OwnDel) = <<>>
  BY <1>1 DEF BodyOf
<1>3. OneLine(BodyOf(OwnDel))
  BY <1>2 DEF OneLine, Contains
<1>4. LineOf(OwnDel) \in Seq(Bytes) /\ Len(LineOf(OwnDel)) >= 3
  BY <1>1, LineBytes
<1>. DEFINE l == LineOf(OwnDel)
<1>5. Len(l) \in Nat
  <2>1. l \in Seq(Bytes)
    BY <1>4
  <2>. HIDE DEF l
  <2>. QED  BY <2>1
<1>. QED  BY <1>1, <1>3, <1>4, <1>5

LEMMA DecodeDel ==
    ASSUME LineInv, DelInv, Decode
    PROVE  DelInv'
<1>0. Typed
  BY DEF LineInv
<1>1. /\ UNCHANGED <<role, pc, told, asked, commands, reply, toClient, result>>
      /\ event = None
      /\ \/ event' = None /\ stream' = "closed" /\ UnderWay' = <<>>
         \/ \E i \in 1 .. Len(UnderWay) : Taking(i)
  BY <1>0, Decoded
<1>2. AskedWords' = AskedWords /\ OwnDel' = OwnDel /\ (Stored' <=> Stored) /\ Given' = Given
  BY <1>1, NothingAsked DEF OwnDel, Stored, Given
<1>3. CASE event' = None /\ stream' = "closed" /\ UnderWay' = <<>>
  <2>1. Heads(<<>>) = {}
    BY DEF Heads
  <2>2. Heads(UnderWay') = {}
    BY <1>3, <2>1
  <2>. QED  BY <1>3, <2>2 DEF DelInv
<1>4. ASSUME NEW i \in 1 .. Len(UnderWay), Taking(i), "del" \notin AskedWords
      PROVE  DelInv'
  <2>. DEFINE l == LineOf(OwnDel)
  <2>1. /\ event' \in Events /\ event'.op = UnderWay[1] /\ 1 \in Heads(UnderWay) /\ UNCHANGED stream
    BY <1>0, <1>4, TakingEvent DEF Taking
  <2>2. l \in Seq(Bytes) /\ Len(l) \in Nat
    BY <1>0, OwnDelLine
  <2>3. \A k \in Heads(UnderWay) : UnderWay[k] = "del" => pc = "gone" /\ Stored /\ Final(UnderWay, k, l)
    BY <1>4 DEF DelInv
  <2>. HIDE DEF l
  <2>4. ASSUME NEW k \in Heads(UnderWay'), UnderWay'[k] = "del"
        PROVE  pc = "gone" /\ Stored /\ Final(UnderWay', k, l)
    <3>1. i + k \in Heads(UnderWay) /\ UnderWay[i + k] = "del" /\ k \in 1 .. Len(UnderWay')
      BY <1>0, <1>4, <2>4, TakenHeads DEF Heads
    <3>2. pc = "gone" /\ Stored /\ Final(UnderWay, i + k, l)
      BY <2>3, <3>1
    <3>. QED  BY <1>0, <1>4, <2>2, <3>1, <3>2, TakenHeads
  <2>5. ASSUME event'.op = "del"
        PROVE  pc = "gone" /\ Stored /\ event' = OwnDel /\ UnderWay' = <<>>
    <3>1. pc = "gone" /\ Stored /\ Final(UnderWay, 1, l)
      BY <2>1, <2>3, <2>5
    <3>2. event' = OwnDel /\ UnderWay' = <<>>
      BY <1>0, <1>4, <3>1, OwnDelLine, TakingLine DEF l
    <3>. QED  BY <3>1, <3>2
  <2>6. UnderWay' = <<>> => Heads(UnderWay') = {}
    BY DEF Heads
  <2>7. OwnDel.cid = told
    BY <1>0, OwnDelLine
  <2>8. /\ (role = "control" /\ stream = "up" /\ pc = "drop") => Stored
        /\ (role = "control" /\ stream = "up" /\ pc = "id" /\ toClient # <<>>) =>
              \E c \in commands : c.cid = Given
    BY <1>4 DEF DelInv
  <2>9. LineOf(OwnDel') = l
    BY <1>2 DEF l
  <2>. QED  BY ONLY <1>1, <1>2, <2>1, <2>4, <2>5, <2>6, <2>7, <2>8, <2>9 DEF DelInv
<1>5. "del" \in AskedWords => DelInv'
  BY <1>2 DEF DelInv
<1>. QED  BY <1>1, <1>3, <1>4, <1>5

LEMMA ServeDel ==
    ASSUME LineInv, ExchangeInv, DelInv, Serve
    PROVE  DelInv'
<1>0. Typed
  BY DEF LineInv
<1>1. /\ UNCHANGED <<role, pc, told, asked, stream, UnderWay>>
      /\ event # None /\ event' = None
      /\ event.op \in {"com"} => commands \subseteq commands'
      /\ event.op \notin {"com", "del"} => commands' = commands
  BY <1>0, Served DEF UnderWay
<1>2. AskedWords' = AskedWords /\ OwnDel' = OwnDel /\ LineOf(OwnDel') = LineOf(OwnDel)
  BY <1>1, NothingAsked DEF OwnDel
<1>3. ASSUME "del" \notin AskedWords PROVE DelInv'
  <2>1. event.op # "del" => commands \subseteq commands'
    BY <1>1
  <2>2. event.op = "del" => pc = "gone" /\ \A k \in Heads(UnderWay) : UnderWay[k] # "del"
    BY <1>1, <1>3 DEF DelInv
  <2>3. ASSUME NEW k \in Heads(UnderWay), UnderWay[k] = "del"
        PROVE  pc = "gone" /\ Stored' /\ Final(UnderWay, k, LineOf(OwnDel))
    <3>1. pc = "gone" /\ Stored /\ Final(UnderWay, k, LineOf(OwnDel))
      BY <1>3, <2>3 DEF DelInv
    <3>2. commands \subseteq commands'
      BY <2>1, <2>2, <2>3
    <3>. QED  BY <1>1, <3>1, <3>2 DEF Stored
  <2>4. ASSUME role = "control", stream = "up", pc = "drop" PROVE Stored'
    <3>1. Stored /\ commands \subseteq commands'
      BY <1>3, <2>1, <2>2, <2>4 DEF DelInv
    <3>. QED  BY <1>1, <3>1 DEF Stored
  <2>5. ASSUME role = "control", stream = "up", pc = "id"
        PROVE  \E c \in commands' : c.cid = Given'
    <3>1. CASE toClient = <<>>
      <4>1. \E c : c.cid = Given' /\ commands' = commands \cup {c}
        BY <1>0, <2>5, <3>1, ServedId
      <4>. QED  BY <4>1
    <3>2. CASE toClient # <<>>
      <4>1. Given' = Given
        BY <1>0, <2>5, <3>2, ServedId
      <4>2. commands \subseteq commands' /\ \E c \in commands : c.cid = Given
        BY <1>3, <2>1, <2>2, <2>5, <3>2 DEF DelInv
      <4>. QED  BY <4>1, <4>2
    <3>. QED  BY <3>1, <3>2
  <2>. QED  BY ONLY <1>1, <1>2, <2>3, <2>4, <2>5 DEF DelInv
<1>4. "del" \in AskedWords => DelInv'
  BY <1>2 DEF DelInv
<1>. QED  BY <1>3, <1>4

LEMMA NextDel ==
    ASSUME LineInv, ExchangeInv, DelInv, [Next]_vars
    PROVE  DelInv'
<1>0. Typed
  BY DEF LineInv
<1>1. CASE GetCores \/ SendCommand \/ DropConnection \/ WriteInstruction
  <2>1. PICK q \in Requests, label \in Labels :
           /\ Send(q, label)
           /\ \/ role = "control" /\ pc = "start" /\ label = "cores" /\ q.op = "get"
              \/ role = "control" /\ pc = "connected" /\ label = "id" /\ q.op = "com"
              \/ role = "control" /\ pc = "drop" /\ label = "gone" /\ q = OwnDel
              \/ role = "slot" /\ pc = "start" /\ label = "result" /\ q.op = "inp"
    BY <1>0, <1>1, Sends DEF OwnDel
  <2>2. /\ UNCHANGED <<role, told, stream, event, commands, toClient>> /\ pc' = label
        /\ AskedWords \subseteq AskedWords'
    BY <1>0, <2>1, Sent
  <2>3. OwnDel' = OwnDel /\ LineOf(OwnDel') = LineOf(OwnDel) /\ (Stored' <=> Stored) /\ Given' = Given
    BY <2>2 DEF OwnDel, Stored, Given
  <2>4. ASSUME "del" \notin AskedWords' PROVE DelInv'
    <3>1. "del" \notin AskedWords /\ pc # "gone" /\ "del" \in Words
      BY <2>1, <2>2, <2>4 DEF Words
    <3>2. /\ \A k \in Heads(UnderWay) : UnderWay[k] # "del"
          /\ event # None => event.op # "del"
          /\ (role = "control" /\ stream = "up" /\ pc = "drop") => Stored
      BY <3>1 DEF DelInv
    <3>3. ASSUME NEW k \in Heads(UnderWay'), UnderWay'[k] = "del"
          PROVE  pc' = "gone" /\ Stored /\ Final(UnderWay', k, LineOf(OwnDel))
      <4>1. stream = "up" /\ k = Len(UnderWay) + 1 /\ q.op = "del"
        BY <2>1, <2>4, <3>1, <3>2, <3>3, SentHeads
      <4>2. role = "control" /\ pc = "drop" /\ label = "gone" /\ q = OwnDel
        BY <2>1, <4>1
      <4>3. Final(UnderWay', Len(UnderWay) + 1, LineOf(q))
        BY <2>1, <4>1, SentHeads
      <4>. QED  BY <2>2, <3>2, <4>1, <4>2, <4>3
    <3>4. (role = "control" /\ stream = "up" /\ pc' = "id") => toClient = <<>>
      BY <2>1, <2>2 DEF ExchangeInv
    <3>5. pc' # "drop"
      BY <2>1, <2>2
    <3>. QED  BY ONLY <2>2, <2>3, <3>2, <3>3, <3>4, <3>5 DEF DelInv
  <2>. QED  BY <2>4 DEF DelInv
<1>2. CASE ReadCores \/ ReadId \/ ReadResults
  <2>1. /\ UNCHANGED <<role, asked, stream, event, commands, UnderWay>>
        /\ \/ role = "control" /\ pc = "cores" /\ pc' \in {"connected", "gone"}
           \/ role = "control" /\ pc = "id" /\ pc' = "drop"
           \/ role = "slot" /\ pc = "result" /\ pc' = "start"
    BY <1>0, <1>2, Reads DEF UnderWay
  <2>2. AskedWords' = AskedWords
    BY <2>1, NothingAsked
  <2>3. ASSUME "del" \notin AskedWords PROVE DelInv'
    <3>1. /\ \A k \in Heads(UnderWay) : UnderWay[k] # "del"
          /\ event # None => event.op # "del"
      BY <2>1, <2>3 DEF DelInv
    <3>2. ASSUME role = "control", stream = "up", pc' = "drop" PROVE Stored'
      <4>1. pc = "id" /\ ReadId
        BY <1>2, <2>1, <3>2 DEF ReadCores, ReadResults
      <4>2. toClient # <<>> /\ told' = Given
        BY <1>0, <3>2, <4>1, ReadGiven
      <4>3. \E c \in commands : c.cid = Given
        BY <2>3, <3>2, <4>1, <4>2 DEF DelInv
      <4>. QED  BY <2>1, <4>2, <4>3 DEF Stored
    <3>3. pc' # "id"
      BY <2>1
    <3>. QED  BY ONLY <2>1, <3>1, <3>2, <3>3 DEF DelInv
  <2>. QED  BY <2>2, <2>3 DEF DelInv
<1>3. CASE Deliver \/ UNCHANGED vars
  <2>1. UNCHANGED <<role, pc, told, asked, stream, event, commands, toClient, UnderWay>>
    BY <1>3, DeliverLines DEF Deliver, vars, UnderWay
  <2>2. /\ AskedWords' = AskedWords /\ LineOf(OwnDel)' = LineOf(OwnDel) /\ (Stored' <=> Stored)
        /\ Given' = Given
    BY <2>1, NothingAsked DEF OwnDel, Stored, Given
  <2>. QED  BY ONLY DelInv, <2>1, <2>2 DEF DelInv
<1>4. CASE Break
  <2>1. /\ stream' # "up" /\ pc # "gone" /\ UNCHANGED <<asked, event>>
        /\ \A k \in Heads(UnderWay') : k \in Heads(UnderWay) /\ UnderWay'[k] = UnderWay[k]
    BY <1>4, Broken
  <2>2. AskedWords' = AskedWords
    BY <2>1, NothingAsked
  <2>. QED  BY <2>1, <2>2 DEF DelInv
<1>. QED  BY <1>1, <1>2, <1>3, <1>4, DecodeDel, ServeDel DEF Next, Control, Slot

LEMMA DecodeStore ==
    ASSUME LineInv, StoreInv, Decode
    PROVE  StoreInv'
<1>0. Typed
  BY DEF LineInv
<1>1. /\ UNCHANGED <<role, pc, told, asked, commands, reply, toClient, result>>
      /\ event = None
      /\ stream' # "up" \/ \E i \in 1 .. Len(UnderWay) : Taking(i)
  BY <1>0, Decoded
<1>2. AskedWords' = AskedWords /\ OwnDel' = OwnDel /\ Given' = Given /\ LineOf(OwnDel') = LineOf(OwnDel)
  BY <1>1, NothingAsked DEF OwnDel, Given
<1>3. ASSUME NEW i \in 1 .. Len(UnderWay), Taking(i), role = "control", stream = "up", "com" \notin AskedWords
      PROVE  StoreInv'
  <2>. DEFINE l == LineOf(OwnDel)
  <2>1. /\ event'.op = UnderWay[1] /\ 1 \in Heads(UnderWay)
        /\ i \in Nat \ {0}
    BY <1>0, <1>3, TakingEvent
  <2>2. l \in Seq(Bytes) /\ Len(l) \in Nat
    BY <1>0, OwnDelLine
  <2>3. \A k \in Heads(UnderWay) : UnderWay[k] = "com" => k = 1 /\ pc = "id" /\ toClient = <<>>
    BY <1>3 DEF StoreInv
  <2>4. ASSUME NEW k \in Heads(UnderWay') PROVE UnderWay'[k] # "com"
    <3>1. i + k \in Heads(UnderWay) /\ UnderWay'[k] = UnderWay[i + k] /\ k \in Nat \ {0}
      BY <1>0, <1>3, TakenHeads
    <3>2. i + k # 1
      BY ONLY <2>1, <3>1
    <3>. QED  BY <2>3, <3>1, <3>2
  <2>5. event'.op = "com" => pc = "id" /\ toClient = <<>>
    BY <2>1, <2>3
  <2>6. ASSUME pc = "gone", commands # {}
        PROVE  (event' # None /\ event' = OwnDel) \/ \E k \in 1 .. Len(UnderWay') : k \in Heads(UnderWay') /\ Final(UnderWay', k, l)
    <3>2. PICK k \in Heads(UnderWay) : Final(UnderWay, k, l)
      BY <1>1, <1>3, <2>6 DEF StoreInv
    <3>. HIDE DEF l
    <3>3. CASE k = 1
      <4>1. Final(UnderWay, 1, l)
        BY <3>2, <3>3
      <4>. QED  BY <1>0, <1>3, <4>1, OwnDelLine, TakingLine DEF l, Taking
    <3>4. CASE k # 1
      <4>1. k - i \in Heads(UnderWay') /\ Final(UnderWay', k - i, l)
        BY <1>0, <1>3, <2>2, <3>2, <3>4, TakenHeads
      <4>. QED  BY <4>1 DEF Heads
    <3>. QED  BY <3>3, <3>4
  <2>7. /\ (pc \in {"start", "cores", "connected"} \/ (pc = "id" /\ toClient = <<>>)) => commands = {}
        /\ (pc = "id" /\ toClient # <<>>) => \A c \in commands : c.cid = Given
        /\ pc \in {"drop", "gone"} => \A c \in commands : c.cid = told
    BY <1>3 DEF StoreInv
  <2>. HIDE DEF l
  <2>8. LineOf(OwnDel') = l
    BY <1>2 DEF l
  <2>. QED  BY ONLY <1>1, <1>2, <2>4, <2>5, <2>6, <2>7, <2>8 DEF StoreInv
<1>4. ASSUME NEW i \in 1 .. Len(UnderWay), Taking(i)
      PROVE  StoreInv'
  <2>1. UNCHANGED stream
    BY <1>4 DEF Taking
  <2>. QED  BY <1>1, <1>2, <1>3, <1>4, <2>1 DEF StoreInv
<1>. QED  BY <1>1, <1>4 DEF StoreInv

LEMMA ServeStore ==
    ASSUME LineInv, ExchangeInv, StoreInv, Serve
    PROVE  StoreInv'
<1>0. Typed
  BY DEF LineInv
<1>1. /\ UNCHANGED <<role, pc, told, asked, stream, UnderWay>>
      /\ event # None /\ event' = None
      /\ event.op = "del" => commands' = {c \in commands : c.cid # event.cid}
      /\ event.op \notin {"com", "del"} => commands' = commands
  BY <1>0, Served DEF UnderWay
<1>2. AskedWords' = AskedWords /\ OwnDel' = OwnDel /\ LineOf(OwnDel') = LineOf(OwnDel)
  BY <1>1, NothingAsked DEF OwnDel
<1>3. ASSUME role = "control", stream = "up", "com" \notin AskedWords PROVE StoreInv'
  <2>1. \A k \in Heads(UnderWay) : UnderWay[k] # "com"
    BY <1>1, <1>3 DEF StoreInv
  <2>2. event.op = "com" => pc = "id" /\ toClient = <<>>
    BY <1>1, <1>3 DEF StoreInv
  <2>3. event.op # "com" => commands' \subseteq commands
    BY <1>1
  <2>4. pc = "id" => toClient' # <<>>
    BY <1>0, <1>3, ServedId
  <2>5. ASSUME pc = "id" PROVE \A c \in commands' : c.cid = Given'
    <3>1. CASE toClient = <<>>
      <4>1. commands = {}
        BY <1>3, <2>5, <3>1 DEF StoreInv
      <4>2. \E c : c.cid = Given' /\ commands' = commands \cup {c}
        BY <1>0, <1>3, <2>5, <3>1, ServedId
      <4>. QED  BY <4>1, <4>2
    <3>2. CASE toClient # <<>>
      <4>1. Given' = Given
        BY <1>0, <1>3, <2>5, <3>2, ServedId
      <4>2. \A c \in commands : c.cid = Given
        BY <1>3, <2>5, <3>2 DEF StoreInv
      <4>. QED  BY <2>2, <2>3, <3>2, <4>1, <4>2
    <3>. QED  BY <3>1, <3>2
  <2>6. pc \in {"start", "cores", "connected"} => commands' = {}
    <3>1. pc \in {"start", "cores", "connected"} => commands = {}
      BY <1>3 DEF StoreInv
    <3>. QED  BY <2>2, <2>3, <3>1
  <2>7. pc \in {"drop", "gone"} => \A c \in commands' : c.cid = told
    <3>1. pc \in {"drop", "gone"} => \A c \in commands : c.cid = told
      BY <1>3 DEF StoreInv
    <3>. QED  BY <2>2, <2>3, <3>1
  <2>8. ASSUME pc = "gone", commands' # {}
        PROVE  \E k \in 1 .. Len(UnderWay) : k \in Heads(UnderWay) /\ Final(UnderWay, k, LineOf(OwnDel))
    <3>1. commands # {} /\ \A c \in commands : c.cid = told
      BY <1>3, <2>2, <2>3, <2>8 DEF StoreInv
    <3>2. event # OwnDel
      <4>. SUFFICES ASSUME event = OwnDel PROVE FALSE
        OBVIOUS
      <4>1. event.op = "del" /\ event.cid = told
        BY <1>0, OwnDelLine
      <4>2. commands' = {}
        BY <1>1, <3>1, <4>1
      <4>. QED  BY <2>8, <4>2
    <3>. QED  BY <1>3, <2>8, <3>1, <3>2 DEF StoreInv
  <2>. QED  BY ONLY <1>1, <1>2, <2>1, <2>4, <2>5, <2>6, <2>7, <2>8 DEF StoreInv
<1>. QED  BY <1>1, <1>2, <1>3 DEF StoreInv

LEMMA NextStore ==
    ASSUME LineInv, ExchangeInv, StoreInv, [Next]_vars
    PROVE  StoreInv'
<1>0. Typed
  BY DEF LineInv
<1>1. CASE GetCores \/ SendCommand \/ DropConnection \/ WriteInstruction
  <2>1. PICK q \in Requests, label \in Labels :
           /\ Send(q, label)
           /\ \/ role = "control" /\ pc = "start" /\ label = "cores" /\ q.op = "get"
              \/ role = "control" /\ pc = "connected" /\ label = "id" /\ q.op = "com"
              \/ role = "control" /\ pc = "drop" /\ label = "gone" /\ q = OwnDel
              \/ role = "slot"
    BY <1>0, <1>1, Sends DEF OwnDel
  <2>2. /\ UNCHANGED <<role, told, stream, event, commands, toClient>> /\ pc' = label
        /\ AskedWords \subseteq AskedWords'
    BY <1>0, <2>1, Sent
  <2>3. OwnDel' = OwnDel /\ LineOf(OwnDel') = LineOf(OwnDel) /\ Given' = Given
    BY <2>2 DEF OwnDel, Given
  <2>4. ASSUME role = "control", stream = "up", "com" \notin AskedWords' PROVE StoreInv'
    <3>1. "com" \notin AskedWords /\ pc \in {"start", "connected", "drop"} /\ "com" \in Words
      BY <2>1, <2>2, <2>4 DEF Words
    <3>2. /\ \A k \in Heads(UnderWay) : UnderWay[k] # "com"
          /\ event # None => event.op # "com"
          /\ pc \in {"start", "connected"} => commands = {}
          /\ pc = "drop" => \A c \in commands : c.cid = told
      BY <2>4, <3>1 DEF StoreInv
    <3>3. pc = "connected" => event = None /\ UnderWay = <<>> /\ toClient = <<>>
      BY <2>4 DEF ExchangeInv
    <3>4. ASSUME NEW k \in Heads(UnderWay'), UnderWay'[k] = "com"
          PROVE  k = 1 /\ event = None /\ label = "id" /\ toClient = <<>>
      <4>1. k = Len(UnderWay) + 1 /\ q.op = "com"
        BY <2>1, <2>4, <3>1, <3>2, <3>4, SentHeads
      <4>2. pc = "connected" /\ label = "id"
        BY <1>0, <2>1, <2>4, <4>1, OwnDelLine
      <4>3. Len(UnderWay) = 0
        BY <3>3, <4>2
      <4>. QED  BY <3>3, <4>1, <4>2, <4>3
    <3>5. label = "gone" =>
             \E k \in 1 .. Len(UnderWay') : k \in Heads(UnderWay') /\ Final(UnderWay', k, LineOf(OwnDel))
      <4>1. /\ Len(UnderWay) + 1 \in Heads(UnderWay')
            /\ Final(UnderWay', Len(UnderWay) + 1, LineOf(q))
        BY <2>1, <2>4, SentHeads
      <4>2. label = "gone" => q = OwnDel
        BY <2>1, <2>4
      <4>. QED  BY <4>1, <4>2 DEF Heads
    <3>6. /\ label = "gone" => pc = "drop"
          /\ label \in {"cores", "id"} => pc \in {"start", "connected"}
          /\ label = "id" => pc = "connected"
          /\ label \in {"cores", "id", "gone"}
      BY <2>1, <2>4
    <3>. QED  BY ONLY <2>2, <2>3, <3>2, <3>3, <3>4, <3>5, <3>6 DEF StoreInv
  <2>. QED  BY <2>2, <2>4 DEF StoreInv
<1>2. CASE ReadCores \/ ReadId \/ ReadResults
  <2>1. /\ UNCHANGED <<role, asked, stream, event, commands, UnderWay>>
        /\ \/ role = "control" /\ pc = "cores" /\ pc' \in {"connected", "gone"}
           \/ role = "control" /\ pc = "id" /\ pc' = "drop"
           \/ role = "slot"
    BY <1>0, <1>2, Reads DEF UnderWay
  <2>2. AskedWords' = AskedWords
    BY <2>1, NothingAsked
  <2>3. ASSUME role = "control", stream = "up", "com" \notin AskedWords PROVE StoreInv'
    <3>1. pc = "id" => toClient # <<>> /\ told' = Given
      <4>1. pc = "id" => ReadId
        BY <1>2 DEF ReadCores, ReadResults
      <4>. QED  BY <1>0, <2>3, <4>1, ReadGiven
    <3>2. /\ \A k \in Heads(UnderWay) : UnderWay[k] # "com"
          /\ event # None => event.op # "com"
      BY <2>1, <2>3, <3>1 DEF StoreInv
    <3>3. pc = "cores" => commands = {}
      BY <2>3 DEF StoreInv
    <3>4. pc = "id" => \A c \in commands : c.cid = told'
      BY <2>3, <3>1 DEF StoreInv
    <3>. QED  BY ONLY <2>1, <2>3, <3>2, <3>3, <3>4 DEF StoreInv
  <2>. QED  BY <2>1, <2>2, <2>3 DEF StoreInv
<1>3. CASE Deliver \/ UNCHANGED vars
  <2>1. UNCHANGED <<role, pc, told, asked, stream, event, commands, toClient, UnderWay>>
    BY <1>3, DeliverLines DEF Deliver, vars, UnderWay
  <2>2. /\ AskedWords' = AskedWords /\ LineOf(OwnDel)' = LineOf(OwnDel) /\ OwnDel' = OwnDel
        /\ Given' = Given
    BY <2>1, NothingAsked DEF OwnDel, Given
  <2>. QED  BY ONLY StoreInv, <2>1, <2>2 DEF StoreInv
<1>4. CASE Break
  <2>1. stream' # "up"
    BY <1>4, Broken
  <2>. QED  BY <2>1 DEF StoreInv
<1>. QED  BY <1>1, <1>2, <1>3, <1>4, DecodeStore, ServeStore DEF Next, Control, Slot

-----------------------------------------------------------------------------
(* The stream of a slot: one input, and the reply to it.                    *)

LEMMA LastInput ==
    ASSUME Typed, role = "slot", pc = "result"
    PROVE  LastAsked \in Requests /\ LastAsked.op = "inp" /\ LastAsked.jid \in Numbers
<1>1. asked \in Seq(Requests) /\ asked # <<>> /\ \A i \in DOMAIN asked : asked[i].op = "inp"
  BY DEF Typed
<1>2. Len(asked) \in DOMAIN asked
  BY ONLY <1>1
<1>3. LastAsked \in Requests /\ LastAsked.op = "inp"
  BY <1>1, <1>2 DEF LastAsked
<1>. QED  BY <1>3, RequestKinds

(* A line that ends a sequence begins at one place only.                    *)
LEMMA FinalOnce ==
    ASSUME NEW s \in Seq(Bytes), NEW l \in Seq(Bytes), NEW j, NEW k,
           Final(s, j, l), Final(s, k, l)
    PROVE  j = k
<1>1. Len(s) \in Nat /\ Len(l) \in Nat
  OBVIOUS
<1>. QED  BY ONLY <1>1, Final(s, j, l), Final(s, k, l) DEF Final

LEMMA WholeBegins ==
    ASSUME NEW s \in Seq(Bytes) PROVE Begins(s, s)
<1>1. Len(s) \in 0 .. Len(s) /\ s = SubSeq(s, 1, Len(s))
  OBVIOUS
<1>. QED  BY ONLY <1>1 DEF Begins

LEMMA DecodeSlot ==
    ASSUME LineInv, SlotInv, Decode
    PROVE  SlotInv'
<1>0. Typed
  BY DEF LineInv
<1>1. /\ UNCHANGED <<role, pc, told, asked, commands, reply, toClient, result>>
      /\ event = None /\ stream # "closed"
      /\ stream' # "up" \/ \E i \in 1 .. Len(UnderWay) : Taking(i)
  BY <1>0, Decoded
<1>2. AskedWords' = AskedWords /\ LastAsked' = LastAsked
  BY <1>1, NothingAsked
<1>3. ASSUME NEW i \in 1 .. Len(UnderWay), Taking(i), role = "slot", stream = "up", AskedWords = {}
      PROVE  /\ pc = "result" /\ toClient = <<>> /\ event'.op = "inp" /\ event'.jid = LastAsked.jid
             /\ \A k \in Heads(UnderWay') : UnderWay'[k] \notin Words
  <2>. DEFINE l == LineOf(LastAsked)
  <2>1. /\ event'.op = UnderWay[1] /\ event'.op \in Words /\ 1 \in Heads(UnderWay)
        /\ i \in Nat \ {0}
    BY <1>0, <1>3, TakingEvent
  <2>2. \A k \in Heads(UnderWay) : UnderWay[k] \in Words => pc = "result" /\ toClient = <<>> /\ Final(UnderWay, k, l)
    BY <1>3 DEF SlotInv
  <2>3. pc = "result" /\ toClient = <<>> /\ Final(UnderWay, 1, l)
    BY <2>1, <2>2
  <2>4. LastAsked \in Requests /\ LastAsked.op = "inp"
    BY <1>0, <1>3, <2>3, LastInput
  <2>5. event'.op = "inp" /\ event'.jid = LastAsked.jid
    BY <1>0, <1>3, <2>3, <2>4, TakingLine
  <2>6. UnderWay \in Seq(Bytes) /\ l \in Seq(Bytes)
    BY <1>0, <2>4, UnderWayIs, LineBytes
  <2>. HIDE DEF l
  <2>7. ASSUME NEW k \in Heads(UnderWay'), UnderWay'[k] \in Words PROVE FALSE
    <3>1. i + k \in Heads(UnderWay) /\ UnderWay[i + k] \in Words /\ k \in Nat \ {0}
      BY <1>0, <1>3, <2>7, TakenHeads
    <3>2. Final(UnderWay, i + k, l)
      BY <2>2, <3>1
    <3>3. 1 = i + k
      BY ONLY <2>3, <2>6, <3>2, FinalOnce
    <3>. QED  BY ONLY <2>1, <3>1, <3>3
  <2>. QED  BY <2>3, <2>5, <2>7
<1>4. (stream' = "up" /\ role = "slot" /\ AskedWords = {}) =>
         /\ stream = "up" /\ pc = "result" /\ toClient = <<>>
         /\ event'.op = "inp" /\ event'.jid = LastAsked.jid
         /\ \A k \in Heads(UnderWay') : UnderWay'[k] \notin Words
  <2>1. \A i \in 1 .. Len(UnderWay) : Taking(i) => stream' = stream
    BY DEF Taking
  <2>. QED  BY <1>1, <1>3, <2>1
<1>. QED  BY ONLY SlotInv, <1>1, <1>2, <1>4 DEF SlotInv

LEMMA ServeSlot ==
    ASSUME LineInv, SlotInv, Serve
    PROVE  SlotInv'
<1>0. Typed
  BY DEF LineInv
<1>1. /\ UNCHANGED <<role, pc, told, asked, stream, UnderWay>>
      /\ event # None /\ event \in Events /\ event' = None /\ toClient \in Seq(Bytes)
  BY <1>0, Served DEF UnderWay, Typed
<1>2. AskedWords' = AskedWords /\ LastAsked' = LastAsked
  BY <1>1, NothingAsked
<1>3. PICK r \in Answers(event) :
         /\ reply' = r
         /\ toClient' = IF stream = "up" THEN toClient \o Encode(r) ELSE toClient
  BY <1>0, Served
<1>4. ASSUME role = "slot", AskedWords = {}, stream = "up"
      PROVE  /\ pc = "result"
             /\ reply' \in Outputs \cup Errors /\ reply'.jid = LastAsked.jid
             /\ toClient' = Encode(reply') /\ Begins(toClient', Encode(reply'))
  <2>1. pc = "result" /\ toClient = <<>> /\ event.op = "inp" /\ event.jid = LastAsked.jid
    BY <1>1, <1>4 DEF SlotInv
  <2>. DEFINE x == Encode(r)
  <2>2. r \in Outputs \cup Errors /\ r.jid = event.jid /\ x \in Seq(Bytes)
    BY <1>1, <2>1, EncodeBytes
  <2>3. toClient' = <<>> \o x
    BY <1>3, <1>4, <2>1
  <2>. HIDE DEF x
  <2>4. toClient' = x
    BY ONLY <2>2, <2>3
  <2>5. Begins(x, x)
    BY <2>2, WholeBegins
  <2>. QED  BY <1>3, <2>1, <2>2, <2>4, <2>5 DEF x
<1>5. (role = "slot" /\ AskedWords = {} /\ stream = "up") =>
         \A k \in Heads(UnderWay) : UnderWay[k] \notin Words
  BY <1>1 DEF SlotInv
<1>6. stream # "up" => toClient' = toClient
  BY <1>3
<1>7. ASSUME role = "slot", AskedWords = {}, toClient' # <<>>
      PROVE  /\ pc = "result"
             /\ \E rep \in Outputs \cup Errors :
                   rep.jid = LastAsked.jid /\ Begins(toClient', Encode(rep))
  <2>1. CASE stream = "up"
    BY <1>4, <1>7, <2>1
  <2>2. CASE stream # "up"
    BY <1>6, <1>7, <2>2 DEF SlotInv
  <2>. QED  BY <2>1, <2>2
<1>8. (role = "slot" /\ AskedWords = {} /\ stream = "up") =>
         /\ reply' \in Outputs \cup Errors /\ reply'.jid = LastAsked.jid
         /\ toClient' = Encode(reply')
  BY <1>4
<1>. QED  BY ONLY <1>1, <1>2, <1>5, <1>7, <1>8 DEF SlotInv

(* All of the reply is read, and what else there is is dropped.             *)
LEMMA ResultsRead ==
    ASSUME Typed, SlotInv, ReadResults, AskedWords = {}
    PROVE  toClient' = <<>>
<1>1. role = "slot" /\ toClient' \in Unbuffered(Rest(Rest(Rest(toClient))))
  BY DEF ReadResults, Typed
<1>2. Rest(Rest(Rest(toClient))) = <<>>
  <2>1. CASE toClient = <<>>
    BY <2>1, NothingIsLeft
  <2>2. CASE toClient # <<>>
    <3>1. PICK rep \in Outputs \cup Errors : Begins(toClient, Encode(rep))
      BY <1>1, <2>2 DEF SlotInv
    <3>. QED  BY <3>1, RepliesAreRead
  <2>. QED  BY <2>1, <2>2
<1>. QED  BY <1>1, <1>2, NothingIsLeft

LEMMA NextSlot ==
    ASSUME LineInv, SlotInv, [Next]_vars
    PROVE  SlotInv'
<1>0. Typed
  BY DEF LineInv
<1>1. CASE GetCores \/ SendCommand \/ DropConnection \/ WriteInstruction
  <2>1. PICK q \in Requests, label \in Labels :
           /\ Send(q, label)
           /\ role = "control" \/ (role = "slot" /\ pc = "start" /\ label = "result")
    BY <1>0, <1>1, Sends
  <2>2. /\ UNCHANGED <<role, stream, event, reply, toClient>> /\ pc' = label /\ LastAsked' = q
        /\ AskedWords \subseteq AskedWords'
    BY <1>0, <2>1, Sent
  <2>3. ASSUME role = "slot", AskedWords' = {} PROVE SlotInv'
    <3>1. AskedWords = {} /\ pc = "start" /\ label = "result"
      BY <2>1, <2>2, <2>3
    <3>2. /\ toClient = <<>>
          /\ stream = "up" => event = None
          /\ stream = "up" => \A k \in Heads(UnderWay) : UnderWay[k] \notin Words
      BY <2>3, <3>1 DEF SlotInv
    <3>3. ASSUME NEW k \in Heads(UnderWay'), UnderWay'[k] \in Words, stream = "up"
          PROVE  Final(UnderWay', k, LineOf(q))
      <4>1. k = Len(UnderWay) + 1
        BY <2>1, <2>3, <3>2, <3>3, SentHeads
      <4>. QED  BY <2>1, <3>3, <4>1, SentHeads
    <3>4. LineOf(LastAsked') = LineOf(q)
      BY <2>2
    <3>. QED  BY ONLY <2>2, <2>3, <3>1, <3>2, <3>3, <3>4 DEF SlotInv
  <2>. QED  BY <2>2, <2>3 DEF SlotInv
<1>2. CASE ReadCores \/ ReadId \/ ReadResults
  <2>1. /\ UNCHANGED <<role, asked, stream, event, reply, UnderWay>>
        /\ role = "control" \/ (role = "slot" /\ pc = "result")
    BY <1>0, <1>2, Reads DEF UnderWay
  <2>2. AskedWords' = AskedWords
    BY <2>1, NothingAsked
  <2>3. ASSUME role = "slot", AskedWords = {} PROVE SlotInv'
    <3>1. ReadResults
      BY <1>2, <2>1, <2>3 DEF ReadCores, ReadId
    <3>2. toClient' = <<>>
      BY <1>0, <2>3, <3>1, ResultsRead
    <3>3. stream = "up" => toClient # <<>>
      BY <3>1, NothingReadable DEF ReadResults
    <3>4. stream = "up" => event = None /\ \A k \in Heads(UnderWay) : UnderWay[k] \notin Words
      BY <2>3, <3>3 DEF SlotInv
    <3>. QED  BY ONLY <2>1, <3>2, <3>4 DEF SlotInv
  <2>. QED  BY <2>1, <2>2, <2>3 DEF SlotInv
<1>3. CASE Deliver \/ UNCHANGED vars
  <2>1. UNCHANGED <<role, pc, asked, stream, event, reply, toClient, UnderWay>>
    BY <1>3, DeliverLines DEF Deliver, vars, UnderWay
  <2>2. AskedWords' = AskedWords /\ LastAsked' = LastAsked
    BY <2>1, NothingAsked
  <2>. QED  BY ONLY SlotInv, <2>1, <2>2 DEF SlotInv
<1>4. CASE Break
  <2>1. /\ stream = "up" /\ stream' # "up" /\ UNCHANGED <<role, pc, asked, reply>>
        /\ Begins(toClient', toClient)
    BY <1>4, Broken DEF Break
  <2>2. AskedWords' = AskedWords /\ LastAsked' = LastAsked
    BY <2>1, NothingAsked
  <2>3. ASSUME role = "slot", AskedWords = {}, toClient' # <<>>
        PROVE  /\ pc = "result"
               /\ \E rep \in Outputs \cup Errors :
                     rep.jid = LastAsked.jid /\ Begins(toClient', Encode(rep))
    <3>1. toClient # <<>>
      BY <2>1, <2>3, PartOfNothing
    <3>2. /\ pc = "result" /\ reply \in Outputs \cup Errors /\ reply.jid = LastAsked.jid
          /\ toClient = Encode(reply)
      BY <2>1, <2>3, <3>1 DEF SlotInv
    <3>. QED  BY <2>1, <3>2
  <2>. QED  BY ONLY <2>1, <2>2, <2>3 DEF SlotInv
<1>. QED  BY <1>1, <1>2, <1>3, <1>4, DecodeSlot, ServeSlot DEF Next, Control, Slot

(* What a result is, and that it is named after the input.                  *)
LEMMA ResultTaken ==
    ASSUME Typed, ReadResults
    PROVE  /\ role = "slot" /\ pc = "result" /\ pc' = "start"
           /\ UNCHANGED <<role, asked, stream, reply>>
           /\ result' = Taken(toClient)
           /\ result' # None => /\ toClient # <<>>
                                /\ ParseStatus(Pop(Line(toClient))) # None
                                /\ result'.jid = ParseStatus(Pop(Line(toClient))).jid
<1>. DEFINE s == ParseStatus(Pop(Line(toClient)))
            rest == Rest(toClient)
            r == [jid |-> s.jid, status |-> s.status, out |-> Unescape(Pop(Line(rest))),
                  err |-> Unescape(Pop(Line(Rest(rest))))]
<1>1. pc = "result" /\ pc' = "start" /\ UNCHANGED <<role, asked, stream, reply>>
  BY DEF ReadResults
<1>2. role = "slot"
  BY <1>1 DEF Typed
<1>3. result' = IF s = None THEN None ELSE r
  BY Zenon DEF ReadResults
<1>4. Taken(toClient) = IF s = None THEN None ELSE r
  BY Zenon DEF Taken
<1>5. r.jid = s.jid
  <2>. HIDE DEF s, rest
  <2>. QED  OBVIOUS
<1>6. s # None => toClient # <<>>
  BY NoStatus
<1>. HIDE DEF s, r
<1>7. result' = Taken(toClient) /\ (result' # None => s # None /\ result'.jid = s.jid)
  BY ONLY <1>3, <1>4, <1>5
<1>. QED  BY <1>1, <1>2, <1>6, <1>7 DEF s

LEMMA ReadName ==
    ASSUME Typed, SlotInv, ReadResults
    PROVE  ResultsKeepTheirId'
<1>. DEFINE line == Pop(Line(toClient))
            s == ParseStatus(line)
<1>1. /\ role = "slot" /\ pc = "result" /\ UNCHANGED asked
      /\ result' # None => toClient # <<>> /\ s # None /\ result'.jid = s.jid
  BY ResultTaken
<1>2. AskedWords' = AskedWords /\ LastAsked' = LastAsked
  BY <1>1, NothingAsked
<1>3. ASSUME result' # None, AskedWords = {} PROVE result'.jid = LastAsked.jid
  <2>1. PICK rep \in Outputs \cup Errors :
           rep.jid = LastAsked.jid /\ Begins(toClient, Encode(rep))
    BY <1>1, <1>3 DEF SlotInv
  <2>. DEFINE a == Encode(rep)
              j == rep.jid
  <2>2. Answer(a, j) /\ a \in Seq(Bytes) /\ j \in Numbers
    BY ReplyAnswers
  <2>3. PICK n \in 0 .. Len(a) : toClient = SubSeq(a, 1, n)
    BY <2>1 DEF Begins
  <2>4. toClient \in Seq(Bytes)
    BY DEF Typed
  <2>5. PICK m \in 0 .. Len(toClient) : line = SubSeq(toClient, 1, m)
    BY <2>4, LineBegins
  <2>. HIDE DEF a, j
  <2>6. m \in 0 .. Len(a) /\ line = SubSeq(a, 1, m)
    <3>1. Len(SubSeq(a, 1, n)) = n
      BY ONLY <2>2, n \in 0 .. Len(a)
    <3>2. n = Len(toClient)
      BY <2>3, <3>1
    <3>3. m \in 0 .. n /\ m \in 0 .. Len(a)
      BY ONLY <2>2, <3>2, m \in 0 .. Len(toClient), n \in 0 .. Len(a)
    <3>4. SubSeq(SubSeq(a, 1, n), 1, m) = SubSeq(a, 1, m)
      BY ONLY <2>2, <3>3, n \in 0 .. Len(a)
    <3>. HIDE DEF line
    <3>. QED  BY ONLY <2>3, <2>5, <3>3, <3>4
  <2>7. result'.jid = s.jid /\ s # None
    BY <1>1, <1>3
  <2>. HIDE DEF line
  <2>8. ParseStatus(SubSeq(a, 1, m)) # None
    BY <2>6, <2>7 DEF s
  <2>9. ParseStatus(SubSeq(a, 1, m)).jid = j
    BY ONLY <2>2, <2>6, <2>8, StatusNames
  <2>. QED  BY <2>1, <2>6, <2>7, <2>9 DEF s, j
<1>. QED  BY <1>1, <1>2, <1>3 DEF ResultsKeepTheirId, LastAsked

(* All other steps leave the result, or take it away.                       *)
LEMMA ResultStays ==
    ASSUME Typed, [Next]_vars, ~ReadResults
    PROVE  \/ result' = None
           \/ result' = result /\ asked' = asked
<1>1. CASE GetCores \/ SendCommand \/ DropConnection \/ WriteInstruction
  BY <1>1 DEF GetCores, SendCommand, DropConnection, WriteInstruction, Send
<1>2. CASE ReadCores \/ ReadId
  BY <1>2 DEF ReadCores, ReadId
<1>3. CASE Deliver \/ Serve \/ Break \/ UNCHANGED vars
  BY <1>3 DEF Deliver, Serve, Break, vars
<1>4. CASE Decode
  BY <1>4, Decoded
<1>. QED  BY <1>1, <1>2, <1>3, <1>4 DEF Next, Control, Slot

LEMMA NextName ==
    ASSUME LineInv, SlotInv, ResultsKeepTheirId, [Next]_vars
    PROVE  ResultsKeepTheirId'
<1>0. Typed
  BY DEF LineInv
<1>1. CASE ReadResults
  BY <1>0, <1>1, ReadName
<1>2. CASE ~ReadResults
  <2>1. result' = None \/ (result' = result /\ asked' = asked)
    BY <1>0, <1>2, ResultStays
  <2>2. asked' = asked => AskedWords' = AskedWords
    BY NothingAsked
  <2>. QED  BY <2>1, <2>2 DEF ResultsKeepTheirId
<1>. QED  BY <1>1, <1>2

-----------------------------------------------------------------------------
IInv == LineInv /\ ExchangeInv /\ DelInv /\ StoreInv /\ SlotInv /\ ResultsKeepTheirId

LEMMA InitInv == Init => IInv
<1>. SUFFICES ASSUME Init PROVE IInv
  OBVIOUS
<1>1. /\ pc = "start" /\ asked = <<>> /\ toServer = <<>> /\ buf = <<>> /\ event = None
      /\ commands = {} /\ toClient = <<>> /\ result = None
  BY DEF Init
<1>2. UnderWay = <<>>
  <2>1. <<>> \o <<>> = <<>>
    OBVIOUS
  <2>. QED  BY <1>1, <2>1 DEF UnderWay
<1>3. Heads(UnderWay) = {}
  BY <1>2 DEF Heads
<1>4. LineInv
  BY InitLines
<1>5. ExchangeInv
  BY <1>1, <1>2 DEF ExchangeInv
<1>6. DelInv
  BY <1>1, <1>3 DEF DelInv
<1>7. StoreInv
  BY <1>1, <1>3 DEF StoreInv
<1>8. SlotInv
  BY <1>1, <1>3 DEF SlotInv
<1>9. ResultsKeepTheirId
  BY <1>1 DEF ResultsKeepTheirId
<1>. QED  BY <1>4, <1>5, <1>6, <1>7, <1>8, <1>9 DEF IInv

LEMMA NextInv ==
    ASSUME IInv, [Next]_vars
    PROVE  IInv'
<1>1. LineInv /\ ExchangeInv /\ DelInv /\ StoreInv /\ SlotInv /\ ResultsKeepTheirId
  BY DEF IInv
<1>2. LineInv' /\ ExchangeInv' /\ DelInv'
  BY <1>1, NextLines, NextExchange, NextDel
<1>3. StoreInv' /\ SlotInv' /\ ResultsKeepTheirId'
  BY <1>1, NextStore, NextSlot, NextName
<1>. QED  BY <1>2, <1>3 DEF IInv

(* At the end nothing is under way, or another line is there to be decoded. *)
LEMMA NothingIsUndone ==
    ASSUME IInv, pc = "gone", stream = "up", toServer = <<>>, event = None, "com" \notin AskedWords
    PROVE  Contains(buf, "LF") \/ commands = {}
<1>1. role = "control" /\ buf \in Seq(Bytes) /\ Typed
  BY DEF IInv, LineInv, Typed
<1>2. UnderWay = buf
  <2>1. buf \o <<>> = buf
    BY ONLY <1>1, ConcatEmptySeq
  <2>. QED  BY <2>1 DEF UnderWay
<1>3. ASSUME commands # {} PROVE Contains(buf, "LF")
  <2>1. PICK k \in 1 .. Len(UnderWay) : k \in Heads(UnderWay) /\ Final(UnderWay, k, LineOf(OwnDel))
    BY <1>1, <1>3 DEF IInv, StoreInv
  <2>2. buf # <<>>
    BY <1>2, <2>1
  <2>3. buf[Len(buf)] = "LF"
    BY <1>2, <2>2 DEF IInv, LineInv, Arrived, Whole
  <2>4. Len(buf) \in DOMAIN buf
    BY ONLY <1>1, <2>2
  <2>. QED  BY <2>3, <2>4 DEF Contains
<1>. QED  BY <1>3

-----------------------------------------------------------------------------
(* What a result is, while the stream is up.                                *)

ReplyInv == result # None => role = "slot" /\ pc = "start"

LEMMA NextReplies ==
    ASSUME IInv, ReplyInv, ResultsArriveIntact, [Next]_vars
    PROVE  ReplyInv' /\ ResultsArriveIntact'
<1>0. Typed /\ SlotInv
  BY DEF IInv, LineInv
<1>1. CASE ReadResults
  <2>1. /\ role = "slot" /\ pc' = "start" /\ UNCHANGED <<role, asked, stream, reply>>
        /\ result' = Taken(toClient) /\ (result' # None => toClient # <<>>)
    BY <1>0, <1>1, ResultTaken
  <2>2. AskedWords' = AskedWords
    BY <2>1, NothingAsked
  <2>3. ASSUME result' # None, stream = "up", AskedWords = {}, NoBackslash(reply.out \o reply.err)
        PROVE  result' = [jid |-> reply.jid, status |-> reply.status,
                          out |-> reply.out, err |-> reply.err]
    <3>1. reply \in Outputs \cup Errors /\ toClient = Encode(reply)
      BY <1>0, <2>1, <2>3 DEF SlotInv
    <3>2. reply \notin Errors
      BY <2>1, <2>3, <3>1, ErrorIsNoResult
    <3>3. reply \in Outputs
      BY <3>1, <3>2
    <3>. QED  BY <2>1, <2>3, <3>1, <3>3, OutputIsItsResult
  <2>. QED  BY <2>1, <2>2, <2>3 DEF ReplyInv, ResultsArriveIntact
<1>2. CASE ~ReadResults /\ result' = None
  BY <1>2 DEF ReplyInv, ResultsArriveIntact
<1>3. CASE ~ReadResults /\ result' # None
  <2>1. result' = result /\ asked' = asked /\ role = "slot" /\ pc = "start"
    BY <1>0, <1>3, ResultStays DEF ReplyInv
  <2>2. AskedWords' = AskedWords
    BY <2>1, NothingAsked
  <2>3. CASE Serve
    <3>1. UNCHANGED <<role, pc, stream>> /\ event # None
      BY <1>0, <2>3, Served
    <3>2. ~(stream = "up" /\ AskedWords = {})
      BY <1>0, <2>1, <3>1 DEF SlotInv
    <3>. QED  BY <2>1, <2>2, <3>1, <3>2 DEF ReplyInv, ResultsArriveIntact
  <2>4. CASE ~Serve
    <3>1. UNCHANGED <<role, pc, reply>> /\ (stream' = "up" => stream = "up")
      <4>1. CASE GetCores \/ SendCommand \/ DropConnection \/ WriteInstruction
        <5>1. result' = None
          BY <4>1 DEF GetCores, SendCommand, DropConnection, WriteInstruction, Send
        <5>. QED  BY <1>3, <5>1
      <4>2. CASE ReadCores \/ ReadId
        BY <1>0, <2>1, <4>2, Reads
      <4>3. CASE Deliver \/ Break \/ UNCHANGED vars
        BY <4>3 DEF Deliver, Break, vars
      <4>4. CASE Decode
        BY <4>4 DEF Decode
      <4>. QED  BY <1>3, <2>4, <4>1, <4>2, <4>3, <4>4 DEF Next, Control, Slot
    <3>. QED  BY <2>1, <2>2, <3>1 DEF ReplyInv, ResultsArriveIntact
  <2>. QED  BY <2>3, <2>4
<1>. QED  BY <1>1, <1>2, <1>3

-----------------------------------------------------------------------------
(* The commands the server has stored, and their tokens.                    *)

CommandInv == \A c \in commands : c.text \in Seq(Bytes) /\ c.tokens = Tokens(c.text)

(* What the properties let the tokens stand for.                            *)
LEMMA ValuesStand ==
    Stands([placeholder |-> <<"x", "y">>, slot |-> <<"0">>, job |-> <<"1">>])
<1>. DEFINE x == "x"
            y == "y"
            u == "0"
            v == "1"
            value == [placeholder |-> <<x, y>>, slot |-> <<u>>, job |-> <<v>>]
<1>1. x \in Characters /\ y \in Characters /\ u \in Characters /\ v \in Characters
  BY Zenon DEF Characters
<1>. HIDE DEF x, y, u, v
<1>2. <<x, y>> \in Seq(Characters) /\ <<u>> \in Seq(Characters) /\ <<v>> \in Seq(Characters)
  BY ONLY <1>1
<1>3. value["placeholder"] = <<x, y>> /\ value["slot"] = <<u>> /\ value["job"] = <<v>>
  OBVIOUS
<1>. HIDE DEF value
<1>4. Stands(value)
  BY ONLY <1>2, <1>3 DEF Stands, Kinds
<1>. QED  BY <1>4, Zenon DEF value, x, y, u, v

LEMMA InvUnderstands ==
    ASSUME CommandInv PROVE CommandIsUnderstood
<1>. DEFINE value == [placeholder |-> <<"x", "y">>, slot |-> <<"0">>, job |-> <<"1">>]
<1>. SUFFICES ASSUME NEW c \in commands
              PROVE  /\ Expand(c.tokens, value) = Replaced(c.text, value)
                     /\ Display(c.tokens) = Replaced(c.text, Literal)
  BY Zenon DEF CommandIsUnderstood
<1>1. Stands(value)
  BY ValuesStand
<1>. HIDE DEF value
<1>2. c.text \in Seq(Characters) /\ c.tokens = Tokens(c.text)
  BY BytesAreCharacters DEF CommandInv
<1>. DEFINE t == c.text
<1>3. Expand(Tokens(t), value) = Replaced(t, value) /\ Display(Tokens(t)) = Replaced(t, Literal)
  BY <1>1, <1>2, UnderstoodIs
<1>. QED  BY ONLY <1>2, <1>3

LEMMA NextCommand ==
    ASSUME IInv, CommandInv, [Next]_vars PROVE CommandInv'
<1>0. Typed
  BY DEF IInv, LineInv
<1>1. CASE Serve
  <2>1. event \in Events
    BY <1>0, <1>1, Served
  <2>2. \/ commands' \subseteq commands
        \/ /\ event.op = "com"
           /\ \E id : commands' = commands \cup
                         {[cid |-> id, text |-> event.text, tokens |-> Tokens(event.text)]}
    BY <1>0, <1>1, Served
  <2>3. event.op = "com" => event.text \in Seq(Bytes)
    BY <2>1, EventKinds
  <2>. DEFINE t == event.text
              k == Tokens(t)
  <2>4. \A id : LET c == [cid |-> id, text |-> t, tokens |-> k] IN c.text = t /\ c.tokens = Tokens(t)
    <3>1. \A id : LET c == [cid |-> id, text |-> t, tokens |-> k] IN c.text = t /\ c.tokens = k
      <4>. HIDE DEF t, k
      <4>. QED  OBVIOUS
    <3>. QED  BY <3>1
  <2>. HIDE DEF t, k
  <2>5. ASSUME NEW c \in commands' PROVE c.text \in Seq(Bytes) /\ c.tokens = Tokens(c.text)
    <3>1. CASE c \in commands
      BY <3>1 DEF CommandInv
    <3>2. CASE c \notin commands
      <4>1. PICK id : event.op = "com" /\ c = [cid |-> id, text |-> t, tokens |-> k]
        BY <2>2, <3>2 DEF t, k
      <4>. QED  BY <2>3, <2>4, <4>1 DEF t
    <3>. QED  BY <3>1, <3>2
  <2>. QED  BY <2>5 DEF CommandInv
<1>2. CASE ~Serve
  <2>1. CASE Control \/ Slot
    <3>1. commands' = commands
      BY <2>1 DEF Control, Slot, GetCores, ReadCores, SendCommand, ReadId, DropConnection,
                  WriteInstruction, ReadResults, Send
    <3>. QED  BY <3>1 DEF CommandInv
  <2>2. CASE Deliver \/ Decode \/ Break \/ UNCHANGED vars
    <3>1. commands' = commands
      BY <2>2 DEF Deliver, Decode, Break, vars
    <3>. QED  BY <3>1 DEF CommandInv
  <2>. QED  BY <1>2, <2>1, <2>2 DEF Next
<1>. QED  BY <1>1, <1>2

-----------------------------------------------------------------------------
(* IInv is an invariant: how far each exchange has come, and which lines of *)
(* what is under way the server can take for requests. Each part but the    *)
(* first two supposes that no line of a text sent so far is such a request. *)
THEOREM Invariance == Spec => []IInv
<1>1. Init => IInv
  BY InitInv
<1>2. IInv /\ [Next]_vars => IInv'
  BY NextInv
<1>. QED  BY <1>1, <1>2, PTL DEF Spec

(* For every text, instruction words and newlines included, the server      *)
(* works only on what the client has asked for, whole, or on a line of a    *)
(* request whose text has several, however the bytes came.                  *)
THEOREM RequestsIntact == Spec => []RequestsArriveIntact
<1>1. IInv => RequestsArriveIntact
  BY LinesAreRequests DEF IInv
<1>. QED  BY <1>1, Invariance, PTL

(* The server is only told to delete the command of this very stream, and   *)
(* while it is there, unless a line of a text sent on it begins with del.   *)
THEOREM OnlyOwnIsDeleted == Spec => []OnlyOwnCommandIsDeleted
<1>1. IInv => OnlyOwnCommandIsDeleted
  BY DEF IInv, DelInv, Stored, OnlyOwnCommandIsDeleted
<1>. QED  BY <1>1, Invariance, PTL

(* A client that has gone leaves no command behind, once the server has     *)
(* done all it was asked, unless a line of a text began with com.           *)
THEOREM NoCommandIsLeft == Spec => []CommandIsDeleted
<1>1. IInv => CommandIsDeleted
  BY NothingIsUndone DEF CommandIsDeleted
<1>. QED  BY <1>1, Invariance, PTL

(* A result is stored under the number of the input that was submitted,     *)
(* however the reply was cut, unless a line of an input's text was taken    *)
(* for a request.                                                           *)
THEOREM ResultsAreNamed == Spec => []ResultsKeepTheirId
<1>1. IInv => ResultsKeepTheirId
  BY DEF IInv
<1>. QED  BY <1>1, Invariance, PTL

(* What a slot takes for the output of a job is that output, however many   *)
(* newlines it has and however the request and the reply came in pieces, as *)
(* long as the stream is up, the output has no backslash, and no line of an *)
(* input's text was taken for a request.                                    *)
THEOREM ResultsIntact == Spec => []ResultsArriveIntact
<1>1. Init => ReplyInv /\ ResultsArriveIntact
  BY DEF Init, ReplyInv, ResultsArriveIntact
<1>2. IInv /\ ReplyInv /\ ResultsArriveIntact /\ [Next]_vars => ReplyInv' /\ ResultsArriveIntact'
  BY NextReplies
<1>. QED  BY <1>1, <1>2, Invariance, PTL DEF Spec

(* Whatever text a client registers, or a line of a text does, the server   *)
(* understands as it is written: the scan of Tokens::new finds the tokens   *)
(* of the reference, and a job's line and Display are the text with its     *)
(* tokens replaced.                                                         *)
THEOREM CommandsUnderstood == Spec => []CommandIsUnderstood
<1>1. Init => CommandInv
  BY DEF Init, CommandInv
<1>2. IInv /\ CommandInv /\ [Next]_vars => CommandInv'
  BY NextCommand
<1>3. CommandInv => CommandIsUnderstood
  BY InvUnderstands
<1>. QED  BY <1>1, <1>2, <1>3, Invariance, PTL DEF Spec

=============================================================================
