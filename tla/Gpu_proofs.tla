----------------------------- MODULE Gpu_proofs -----------------------------
(***************************************************************************)
(* Proofs about the GPU: its command side, for any programs, FIFO and      *)
(* block sizes, run-ahead and costs, and its video beam, for any rates,    *)
(* display modes, ranges and timers.                                       *)
(*                                                                         *)
(* What a call of gpu_try_execute_commands does is proved of one pass of   *)
(* its loop (TryStep), and of the loop from the first pass that would      *)
(* contradict it.  In the same way the beam that is moved tick by tick and *)
(* the loop over the lines drawn are both put in terms of lines and frames *)
(* passed, whole numbers that a division of the ticks gives too.           *)
(***************************************************************************)
EXTENDS GpuCommands, GpuCrtc, WellFoundedInduction, SequenceTheorems, TLAPS

-----------------------------------------------------------------------------
(* The command side.  Loops.                                               *)

(* What is true of some natural number is true of a first.                 *)
LEMMA LeastNumber ==
  ASSUME NEW T \in SUBSET Nat, T # {}
  PROVE  \E n \in T : \A m \in T : n <= m
<1> DEFINE R == OpToRel(<, Nat)
<1>1. IsWellFoundedOn(R, Nat)
  BY NatLessThanWellFounded
<1>2. R = {ss \in Nat \X Nat : ss[1] < ss[2]}
  BY DEF OpToRel
<1> HIDE DEF R
<1>3. PICK n \in T : \A m \in T : ~(<<m, n>> \in R)
  BY <1>1, WFMin
<1>4. \A m \in T : ~(m < n)
  BY <1>2, <1>3
<1> QED
  BY <1>4

GoAlike(f, h, N) == f[0] = h[0] /\ \A n \in 1..N : f[n - 1] = h[n - 1] => f[n] = h[n]

(* Two loops that begin alike and go on alike are alike.                   *)
LEMMA LoopsAgree ==
  ASSUME NEW N \in Nat, NEW f, NEW h, GoAlike(f, h, N)
  PROVE  \A n \in 0..N : f[n] = h[n]
<1> DEFINE T == {n \in 0..N : f[n] # h[n]}
<1> SUFFICES ASSUME T # {} PROVE FALSE
  OBVIOUS
<1>0. T \in SUBSET Nat
  OBVIOUS
<1>1. PICK n \in T : \A m \in T : n <= m
  BY <1>0, LeastNumber
<1>2. n \in 1..N /\ n - 1 \in 0..N /\ ~(n - 1 \in T)
  <2>1. n \in 0..N /\ f[n] # h[n]
    OBVIOUS
  <2>2. n \in 1..N /\ n - 1 \in 0..N /\ ~(n <= n - 1)
    BY <2>1 DEF GoAlike
  <2> HIDE DEF T
  <2> QED
    BY <1>1, <2>2
<1>3. f[n - 1] = h[n - 1]
  BY <1>2
<1> QED
  BY <1>1, <1>2, <1>3 DEF GoAlike

Passes(F, S) == F \in [Nat \X S -> S]
RunOf(f, F, s, N) == f[0] = s /\ \A n \in 1..N : f[n] = F[<<n, f[n - 1]>>]

(* A loop whose passes stay in S can be run, and stays in S.               *)
LEMMA LoopRuns ==
  ASSUME NEW N \in Nat, NEW S, NEW s \in S, NEW F, Passes(F, S)
  PROVE  \E f \in [0..N -> S] : RunOf(f, F, s, N)
<1>0. F \in [Nat \X S -> S]
  BY DEF Passes
<1> DEFINE Runs(f, k) == f[0] = s /\ \A n \in 1..k : f[n] = F[<<n, f[n - 1]>>]
           T == {k \in Nat : ~ \E f \in [0..k -> S] : Runs(f, k)}
<1>1. ASSUME T # {} PROVE FALSE
  <2>1. PICK k \in T : \A m \in T : k <= m
    BY <1>1, LeastNumber
  <2>2. k # 0
    <3> DEFINE f == [n \in 0..0 |-> s]
    <3>1. f \in [0..0 -> S] /\ Runs(f, 0)
      OBVIOUS
    <3> QED
      BY <2>1, <3>1
  <2>3. k - 1 \in Nat /\ ~(k - 1 \in T)
    <3>1. k \in Nat /\ k - 1 \in Nat /\ ~(k <= k - 1)
      BY <2>2
    <3> HIDE DEF T
    <3> QED
      BY <2>1, <3>1
  <2>4. PICK f \in [0..(k - 1) -> S] : Runs(f, k - 1)
    BY <2>3
  <2> DEFINE h == [n \in 0..k |-> IF n = k THEN F[<<k, f[k - 1]>>] ELSE f[n]]
  <2>5. F[<<k, f[k - 1]>>] \in S
    BY <1>0, <2>1, <2>3
  <2>6. h \in [0..k -> S]
    BY <2>1, <2>3, <2>5
  <2>7. Runs(h, k)
    <3>1. h[0] = s
      BY <2>2, <2>3, <2>4
    <3>2. ASSUME NEW n \in 1..k PROVE h[n] = F[<<n, h[n - 1]>>]
      <4>1. h[n - 1] = f[n - 1]
        BY <2>3, <3>2
      <4>2. CASE n = k
        <5>1. h[k] = F[<<k, f[k - 1]>>]
          BY <2>1
        <5> HIDE DEF h
        <5> QED
          BY <4>1, <4>2, <5>1
      <4>3. CASE n # k
        <5>1. n \in 1..(k - 1)
          BY <2>3, <4>3
        <5> QED
          BY <2>4, <4>1, <5>1
      <4> QED
        BY <4>2, <4>3
    <3> QED
      BY <3>1, <3>2
  <2> QED
    BY <2>1, <2>6, <2>7
<1> QED
  BY <1>1 DEF RunOf

-----------------------------------------------------------------------------
(* The FIFO.                                                               *)

(* Dropping the first words leaves the others, in order.                   *)
LEMMA Dropped ==
  ASSUME NEW fifo \in Seq(Word), NEW n \in 0..Len(fifo)
  PROVE  LET rest == SubSeq(fifo, n + 1, Len(fifo))
         IN /\ rest \in Seq(Word) /\ Len(rest) = Len(fifo) - n
            /\ \A i \in 1..(Len(fifo) - n) : rest[i] = fifo[n + i]
<1> DEFINE rest == SubSeq(fifo, n + 1, Len(fifo))
<1>1. Len(fifo) \in Nat /\ n + 1 \in Int /\ Len(fifo) \in Int
      /\ \A i \in (n + 1)..Len(fifo) : fifo[i] \in Word
  BY LenProperties
<1>2. rest \in Seq(Word) /\ Len(rest) = Len(fifo) - n
  BY <1>1, SubSeqProperties
<1>3. \A i \in 1..(Len(fifo) - n) : rest[i] = fifo[n + i]
  BY <1>1, <1>2, SubSeqProperties
<1> QED
  BY <1>2, <1>3

-----------------------------------------------------------------------------
(* The parser of the stream.                                               *)

ParserState == [mode : {"idle", "params", "data", "vertex", "end"}, cmd : Word, left : Int]

(* A parser stays one.                                                     *)
LEMMA ParseType ==
  ASSUME NEW p \in ParserState, NEW w \in Word
  PROVE  Parse(p, w) \in ParserState
<1>1. SizeOf(w) \in 1..4 /\ PictureWords(w) \in 1..2
  BY DEF SizeOf, PictureWords, Word
<1>2. Idle0 \in ParserState /\ Parser("params", w, SizeOf(w) - 1) \in ParserState
  BY <1>1 DEF Idle0, Parser, ParserState, Word
<1>3. AfterHeader(p.cmd, w) \in ParserState
  BY <1>1, <1>2 DEF AfterHeader, Parser, ParserState
<1>4. [p EXCEPT !.left = @ - 1] \in ParserState /\ [p EXCEPT !.mode = "end"] \in ParserState
      /\ [p EXCEPT !.mode = "vertex"] \in ParserState
  BY DEF ParserState
<1>5. CASE p.mode = "idle"
  BY <1>2, <1>5 DEF Parse
<1>6. CASE p.mode = "params"
  BY <1>3, <1>4, <1>6 DEF Parse
<1>7. CASE p.mode = "data"
  BY <1>2, <1>4, <1>7 DEF Parse
<1>8. CASE p.mode = "vertex"
  BY <1>4, <1>8 DEF Parse
<1>9. CASE p.mode = "end"
  BY <1>2, <1>4, <1>9 DEF Parse
<1> QED
  BY <1>5, <1>6, <1>7, <1>8, <1>9 DEF ParserState

(* ParseAll takes the words one after the other.                           *)
LEMMA ParseAllRuns ==
  ASSUME NEW p \in ParserState, NEW words \in Seq(Word)
  PROVE  \E at \in [0..Len(words) -> ParserState] :
           /\ at[0] = p /\ \A n \in 1..Len(words) : at[n] = Parse(at[n - 1], words[n])
           /\ ParseAll(p, words) = at[Len(words)]
<1> DEFINE N == Len(words)
           F == [x \in Nat \X ParserState |->
                   IF x[1] \in 1..N THEN Parse(x[2], words[x[1]]) ELSE p]
           Body(f) == [n \in 0..N |-> IF n = 0 THEN p ELSE Parse(f[n - 1], words[n])]
           r == CHOOSE f : f = Body(f)
<1>1. N \in Nat /\ \A i \in 1..N : words[i] \in Word
  BY LenProperties
<1>2. F \in [Nat \X ParserState -> ParserState]
  BY <1>1, ParseType
<1>3. PICK at \in [0..N -> ParserState] : at[0] = p /\ \A n \in 1..N : at[n] = F[<<n, at[n - 1]>>]
  <2>1. Passes(F, ParserState)
    BY <1>2 DEF Passes
  <2> HIDE DEF F, N
  <2>2. PICK at \in [0..N -> ParserState] : RunOf(at, F, p, N)
    BY <1>1, <2>1, LoopRuns
  <2> QED
    BY <2>2 DEF RunOf
<1>4. ASSUME NEW n \in 1..N PROVE at[n] = Parse(at[n - 1], words[n])
  <2>1. at[n - 1] \in ParserState /\ n \in Nat
    BY <1>1, <1>3
  <2>2. F[<<n, at[n - 1]>>] = Parse(at[n - 1], words[n])
    BY <2>1
  <2> QED
    BY <1>3, <2>2
<1>5. at = Body(at)
  <2>1. \A n \in 0..N : at[n] = Body(at)[n]
    BY <1>1, <1>3, <1>4
  <2> QED
    BY <1>3, <2>1
<1>6. r = Body(r)
  <2> HIDE DEF Body
  <2> QED
    BY <1>5
<1>7. ParseAll(p, words) = r[N]
  BY DEF ParseAll
<1> HIDE DEF r
<1>8. r[0] = p /\ \A n \in 1..N : r[n] = Parse(r[n - 1], words[n])
  <2>1. \A n \in 0..N : Body(r)[n] = IF n = 0 THEN p ELSE Parse(r[n - 1], words[n])
    OBVIOUS
  <2> HIDE DEF Body
  <2> QED
    BY <1>1, <1>6, <2>1
<1>9. \A n \in 0..N : at[n] = r[n]
  <2>1. GoAlike(at, r, N)
    BY <1>3, <1>4, <1>8 DEF GoAlike
  <2> HIDE DEF N
  <2> QED
    BY <1>1, <2>1, LoopsAgree
<1> QED
  BY <1>1, <1>3, <1>4, <1>7, <1>9

(* Whatever takes the words one after the other ends where ParseAll does.  *)
LEMMA ParseAllIs ==
  ASSUME NEW p \in ParserState, NEW words \in Seq(Word), NEW h,
         h[0] = p, \A n \in 1..Len(words) : h[n] = Parse(h[n - 1], words[n])
  PROVE  ParseAll(p, words) = h[Len(words)]
<1>1. PICK at \in [0..Len(words) -> ParserState] :
           /\ at[0] = p /\ \A n \in 1..Len(words) : at[n] = Parse(at[n - 1], words[n])
           /\ ParseAll(p, words) = at[Len(words)]
  BY ParseAllRuns
<1>2. Len(words) \in Nat
  BY LenProperties
<1>3. \A n \in 0..Len(words) : at[n] = h[n]
  <2>1. GoAlike(at, h, Len(words))
    BY <1>1 DEF GoAlike
  <2> QED
    BY <1>2, <2>1, LoopsAgree
<1> QED
  BY <1>1, <1>2, <1>3

(* A stream may be cut anywhere.                                           *)
LEMMA ParseSplit ==
  ASSUME NEW p \in ParserState, NEW words \in Seq(Word), NEW q \in Seq(Word), NEW r \in Seq(Word),
         Len(words) = Len(q) + Len(r),
         \A i \in 1..Len(q) : q[i] = words[i],
         \A i \in 1..Len(r) : r[i] = words[Len(q) + i]
  PROVE  ParseAll(p, q) \in ParserState /\ ParseAll(p, words) = ParseAll(ParseAll(p, q), r)
<1>1. PICK at \in [0..Len(words) -> ParserState] :
           /\ at[0] = p /\ \A n \in 1..Len(words) : at[n] = Parse(at[n - 1], words[n])
           /\ ParseAll(p, words) = at[Len(words)]
  BY ParseAllRuns
<1>2. Len(q) \in Nat /\ Len(r) \in Nat
  BY LenProperties
<1>3. \A n \in 1..Len(q) : at[n] = Parse(at[n - 1], q[n])
  BY <1>1, <1>2
<1>4. ParseAll(p, q) = at[Len(q)]
  BY <1>1, <1>3, ParseAllIs
<1>5. at[Len(q)] \in ParserState
  BY <1>1, <1>2
<1> DEFINE h == [n \in 0..Len(r) |-> at[Len(q) + n]]
<1>6. h[0] = at[Len(q)] /\ h[Len(r)] = at[Len(words)]
  BY <1>2
<1>7. ASSUME NEW n \in 1..Len(r) PROVE h[n] = Parse(h[n - 1], r[n])
  <2>1. Len(q) + n \in 1..Len(words) /\ n - 1 \in 0..Len(r) /\ n \in 0..Len(r)
    BY <1>2
  <2>2. h[n] = at[Len(q) + n] /\ h[n - 1] = at[Len(q) + n - 1]
    BY <1>2, <2>1
  <2>3. at[Len(q) + n] = Parse(at[Len(q) + n - 1], words[Len(q) + n])
    <3> DEFINE m == Len(q) + n
    <3>1. m \in 1..Len(words)
      BY <2>1
    <3> HIDE DEF m, h
    <3>2. at[m] = Parse(at[m - 1], words[m])
      BY <1>1, <3>1
    <3> QED
      BY <3>2 DEF m
  <2> HIDE DEF h
  <2> QED
    BY <2>2, <2>3
<1> HIDE DEF h
<1>8. ParseAll(at[Len(q)], r) = h[Len(r)]
  BY <1>5, <1>6, <1>7, ParseAllIs
<1> QED
  BY <1>1, <1>4, <1>5, <1>6, <1>8

(* What is sent after what is there.                                       *)
LEMMA ParseAppended ==
  ASSUME NEW p \in ParserState, NEW q \in Seq(Word), NEW r \in Seq(Word)
  PROVE  ParseAll(p, q) \in ParserState /\ ParseAll(p, q \o r) = ParseAll(ParseAll(p, q), r)
<1>1. Len(q) \in Nat /\ Len(r) \in Nat
  BY LenProperties
<1>2. /\ q \o r \in Seq(Word) /\ Len(q \o r) = Len(q) + Len(r)
      /\ \A i \in 1..(Len(q) + Len(r)) : (q \o r)[i] = IF i <= Len(q) THEN q[i] ELSE r[i - Len(q)]
  BY ConcatProperties
<1>3. \A i \in 1..Len(q) : q[i] = (q \o r)[i]
  BY <1>1, <1>2
<1>4. ASSUME NEW i \in 1..Len(r) PROVE r[i] = (q \o r)[Len(q) + i]
  <2>1. Len(q) + i \in 1..(Len(q) + Len(r)) /\ ~(Len(q) + i <= Len(q)) /\ (Len(q) + i) - Len(q) = i
    BY <1>1
  <2> QED
    BY <1>2, <2>1
<1> QED
  BY <1>2, <1>3, <1>4, ParseSplit

(* The first k words taken.                                                *)
LEMMA ParseDropped ==
  ASSUME NEW p \in ParserState, NEW words \in Seq(Word), NEW k \in 0..Len(words), NEW h,
         h[0] = p, \A n \in 1..k : h[n] = Parse(h[n - 1], words[n])
  PROVE  h[k] \in ParserState
         /\ ParseAll(p, words) = ParseAll(h[k], SubSeq(words, k + 1, Len(words)))
<1> DEFINE q == SubSeq(words, 1, k)
           r == SubSeq(words, k + 1, Len(words))
<1>1. Len(words) \in Nat /\ \A i \in 1..Len(words) : words[i] \in Word
  BY LenProperties
<1>2. q \in Seq(Word) /\ Len(q) = k /\ \A i \in 1..k : q[i] = words[i]
  <2>1. \A i \in 1..k : words[i] \in Word
    BY <1>1
  <2>2. 1 \in Int /\ k \in Int
    OBVIOUS
  <2>3. /\ q \in Seq(Word) /\ Len(q) = IF 1 <= k THEN k - 1 + 1 ELSE 0
        /\ \A i \in 1..(k - 1 + 1) : q[i] = words[1 + i - 1]
    BY <2>1, <2>2, SubSeqProperties
  <2> QED
    BY <1>1, <2>3
<1>3. r \in Seq(Word) /\ Len(r) = Len(words) - k /\ \A i \in 1..(Len(words) - k) : r[i] = words[k + i]
  BY Dropped
<1> HIDE DEF q, r
<1>4. ParseAll(p, q) = h[k]
  BY <1>2, ParseAllIs
<1>5. ParseAll(p, q) \in ParserState /\ ParseAll(p, words) = ParseAll(ParseAll(p, q), r)
  <2>1. Len(words) = Len(q) + Len(r)
    BY <1>1, <1>2, <1>3
  <2>2. \A i \in 1..Len(q) : q[i] = words[i]
    BY <1>2
  <2>3. \A i \in 1..Len(r) : r[i] = words[Len(q) + i]
    BY <1>2, <1>3
  <2> QED
    BY <1>2, <1>3, <2>1, <2>2, <2>3, ParseSplit
<1> QED
  BY <1>4, <1>5 DEF r

(* The words of a command without data.                                    *)
LEMMA HeaderParsed ==
  ASSUME NEW words \in Seq(Word), NEW w \in Word, SizeOf(w) > 1, SizeOf(w) <= Len(words),
         words[1] = w
  PROVE  /\ AfterHeader(w, words[SizeOf(w)]) \in ParserState
         /\ ParseAll(Idle0, words) =
              ParseAll(AfterHeader(w, words[SizeOf(w)]), SubSeq(words, SizeOf(w) + 1, Len(words)))
<1> DEFINE k == SizeOf(w)
           h == [n \in 0..k |-> IF n = 0 THEN Idle0
                                ELSE IF n = k THEN AfterHeader(w, words[k])
                                ELSE Parser("params", w, k - n)]
<1>1. k \in 2..4 /\ Len(words) \in Nat
  BY LenProperties DEF SizeOf, Word
<1>2. Idle0 \in ParserState /\ Idle0.mode = "idle"
  BY DEF Idle0, Parser, ParserState, Word
<1> HIDE DEF k
<1>3. h[0] = Idle0 /\ h[k] = AfterHeader(w, words[k])
  BY <1>1
<1>4. ASSUME NEW n \in 1..k PROVE h[n] = Parse(h[n - 1], words[n])
  <2>1. CASE n = 1
    <3>1. h[1] = Parser("params", w, k - 1)
      BY <1>1
    <3>2. Parse(Idle0, w) = Parser("params", w, k - 1)
      BY <1>1, <1>2 DEF Parse, k
    <3> HIDE DEF h
    <3> QED
      BY <1>3, <2>1, <3>1, <3>2
  <2>2. CASE n # 1
    <3> DEFINE p == Parser("params", w, k - (n - 1))
    <3>1. h[n - 1] = p
      BY <1>1, <2>2
    <3>2. h[n] = IF n = k THEN AfterHeader(w, words[k]) ELSE Parser("params", w, k - n)
      BY <1>1, <2>2
    <3>3. p.mode = "params" /\ p.cmd = w /\ p.left = k - (n - 1)
          /\ [p EXCEPT !.left = @ - 1] = Parser("params", w, k - (n - 1) - 1)
      BY DEF Parser
    <3>4. p.left = 1 <=> n = k
      BY <1>1, <3>3
    <3>5. k - (n - 1) - 1 = k - n
      BY <1>1
    <3> HIDE DEF h, p
    <3>6. Parse(p, words[n]) = IF n = k THEN AfterHeader(w, words[n]) ELSE Parser("params", w, k - n)
      BY <3>3, <3>4, <3>5 DEF Parse
    <3> QED
      BY <3>1, <3>2, <3>6
  <2> QED
    BY <2>1, <2>2
<1>5. k \in 0..Len(words)
  BY <1>1 DEF k
<1> HIDE DEF h
<1>6. h[k] \in ParserState /\ ParseAll(Idle0, words) = ParseAll(h[k], SubSeq(words, k + 1, Len(words)))
  BY <1>2, <1>3, <1>4, <1>5, ParseDropped
<1> QED
  BY <1>3, <1>6 DEF k

(* A command of one word.                                                  *)
LEMMA WordParsed ==
  ASSUME NEW words \in Seq(Word), NEW w \in Word, SizeOf(w) = 1, 1 <= Len(words), words[1] = w
  PROVE  ParseAll(Idle0, words) = ParseAll(Idle0, SubSeq(words, 2, Len(words)))
<1> DEFINE h == [n \in 0..1 |-> Idle0]
<1>1. Idle0 \in ParserState /\ Idle0.mode = "idle"
  BY DEF Idle0, Parser, ParserState, Word
<1>2. Parse(Idle0, w) = Idle0
  BY <1>1 DEF Parse
<1>3. h[0] = Idle0 /\ h[1] = Idle0
  OBVIOUS
<1>4. 1 \in 0..Len(words)
  BY LenProperties
<1> HIDE DEF h
<1>5. \A n \in 1..1 : h[n] = Parse(h[n - 1], words[n])
  BY <1>2, <1>3
<1>6. ParseAll(Idle0, words) = ParseAll(h[1], SubSeq(words, 1 + 1, Len(words)))
  BY <1>1, <1>3, <1>4, <1>5, ParseDropped
<1> QED
  BY <1>3, <1>6

PictureAt(rest) == IF rest > 0 THEN Parser("data", "write", rest) ELSE Idle0

(* The next n words of a picture.                                          *)
LEMMA PictureParsed ==
  ASSUME NEW words \in Seq(Word), NEW rest \in Nat, NEW n \in 0..Len(words), n <= rest
  PROVE  ParseAll(PictureAt(rest), words) =
           ParseAll(PictureAt(rest - n), SubSeq(words, n + 1, Len(words)))
<1> DEFINE h == [i \in 0..n |-> PictureAt(rest - i)]
<1>1. Len(words) \in Nat /\ n \in Nat
  BY LenProperties
<1>2. h[0] = PictureAt(rest) /\ h[n] = PictureAt(rest - n)
  BY <1>1
<1>3. PictureAt(rest) \in ParserState
  BY DEF PictureAt, Idle0, Parser, ParserState, Word
<1>4. ASSUME NEW i \in 1..n PROVE h[i] = Parse(h[i - 1], words[i])
  <2> DEFINE p == Parser("data", "write", rest - (i - 1))
  <2>1. h[i - 1] = p /\ h[i] = PictureAt(rest - i)
    BY <1>1 DEF PictureAt
  <2>2. p.mode = "data" /\ p.left = rest - (i - 1)
        /\ [p EXCEPT !.left = @ - 1] = Parser("data", "write", rest - (i - 1) - 1)
    BY DEF Parser
  <2>3. (p.left = 1 <=> ~(rest - i > 0)) /\ rest - (i - 1) - 1 = rest - i
    BY <1>1, <2>2
  <2> HIDE DEF h, p
  <2>4. Parse(p, words[i]) = IF rest - i > 0 THEN Parser("data", "write", rest - i) ELSE Idle0
    BY <2>2, <2>3 DEF Parse
  <2> QED
    BY <2>1, <2>4 DEF PictureAt
<1> HIDE DEF h
<1> QED
  BY <1>1, <1>2, <1>3, <1>4, ParseDropped

PolylineAt(shaded, vertices) ==
  IF ~shaded THEN Parser("end", "pline", 0)
  ELSE Parser(IF vertices % 2 = 0 THEN "vertex" ELSE "end", "spline", 0)

(* Word i, v words of the polyline being there, may be the terminator.     *)
Checked(shaded, v, i) ==
  LET first == IF shaded /\ v % 2 = 0 THEN 2 ELSE 1
      step  == IF shaded THEN 2 ELSE 1
  IN i >= first /\ (i - first) % step = 0

(* The words looked at are those at which the parser looks.                *)
LEMMA CheckedIsEnd ==
  ASSUME NEW shaded \in BOOLEAN, NEW v \in Nat, NEW i \in Nat \ {0}
  PROVE  Checked(shaded, v, i) <=> PolylineAt(shaded, v + (i - 1)).mode = "end"
<1>1. CASE ~shaded
  BY <1>1 DEF Checked, PolylineAt, Parser
<1>2. CASE shaded /\ v % 2 = 0
  <2>1. Checked(shaded, v, i) <=> i >= 2 /\ (i - 2) % 2 = 0
    BY <1>2 DEF Checked
  <2>2. (i >= 2 /\ (i - 2) % 2 = 0) <=> (v + (i - 1)) % 2 # 0
    BY <1>2
  <2> QED
    BY <1>2, <2>1, <2>2 DEF PolylineAt, Parser
<1>3. CASE shaded /\ v % 2 # 0
  <2>1. Checked(shaded, v, i) <=> i >= 1 /\ (i - 1) % 2 = 0
    BY <1>3 DEF Checked
  <2>2. (i >= 1 /\ (i - 1) % 2 = 0) <=> (v + (i - 1)) % 2 # 0
    BY <1>3
  <2> QED
    BY <1>3, <2>1, <2>2 DEF PolylineAt, Parser
<1> QED
  BY <1>1, <1>2, <1>3

(* One word of a polyline that is not its end.                             *)
LEMMA VertexParsed ==
  ASSUME NEW shaded \in BOOLEAN, NEW v \in Nat, NEW w \in Word,
         PolylineAt(shaded, v).mode = "end" => w # "term"
  PROVE  Parse(PolylineAt(shaded, v), w) = PolylineAt(shaded, v + 1)
<1>1. CASE ~shaded
  BY <1>1 DEF Parse, PolylineAt, Parser
<1>2. CASE shaded /\ v % 2 = 0
  <2>1. (v + 1) % 2 # 0
    BY <1>2
  <2> QED
    BY <1>2, <2>1 DEF Parse, PolylineAt, Parser
<1>3. CASE shaded /\ v % 2 # 0
  <2>1. (v + 1) % 2 = 0
    BY <1>3
  <2> QED
    BY <1>3, <2>1 DEF Parse, PolylineAt, Parser
<1> QED
  BY <1>1, <1>2, <1>3

(* The words of a polyline before the first terminator.                    *)
LEMMA PolylineParsed ==
  ASSUME NEW words \in Seq(Word), NEW shaded \in BOOLEAN, NEW v \in Nat,
         NEW n \in 0..Len(words),
         \A i \in 1..n : Checked(shaded, v, i) => words[i] # "term"
  PROVE  /\ PolylineAt(shaded, v + n) \in ParserState
         /\ ParseAll(PolylineAt(shaded, v), words) =
              ParseAll(PolylineAt(shaded, v + n), SubSeq(words, n + 1, Len(words)))
<1> DEFINE h == [i \in 0..n |-> PolylineAt(shaded, v + i)]
<1>1. Len(words) \in Nat /\ n \in Nat /\ \A i \in 1..n : words[i] \in Word
  BY LenProperties
<1>2. h[0] = PolylineAt(shaded, v) /\ h[n] = PolylineAt(shaded, v + n)
  BY <1>1
<1>3. PolylineAt(shaded, v) \in ParserState
  BY DEF PolylineAt, Parser, ParserState, Word
<1>4. ASSUME NEW i \in 1..n PROVE h[i] = Parse(h[i - 1], words[i])
  <2>1. h[i - 1] = PolylineAt(shaded, v + (i - 1)) /\ h[i] = PolylineAt(shaded, v + i)
    BY <1>1
  <2>2. PolylineAt(shaded, v + (i - 1)).mode = "end" => words[i] # "term"
    <3>1. i \in Nat \ {0}
      BY <1>1
    <3>2. Checked(shaded, v, i) <=> PolylineAt(shaded, v + (i - 1)).mode = "end"
      BY <3>1, CheckedIsEnd
    <3> QED
      BY <3>2
  <2>3. v + (i - 1) \in Nat /\ v + (i - 1) + 1 = v + i
    BY <1>1
  <2> HIDE DEF h
  <2> QED
    BY <1>1, <2>1, <2>2, <2>3, VertexParsed
<1> HIDE DEF h
<1> QED
  BY <1>1, <1>2, <1>3, <1>4, ParseDropped

-----------------------------------------------------------------------------
(* The commands.                                                           *)

MaxDebt == MaxRunAhead + DrawTicks

(* A state in the middle of an operation.                                  *)
Shape ==
  [fifo : Seq(Word), blitter : {"idle", "reading", "writing", "polyline"},
   total : 0..4, pending : Int, remaining : 0..2, unread : 0..2,
   polyline : 0..MaxPolyline, shaded : BOOLEAN, cropped : BOOLEAN,
   direction : {"off", "in", "out"}, request : BOOLEAN, idle : BOOLEAN,
   executing : BOOLEAN, active : BOOLEAN, since : 0..Enough, left : Int,
   interval : Nat, stop : {"no", "wait", "exit"}, exited : BOOLEAN]

(* What commands leave alone.                                              *)
SameControl(s, t) ==
  /\ t.direction = s.direction /\ t.request = s.request /\ t.idle = s.idle
  /\ t.executing = s.executing /\ t.active = s.active /\ t.since = s.since
  /\ t.left = s.left /\ t.interval = s.interval /\ t.exited = s.exited

(* What they do to the debt and the FIFO.                                  *)
Spends(s, t) ==
  /\ s.pending <= t.pending /\ t.pending <= MaxDebt
  /\ Len(t.fifo) <= Len(s.fifo)

(* The stream of words stays what it is.                                   *)
SameStream(s, t) ==
  /\ s.cropped => t.cropped
  /\ Clean(s) /\ ~t.cropped =>
       /\ Clean(t)
       /\ Position(s) \in ParserState /\ Position(t) \in ParserState
       /\ ParseAll(Position(t), t.fifo) = ParseAll(Position(s), s.fifo)

Advances(s, t) == t \in Shape /\ SameControl(s, t) /\ Spends(s, t) /\ SameStream(s, t)

(* gpu_try_execute_commands looks at a command only while the debt allows. *)
Ready(s) == s \in Shape /\ s.pending <= MaxRunAhead /\ s.fifo # <<>>

(* The positions are those of the parser.                                  *)
LEMMA PositionIs ==
  ASSUME NEW s \in Shape
  PROVE  /\ Position(s) \in ParserState
         /\ s.blitter = "idle" \/ s.blitter = "reading" => Position(s) = Idle0
         /\ s.blitter = "writing" => Position(s) = PictureAt(s.remaining)
         /\ s.blitter = "polyline" => Position(s) = PolylineAt(s.shaded, s.polyline)
<1>1. Idle0 \in ParserState /\ \A n \in Nat : PictureAt(n) \in ParserState
  BY DEF Idle0, PictureAt, Parser, ParserState, Word
<1>2. \A b \in BOOLEAN, n \in Nat : PolylineAt(b, n) \in ParserState
  BY DEF PolylineAt, Parser, ParserState, Word
<1>3. s.remaining \in Nat /\ s.polyline \in Nat /\ s.shaded \in BOOLEAN
      /\ s.blitter \in {"idle", "reading", "writing", "polyline"}
  BY FifoAssumption DEF Shape
<1>4. CASE s.blitter = "idle" \/ s.blitter = "reading"
  <2>1. Position(s) = Idle0
    BY <1>4 DEF Position
  <2> QED
    BY <1>1, <1>4, <2>1
<1>5. CASE s.blitter = "writing"
  <2>1. Position(s) = PictureAt(s.remaining)
    BY <1>5 DEF Position, PictureAt
  <2> QED
    BY <1>1, <1>3, <1>5, <2>1
<1>6. CASE s.blitter = "polyline"
  <2>1. Position(s) = PolylineAt(s.shaded, s.polyline)
    BY <1>6 DEF Position, PolylineAt
  <2> QED
    BY <1>2, <1>3, <1>6, <2>1
<1> QED
  BY <1>3, <1>4, <1>5, <1>6

(* A state with fewer words.                                               *)
LEMMA DropKeeps ==
  ASSUME NEW s \in Shape, NEW n \in 0..Len(s.fifo)
  PROVE  /\ Drop(s, n) \in Shape
         /\ Drop(s, n).fifo = SubSeq(s.fifo, n + 1, Len(s.fifo))
         /\ Len(Drop(s, n).fifo) = Len(s.fifo) - n /\ Len(s.fifo) \in Nat
<1>1. s.fifo \in Seq(Word)
  BY DEF Shape
<1>2. SubSeq(s.fifo, n + 1, Len(s.fifo)) \in Seq(Word)
      /\ Len(SubSeq(s.fifo, n + 1, Len(s.fifo))) = Len(s.fifo) - n /\ Len(s.fifo) \in Nat
  BY <1>1, Dropped, LenProperties
<1> QED
  BY <1>2 DEF Drop, Shape

(* A command that ends at once.                                            *)
LEMMA CommandEnds ==
  ASSUME NEW t \in Shape, NEW p \in Int, NEW z \in 0..4
  PROVE  [t EXCEPT !.pending = p, !.blitter = "idle", !.total = z] \in Shape
BY DEF Shape

(* A picture to come.                                                      *)
LEMMA WriteBegins ==
  ASSUME NEW t \in Shape, NEW z \in 0..4, NEW r \in 0..2
  PROVE  [t EXCEPT !.blitter = "writing", !.total = z, !.remaining = r] \in Shape
BY DEF Shape

(* A picture to be read.                                                   *)
LEMMA ReadBegins ==
  ASSUME NEW t \in Shape, NEW z \in 0..4, NEW r \in 0..2
  PROVE  [t EXCEPT !.blitter = "reading", !.unread = r, !.total = z] \in Shape
BY DEF Shape

(* A polyline.                                                             *)
LEMMA PolylineBegins ==
  ASSUME NEW t \in Shape, NEW p \in Int, NEW b \in BOOLEAN, NEW v \in 0..MaxPolyline,
         NEW z \in 0..4
  PROVE  [t EXCEPT !.pending = p, !.blitter = "polyline", !.shaded = b, !.polyline = v,
                   !.total = z] \in Shape
BY DEF Shape

(* A command that takes its words, and no others.                          *)
LEMMA CommandAdvances ==
  ASSUME NEW s, Ready(s), s.blitter = "idle", NEW w, w = s.fifo[1], SizeOf(w) <= Len(s.fifo),
         NEW t \in Shape, SameControl(s, t),
         t.fifo = SubSeq(s.fifo, SizeOf(w) + 1, Len(s.fifo)),
         t.pending \in {s.pending, s.pending + 1, s.pending + DrawTicks},
         t.cropped = s.cropped,
         s.polyline = 0 => /\ t.blitter # "polyline" => t.polyline = 0
                           /\ Position(t) = IF SizeOf(w) = 1 THEN Idle0
                                            ELSE AfterHeader(w, s.fifo[SizeOf(w)])
  PROVE  Advances(s, t)
<1>1. s \in Shape /\ s.fifo \in Seq(Word) /\ s.fifo # <<>>
  BY DEF Ready, Shape
<1>2. Len(s.fifo) \in Nat /\ Len(s.fifo) # 0 /\ \A i \in 1..Len(s.fifo) : s.fifo[i] \in Word
  BY <1>1, LenProperties
<1>3. w \in Word /\ SizeOf(w) \in 1..4
  <2>1. w \in Word
    BY <1>2
  <2> QED
    BY <2>1 DEF SizeOf, Word
<1>4. Len(t.fifo) = Len(s.fifo) - SizeOf(w)
  <2>1. SizeOf(w) \in 0..Len(s.fifo)
    BY <1>2, <1>3
  <2> QED
    BY <1>1, <2>1, Dropped
<1>5. s.pending <= t.pending /\ t.pending <= MaxDebt
  <2>1. s.pending \in Int /\ s.pending <= MaxRunAhead
    BY DEF Ready, Shape
  <2> QED
    BY <2>1, TickAssumption DEF MaxDebt
<1>6. Spends(s, t)
  BY <1>2, <1>3, <1>4, <1>5 DEF Spends
<1>7. SameStream(s, t)
  <2> SUFFICES ASSUME Clean(s), ~t.cropped
               PROVE  /\ Clean(t)
                      /\ Position(s) \in ParserState /\ Position(t) \in ParserState
                      /\ ParseAll(Position(t), t.fifo) = ParseAll(Position(s), s.fifo)
    BY DEF SameStream
  <2>1. s.polyline = 0
    BY DEF Clean
  <2>2. Clean(t)
    BY <2>1 DEF Clean
  <2>3. Position(s) = Idle0 /\ Position(s) \in ParserState /\ Position(t) \in ParserState
    BY <1>1, PositionIs
  <2>4. CASE SizeOf(w) = 1
    <3>1. ParseAll(Idle0, s.fifo) = ParseAll(Idle0, SubSeq(s.fifo, 2, Len(s.fifo)))
      BY <1>1, <1>2, <1>3, <2>4, WordParsed
    <3>2. t.fifo = SubSeq(s.fifo, 2, Len(s.fifo)) /\ Position(t) = Idle0
      BY <2>1, <2>4
    <3> QED
      BY <2>2, <2>3, <3>1, <3>2
  <2>5. CASE SizeOf(w) # 1
    <3>1. ParseAll(Idle0, s.fifo) =
            ParseAll(AfterHeader(w, s.fifo[SizeOf(w)]), SubSeq(s.fifo, SizeOf(w) + 1, Len(s.fifo)))
      BY <1>1, <1>3, <2>5, HeaderParsed
    <3> QED
      BY <2>1, <2>2, <2>3, <2>5, <3>1
  <2> QED
    BY <2>4, <2>5
<1> QED
  BY <1>6, <1>7 DEF Advances

(* dispatch_gp0 of a command whose words are there.                        *)
LEMMA HandleAdvances ==
  ASSUME NEW s, Ready(s), s.blitter = "idle", NEW w, w = s.fifo[1], SizeOf(w) <= Len(s.fifo)
  PROVE  Advances(s, Handle(s, w))
<1> DEFINE t == Drop(s, SizeOf(w))
           u == Handle(s, w)
<1>1. s \in Shape /\ s.fifo \in Seq(Word) /\ s.fifo # <<>> /\ s.pending \in Int
  BY DEF Ready, Shape
<1>2. Len(s.fifo) \in Nat /\ Len(s.fifo) # 0 /\ \A i \in 1..Len(s.fifo) : s.fifo[i] \in Word
  BY <1>1, LenProperties
<1>3. w \in Word
  BY <1>2
<1>4. SizeOf(w) \in 1..4
  BY <1>3 DEF SizeOf, Word
<1>5. SizeOf(w) \in 0..Len(s.fifo)
  BY <1>2, <1>4
<1>6. t \in Shape /\ t.fifo = SubSeq(s.fifo, SizeOf(w) + 1, Len(s.fifo)) /\ t = [s EXCEPT !.fifo = t.fifo]
  <2>1. t \in Shape /\ t.fifo = SubSeq(s.fifo, SizeOf(w) + 1, Len(s.fifo))
    BY <1>1, <1>5, DropKeeps
  <2> QED
    BY <2>1 DEF Drop
<1>7. /\ t.pending = s.pending /\ t.polyline = s.polyline /\ t.blitter = "idle"
      /\ t.cropped = s.cropped /\ SameControl(s, t)
  BY <1>1, <1>6 DEF Shape, SameControl
<1> HIDE DEF t
<1>8. CASE w \in {"reg", "ones", "draw", "term"}
  <2>1. PICK n \in {0, 1, DrawTicks} : u = [t EXCEPT !.pending = t.pending + n, !.blitter = "idle", !.total = 0]
    <3>1. t.pending + 0 = t.pending
      BY <1>1, <1>7
    <3>5. [t EXCEPT !.pending = t.pending, !.blitter = "idle", !.total = 0]
            = [t EXCEPT !.blitter = "idle", !.total = 0]
      BY <1>6 DEF Shape
    <3>2. CASE w = "ones"
      <4>1. u = [t EXCEPT !.blitter = "idle", !.total = 0]
        BY <3>2 DEF Handle, EndCommand, t
      <4> QED
        BY <3>1, <3>5, <4>1
    <3>3. CASE w = "reg"
      BY <3>3 DEF Handle, EndCommand, AddTicks, t
    <3>4. CASE w \in {"draw", "term"}
      BY <3>4 DEF Handle, EndCommand, AddTicks, t
    <3> QED
      BY <1>8, <3>2, <3>3, <3>4
  <2>2. n \in Int
    BY TickAssumption
  <2>3. u \in Shape /\ u.fifo = t.fifo /\ u.pending = s.pending + n /\ u.cropped = s.cropped
        /\ u.polyline = s.polyline /\ u.blitter = "idle" /\ SameControl(s, u)
    <3> HIDE DEF u
    <3>1. t.pending + n \in Int
      BY <1>1, <1>7, <2>2
    <3>2. u \in Shape
      <4>1. 0 \in 0..4
        OBVIOUS
      <4> QED
        BY <1>6, <2>1, <3>1, <4>1, CommandEnds
    <3>3. u.fifo = t.fifo /\ u.pending = t.pending + n /\ u.cropped = t.cropped
          /\ u.polyline = t.polyline /\ u.blitter = "idle" /\ SameControl(t, u)
      BY <1>6, <2>1 DEF Shape, SameControl
    <3> QED
      BY <1>7, <3>2, <3>3 DEF SameControl
  <2>4. u.pending \in {s.pending, s.pending + 1, s.pending + DrawTicks}
    BY <1>1, <2>3
  <2>5. Position(u) = Idle0
    BY <2>3, PositionIs
  <2>6. AfterHeader(w, s.fifo[SizeOf(w)]) = Idle0 \/ SizeOf(w) = 1
    BY <1>8 DEF AfterHeader, SizeOf
  <2> HIDE DEF u
  <2>7. Advances(s, u)
    BY <1>6, <2>3, <2>4, <2>5, <2>6, CommandAdvances
  <2> QED
    BY <2>7 DEF u
<1>9. CASE w = "write"
  <2>1. SizeOf(w) = 3
    BY <1>9 DEF SizeOf
  <2>2. CASE s.fifo[3] = "ones"
    <3>1. u = t
      BY <1>9, <2>2 DEF Handle, t
    <3>2. Position(t) = Idle0 /\ AfterHeader(w, s.fifo[SizeOf(w)]) = Idle0
      BY <1>6, <1>7, <1>9, <2>1, <2>2, PositionIs DEF AfterHeader
    <3> QED
      BY <1>6, <1>7, <3>1, <3>2, CommandAdvances
  <2>3. CASE s.fifo[3] # "ones"
    <3> DEFINE n == PictureWords(s.fifo[3])
    <3>1. n \in 1..2
      BY DEF PictureWords
    <3>2. u = [t EXCEPT !.blitter = "writing", !.total = 0, !.remaining = n]
      <4>1. u = [[t EXCEPT !.blitter = "idle", !.total = 0] EXCEPT !.blitter = "writing", !.remaining = n]
        BY <1>9, <2>3 DEF Handle, EndCommand, t
      <4> HIDE DEF n, u
      <4> QED
        BY <1>6, <4>1 DEF Shape
    <3> HIDE DEF n, u
    <3>3. u \in Shape /\ u.fifo = t.fifo /\ u.pending = s.pending /\ u.cropped = s.cropped
          /\ u.polyline = s.polyline /\ u.blitter = "writing" /\ u.remaining = n /\ SameControl(s, u)
      <4>1. u \in Shape
        <5>1. 0 \in 0..4 /\ n \in 0..2
          BY <3>1
        <5> QED
          BY <1>6, <3>2, <5>1, WriteBegins
      <4>2. u.fifo = t.fifo /\ u.pending = t.pending /\ u.cropped = t.cropped
            /\ u.polyline = t.polyline /\ u.blitter = "writing" /\ u.remaining = n
            /\ SameControl(t, u)
        BY <1>6, <3>2 DEF Shape, SameControl
      <4> QED
        BY <1>7, <4>1, <4>2 DEF SameControl
    <3>4. Position(u) = Parser("data", "write", n)
      BY <3>1, <3>3, PositionIs DEF PictureAt
    <3>5. AfterHeader(w, s.fifo[SizeOf(w)]) = Parser("data", "write", n)
      BY <1>9, <2>1, <2>3 DEF AfterHeader, n
    <3>6. Advances(s, u)
      BY <1>6, <2>1, <3>3, <3>4, <3>5, CommandAdvances
    <3> QED
      BY <3>6 DEF u
  <2> QED
    BY <2>2, <2>3
<1>10. CASE w = "read"
  <2> DEFINE n == PictureWords(s.fifo[3])
  <2>1. n \in 1..2
    BY DEF PictureWords
  <2>2. u = [t EXCEPT !.blitter = "reading", !.unread = n, !.total = 0]
    BY <1>10 DEF Handle, t
  <2> HIDE DEF n, u
  <2>3. u \in Shape /\ u.fifo = t.fifo /\ u.pending = s.pending /\ u.cropped = s.cropped
        /\ u.polyline = s.polyline /\ u.blitter = "reading" /\ SameControl(s, u)
    <3>1. u \in Shape
      <4>1. 0 \in 0..4 /\ n \in 0..2
        BY <2>1
      <4> QED
        BY <1>6, <2>2, <4>1, ReadBegins
    <3>2. u.fifo = t.fifo /\ u.pending = t.pending /\ u.cropped = t.cropped
          /\ u.polyline = t.polyline /\ u.blitter = "reading" /\ SameControl(t, u)
      BY <1>6, <2>2 DEF Shape, SameControl
    <3> QED
      BY <1>7, <3>1, <3>2 DEF SameControl
  <2>4. Position(u) = Idle0
    BY <2>3, PositionIs
  <2>5. AfterHeader(w, s.fifo[SizeOf(w)]) = Idle0
    BY <1>10 DEF AfterHeader
  <2>6. Advances(s, u)
    BY <1>6, <2>3, <2>4, <2>5, CommandAdvances
  <2> QED
    BY <2>6 DEF u
<1>11. CASE w \in {"pline", "spline"}
  <2> DEFINE n == Least(SizeOf(w) - 1, MaxPolyline - s.polyline)
             v == Drop(s, n + 1)
             b == w = "spline"
  <2>1. s.polyline \in 0..MaxPolyline /\ MaxPolyline \in Nat
    BY <1>1, FifoAssumption DEF Shape
  <2>2. n \in 0..(SizeOf(w) - 1) /\ n + s.polyline <= MaxPolyline
        /\ (s.polyline = 0 => n = SizeOf(w) - 1)
    <3>1. SizeOf(w) \in 3..4
      BY <1>11 DEF SizeOf
    <3> QED
      BY <2>1, <3>1, FifoAssumption DEF Least
  <2> HIDE DEF n
  <2>3. n + 1 \in 0..Len(s.fifo)
    BY <1>2, <1>4, <2>2
  <2>4. v \in Shape /\ v.fifo = SubSeq(s.fifo, n + 1 + 1, Len(s.fifo)) /\ v = [s EXCEPT !.fifo = v.fifo]
    <3>1. v \in Shape /\ v.fifo = SubSeq(s.fifo, n + 1 + 1, Len(s.fifo))
      BY <1>1, <2>3, DropKeeps
    <3> QED
      BY <3>1 DEF Drop
  <2>5. u = [v EXCEPT !.pending = v.pending + DrawTicks, !.blitter = "polyline", !.shaded = b,
                      !.polyline = v.polyline + n, !.total = 0]
    <3>1. u = [[v EXCEPT !.pending = v.pending + DrawTicks]
                  EXCEPT !.blitter = "polyline", !.shaded = b, !.polyline = @ + n, !.total = 0]
      BY <1>11 DEF Handle, AddTicks, n
    <3> HIDE DEF v, u, b
    <3> QED
      BY <2>4, <3>1 DEF Shape
  <2>6. v.pending = s.pending /\ v.polyline = s.polyline /\ v.cropped = s.cropped /\ SameControl(s, v)
    <3> HIDE DEF v
    <3> QED
      BY <1>1, <2>4 DEF Shape, SameControl
  <2> HIDE DEF v, u
  <2>7. u \in Shape /\ u.fifo = v.fifo /\ u.pending = s.pending + DrawTicks /\ u.cropped = s.cropped
        /\ u.polyline = s.polyline + n /\ u.blitter = "polyline" /\ u.shaded = b
        /\ u.total = 0 /\ u.remaining = v.remaining /\ SameControl(s, u)
    <3>1. s.polyline + n \in 0..MaxPolyline /\ s.pending + DrawTicks \in Int /\ b \in BOOLEAN
      BY <1>1, <2>1, <2>2, TickAssumption
    <3> HIDE DEF b
    <3>2. u \in Shape
      <4>1. 0 \in 0..4 /\ v.polyline + n \in 0..MaxPolyline /\ v.pending + DrawTicks \in Int
        BY <2>6, <3>1
      <4> QED
        BY <2>4, <2>5, <3>1, <4>1, PolylineBegins
    <3>3. u.fifo = v.fifo /\ u.pending = v.pending + DrawTicks /\ u.cropped = v.cropped
        /\ u.polyline = v.polyline + n /\ u.blitter = "polyline" /\ u.shaded = b
        /\ u.total = 0 /\ u.remaining = v.remaining /\ SameControl(v, u)
      BY <2>4, <2>5 DEF Shape, SameControl
    <3> QED
      BY <2>6, <3>2, <3>3 DEF SameControl
  <2>8. ASSUME s.polyline = 0
        PROVE  /\ u.fifo = SubSeq(s.fifo, SizeOf(w) + 1, Len(s.fifo))
               /\ Position(u) = AfterHeader(w, s.fifo[SizeOf(w)]) /\ SizeOf(w) # 1
    <3>1. SizeOf(w) = IF b THEN 3 ELSE 4
      BY <1>11 DEF SizeOf
    <3>2. n + 1 + 1 = SizeOf(w) + 1 /\ u.polyline = SizeOf(w) - 1
      BY <1>4, <2>2, <2>7, <2>8
    <3>3. Position(u) = PolylineAt(b, u.polyline)
      BY <2>7, PositionIs
    <3>4. PolylineAt(b, u.polyline) = AfterHeader(w, s.fifo[SizeOf(w)])
      BY <1>11, <3>1, <3>2 DEF PolylineAt, AfterHeader
    <3>5. u.fifo = SubSeq(s.fifo, SizeOf(w) + 1, Len(s.fifo))
      BY <2>4, <2>7, <3>2
    <3>6. SizeOf(w) # 1
      BY <3>1
    <3> QED
      BY <3>3, <3>4, <3>5, <3>6
  <2>9. CASE s.polyline = 0
    <3>1. Advances(s, u)
      BY <2>7, <2>8, <2>9, CommandAdvances
    <3> QED
      BY <3>1 DEF u
  <2>10. CASE s.polyline # 0
    <3>1. ~Clean(s)
      BY <2>10 DEF Clean
    <3>2. Len(u.fifo) <= Len(s.fifo)
      BY <1>1, <1>2, <2>3, <2>7, DropKeeps DEF v
    <3>3. Spends(s, u)
      BY <1>1, <2>7, <3>2, TickAssumption DEF Spends, Ready, MaxDebt
    <3>4. Advances(s, u)
      BY <2>7, <3>1, <3>3 DEF Advances, SameStream
    <3> QED
      BY <3>4 DEF u
  <2> QED
    BY <2>9, <2>10
<1> QED
  BY <1>3, <1>8, <1>9, <1>10, <1>11 DEF Word

(* What does not touch the stream.                                         *)
LEMMA StreamKept ==
  ASSUME NEW s \in Shape, s.pending <= MaxDebt, NEW t \in Shape, SameControl(s, t),
         t.fifo = s.fifo, t.blitter = s.blitter, t.remaining = s.remaining,
         t.shaded = s.shaded, t.polyline = s.polyline, t.cropped = s.cropped,
         t.pending = s.pending
  PROVE  Advances(s, t)
<1>1. Position(t) = Position(s)
  BY DEF Position
<1>2. Clean(t) <=> Clean(s)
  BY DEF Clean
<1>3. Position(s) \in ParserState
  BY PositionIs
<1>4. s.fifo \in Seq(Word) /\ s.pending \in Int
  BY DEF Shape
<1>5. Len(s.fifo) \in Nat
  BY <1>4, LenProperties
<1>6. Spends(s, t)
  BY <1>4, <1>5 DEF Spends
<1>7. SameStream(s, t)
  BY <1>1, <1>2, <1>3 DEF SameStream
<1> QED
  BY <1>6, <1>7 DEF Advances

(* To stop is all that is done.                                            *)
LEMMA StopShape ==
  ASSUME NEW s \in Shape, NEW z \in 0..4, NEW why \in {"no", "wait", "exit"}
  PROVE  /\ [s EXCEPT !.stop = why] \in Shape
         /\ [[s EXCEPT !.total = z] EXCEPT !.stop = why] \in Shape
<1>1. [s EXCEPT !.stop = why] \in Shape
  BY DEF Shape
<1>2. [s EXCEPT !.total = z] \in Shape
  BY DEF Shape
<1>3. [[s EXCEPT !.total = z] EXCEPT !.stop = why] \in Shape
  BY <1>2 DEF Shape
<1> QED
  BY <1>1, <1>3

(* Stopping, with what the command waits for.                              *)
LEMMA StopAdvances ==
  ASSUME NEW s \in Shape, s.pending <= MaxDebt, NEW z \in 0..4, NEW why \in {"no", "wait", "exit"}
  PROVE  /\ Advances(s, Stop(s, why))
         /\ Advances(s, Stop([s EXCEPT !.total = z], why))
<1>1. Stop(s, why) \in Shape /\ Stop([s EXCEPT !.total = z], why) \in Shape
  BY StopShape DEF Stop
<1>2. Advances(s, Stop(s, why))
  <2> DEFINE t == Stop(s, why)
  <2>1. /\ SameControl(s, t)
        /\ t.fifo = s.fifo /\ t.blitter = s.blitter /\ t.remaining = s.remaining
        /\ t.shaded = s.shaded /\ t.polyline = s.polyline /\ t.cropped = s.cropped
        /\ t.pending = s.pending
    BY DEF Stop, Shape, SameControl
  <2> HIDE DEF t
  <2>2. t \in Shape
    BY <1>1 DEF t
  <2>3. Advances(s, t)
    BY <2>1, <2>2, StreamKept
  <2> QED
    BY <2>3 DEF t
<1>3. Advances(s, Stop([s EXCEPT !.total = z], why))
  <2> DEFINE t == Stop([s EXCEPT !.total = z], why)
  <2>1. /\ SameControl(s, t)
        /\ t.fifo = s.fifo /\ t.blitter = s.blitter /\ t.remaining = s.remaining
        /\ t.shaded = s.shaded /\ t.polyline = s.polyline /\ t.cropped = s.cropped
        /\ t.pending = s.pending
    BY DEF Stop, Shape, SameControl
  <2> HIDE DEF t
  <2>2. t \in Shape
    BY <1>1 DEF t
  <2>3. Advances(s, t)
    BY <2>1, <2>2, StreamKept
  <2> QED
    BY <2>3 DEF t
<1> QED
  BY <1>2, <1>3

(* The debt of a state that looks at commands.                             *)
LEMMA ReadyIs ==
  ASSUME NEW s, Ready(s)
  PROVE  /\ s \in Shape /\ s.pending \in Int /\ s.pending <= MaxDebt
         /\ s.fifo \in Seq(Word) /\ Len(s.fifo) \in Nat \ {0}
         /\ s.fifo[1] \in Word /\ Head(s.fifo) = s.fifo[1]
<1>1. s \in Shape /\ s.pending \in Int /\ s.fifo \in Seq(Word) /\ s.fifo # <<>>
      /\ s.pending <= MaxRunAhead
  BY DEF Ready, Shape
<1>2. s.pending <= MaxDebt
  BY <1>1, TickAssumption DEF MaxDebt
<1>3. Len(s.fifo) \in Nat \ {0} /\ s.fifo[1] \in Word
  <2>1. Len(s.fifo) \in Nat /\ Len(s.fifo) # 0 /\ \A i \in 1..Len(s.fifo) : s.fifo[i] \in Word
    BY <1>1, LenProperties
  <2> QED
    BY <2>1
<1>4. Head(s.fifo) = s.fifo[1]
  BY <1>1
<1> QED
  BY <1>1, <1>2, <1>3, <1>4

(* dispatch_gp0.                                                           *)
LEMMA DispatchAdvances ==
  ASSUME NEW s, Ready(s), s.blitter = "idle", NEW exits
  PROVE  Advances(s, Dispatch(s, exits))
<1> DEFINE w == Head(s.fifo)
<1>1. /\ s \in Shape /\ s.pending <= MaxDebt /\ w \in Word /\ w = s.fifo[1]
      /\ Len(s.fifo) \in Nat
  BY ReadyIs
<1>2. SizeOf(w) \in 1..4
  <2> HIDE DEF w
  <2> QED
    BY <1>1 DEF SizeOf, Word
<1>3. SizeOf(w) \in 0..4
  BY <1>2
<1>4. Advances(s, Stop([s EXCEPT !.total = SizeOf(w)], "wait")) /\ Advances(s, Stop(s, "exit"))
  <2> HIDE DEF w
  <2> QED
    BY <1>1, <1>3, StopAdvances
<1>5. CASE Len(s.fifo) < SizeOf(w)
  BY <1>4, <1>5 DEF Dispatch
<1>6. CASE ~(Len(s.fifo) < SizeOf(w))
  <2>1. SizeOf(w) <= Len(s.fifo)
    BY <1>1, <1>2, <1>6
  <2>2. Advances(s, Handle(s, w))
    <3> HIDE DEF w
    <3> QED
      BY <1>1, <2>1, HandleAdvances
  <2> QED
    BY <1>4, <1>6, <2>2 DEF Dispatch
<1> QED
  BY <1>5, <1>6

(* One advance after another.                                              *)
LEMMA AdvancesOn ==
  ASSUME NEW s \in Shape, NEW t, NEW u, Advances(s, t), Advances(t, u)
  PROVE  Advances(s, u)
<1>1. t \in Shape /\ u \in Shape
  BY DEF Advances
<1>2. SameControl(s, u)
  BY DEF Advances, SameControl
<1>3. /\ s.pending \in Int /\ t.pending \in Int /\ u.pending \in Int
      /\ Len(s.fifo) \in Nat /\ Len(t.fifo) \in Nat /\ Len(u.fifo) \in Nat
  <2>1. s.fifo \in Seq(Word) /\ t.fifo \in Seq(Word) /\ u.fifo \in Seq(Word)
        /\ s.pending \in Int /\ t.pending \in Int /\ u.pending \in Int
    BY <1>1 DEF Shape
  <2> QED
    BY <2>1, LenProperties
<1>4. Spends(s, u)
  BY <1>3 DEF Advances, Spends
<1>5. SameStream(s, u)
  BY DEF Advances, SameStream
<1> QED
  BY <1>1, <1>2, <1>4, <1>5 DEF Advances

(* Words of a picture, none of the next command.                           *)
LEMMA PictureTaken ==
  ASSUME NEW s, Ready(s), s.blitter = "writing", NEW n \in 0..Len(s.fifo), n <= s.remaining
  PROVE  /\ [Drop(s, n) EXCEPT !.remaining = s.remaining - n] \in Shape
         /\ Advances(s, [Drop(s, n) EXCEPT !.remaining = s.remaining - n])
<1> DEFINE d == Drop(s, n)
           t == [d EXCEPT !.remaining = s.remaining - n]
<1>1. /\ s \in Shape /\ s.pending \in Int /\ s.pending <= MaxDebt
      /\ s.fifo \in Seq(Word) /\ Len(s.fifo) \in Nat
  BY ReadyIs
<1>2. s.remaining \in 0..2 /\ s.remaining - n \in 0..2
  <2>1. s.remaining \in 0..2
    BY <1>1 DEF Shape
  <2> QED
    BY <1>1, <2>1
<1>3. d \in Shape /\ d.fifo = SubSeq(s.fifo, n + 1, Len(s.fifo)) /\ Len(d.fifo) = Len(s.fifo) - n
      /\ d = [s EXCEPT !.fifo = d.fifo]
  <2>1. d \in Shape /\ d.fifo = SubSeq(s.fifo, n + 1, Len(s.fifo)) /\ Len(d.fifo) = Len(s.fifo) - n
    BY <1>1, DropKeeps
  <2> QED
    BY <2>1 DEF Drop
<1> HIDE DEF d
<1>4. t \in Shape
  <2> DEFINE m == s.remaining - n
  <2>1. m \in 0..2
    BY <1>2
  <2> HIDE DEF m
  <2>2. [d EXCEPT !.remaining = m] \in Shape
    BY <1>3, <2>1 DEF Shape
  <2> QED
    BY <2>2 DEF m
<1>5. /\ t.fifo = d.fifo /\ t.blitter = s.blitter /\ t.remaining = s.remaining - n
      /\ t.polyline = s.polyline /\ t.cropped = s.cropped /\ t.pending = s.pending
      /\ SameControl(s, t)
  <2>1. /\ d.blitter = s.blitter /\ d.polyline = s.polyline /\ d.cropped = s.cropped
        /\ d.pending = s.pending /\ SameControl(s, d)
    BY <1>1, <1>3 DEF Shape, SameControl
  <2>2. /\ t.fifo = d.fifo /\ t.blitter = d.blitter /\ t.remaining = s.remaining - n
        /\ t.polyline = d.polyline /\ t.cropped = d.cropped /\ t.pending = d.pending
        /\ SameControl(d, t)
    BY <1>3 DEF Shape, SameControl
  <2> QED
    BY <2>1, <2>2 DEF SameControl
<1> HIDE DEF t
<1>6. Spends(s, t)
  BY <1>1, <1>3, <1>5 DEF Spends
<1>7. SameStream(s, t)
  <2>1. Position(s) = PictureAt(s.remaining) /\ Position(t) = PictureAt(s.remaining - n)
        /\ Position(s) \in ParserState /\ Position(t) \in ParserState
    BY <1>1, <1>4, <1>5, PositionIs
  <2>2. s.remaining \in Nat
    BY <1>2
  <2>3. ParseAll(PictureAt(s.remaining), s.fifo) = ParseAll(PictureAt(s.remaining - n), t.fifo)
    BY <1>1, <1>3, <1>5, <2>2, PictureParsed
  <2>4. Clean(s) => Clean(t)
    BY <1>5 DEF Clean
  <2> QED
    BY <1>5, <2>1, <2>3, <2>4 DEF SameStream
<1>8. Advances(s, t)
  BY <1>4, <1>5, <1>6, <1>7 DEF Advances
<1> QED
  BY <1>4, <1>8 DEF t, d

(* The end of a picture that is there.                                     *)
LEMMA PictureEnds ==
  ASSUME NEW s \in Shape, s.pending <= MaxDebt, s.blitter = "writing", s.remaining = 0
  PROVE  Advances(s, [s EXCEPT !.blitter = "idle"])
<1> DEFINE t == [s EXCEPT !.blitter = "idle"]
<1>1. t \in Shape
  BY DEF Shape
<1>2. /\ t.fifo = s.fifo /\ t.blitter = "idle" /\ t.polyline = s.polyline
      /\ t.cropped = s.cropped /\ t.pending = s.pending /\ SameControl(s, t)
  BY DEF Shape, SameControl
<1> HIDE DEF t
<1>3. s.pending \in Int /\ Len(s.fifo) \in Nat
  <2>1. s.fifo \in Seq(Word) /\ s.pending \in Int
    BY DEF Shape
  <2> QED
    BY <2>1, LenProperties
<1>4. Spends(s, t)
  BY <1>2, <1>3 DEF Spends
<1>5. Position(s) = Idle0 /\ Position(t) = Idle0 /\ Position(s) \in ParserState
  BY <1>1, <1>2, PositionIs DEF PictureAt
<1>6. SameStream(s, t)
  BY <1>2, <1>5 DEF SameStream, Clean
<1>7. Advances(s, t)
  BY <1>1, <1>2, <1>4, <1>6 DEF Advances
<1> QED
  BY <1>7 DEF t

(* GPU_BLITTER_WRITING_VRAM.                                               *)
LEMMA WriteAdvances ==
  ASSUME NEW s, Ready(s), s.blitter = "writing", NEW exits
  PROVE  Advances(s, WriteVram(s, exits))
<1> DEFINE n == Least(s.remaining, Len(s.fifo))
           t == [Drop(s, n) EXCEPT !.remaining = s.remaining - n]
           u == WriteVram(s, exits)
<1>1. s \in Shape /\ Len(s.fifo) \in Nat /\ s.remaining \in 0..2
  <2>1. s \in Shape /\ Len(s.fifo) \in Nat
    BY ReadyIs
  <2> QED
    BY <2>1 DEF Shape
<1>2. n \in 0..Len(s.fifo) /\ n <= s.remaining
  BY <1>1 DEF Least
<1>3. t \in Shape /\ Advances(s, t)
  <2> HIDE DEF n
  <2> QED
    BY <1>2, PictureTaken
<1>4. t = [Drop(s, n) EXCEPT !.remaining = @ - n]
  BY DEF Drop
<1>5. u = IF t.remaining > 0 THEN t
          ELSE IF exits THEN Stop(t, "exit") ELSE [t EXCEPT !.blitter = "idle"]
  <2>1. u = LET x == [Drop(s, n) EXCEPT !.remaining = @ - n]
            IN IF x.remaining > 0 THEN x
               ELSE IF exits THEN Stop(x, "exit") ELSE [x EXCEPT !.blitter = "idle"]
    BY DEF WriteVram
  <2> HIDE DEF u, n
  <2> QED
    BY <1>4, <2>1
<1>6. t.blitter = "writing"
  <2> HIDE DEF n
  <2> QED
    BY <1>1 DEF Drop, Shape
<1> HIDE DEF t, u
<1>7. t.remaining \in 0..2 /\ t.pending <= MaxDebt
  BY <1>3 DEF Advances, Spends, Shape
<1>8. CASE t.remaining > 0
  BY <1>3, <1>5, <1>8 DEF u
<1>9. CASE ~(t.remaining > 0)
  <2>1. t.remaining = 0
    BY <1>7, <1>9
  <2>2. Advances(t, [t EXCEPT !.blitter = "idle"])
    BY <1>3, <1>6, <1>7, <2>1, PictureEnds
  <2>3. Advances(t, Stop(t, "exit"))
    <3>1. 0 \in 0..4 /\ "exit" \in {"no", "wait", "exit"}
      OBVIOUS
    <3> QED
      BY <1>3, <1>7, <3>1, StopAdvances
  <2>4. Advances(s, [t EXCEPT !.blitter = "idle"]) /\ Advances(s, Stop(t, "exit"))
    BY <1>1, <1>3, <2>2, <2>3, AdvancesOn
  <2>5. Advances(s, u)
    BY <1>5, <1>9, <2>4
  <2> QED
    BY <2>5 DEF u
<1> QED
  BY <1>8, <1>9

NoEnd(s, n) == \A i \in 1..n : Checked(s.shaded, s.polyline, i) => s.fifo[i] # "term"

TakesVertices(s, n, m) ==
  [Drop(s, n) EXCEPT !.polyline = @ + n, !.cropped = @ \/ n < m]

(* n words of a polyline, of m before its terminator.                      *)
LEMMA PolylineTaken ==
  ASSUME NEW s, Ready(s), s.blitter = "polyline", NEW n \in 0..Len(s.fifo), NEW m \in Nat,
         s.polyline + n <= MaxPolyline,
         n < m \/ NoEnd(s, n), NEW t, t = TakesVertices(s, n, m)
  PROVE  /\ Advances(s, t) /\ t.blitter = "polyline" /\ t.shaded = s.shaded
         /\ t.polyline = s.polyline + n /\ t.cropped = (s.cropped \/ n < m)
         /\ t.fifo = SubSeq(s.fifo, n + 1, Len(s.fifo)) /\ Len(t.fifo) = Len(s.fifo) - n
<1> DEFINE d == Drop(s, n)
<1>1. /\ s \in Shape /\ s.pending \in Int /\ s.pending <= MaxDebt
      /\ s.fifo \in Seq(Word) /\ Len(s.fifo) \in Nat
  BY ReadyIs
<1>2. s.polyline \in Nat /\ s.polyline + n \in 0..MaxPolyline /\ s.shaded \in BOOLEAN /\ s.cropped \in BOOLEAN
  <2>1. s.polyline \in 0..MaxPolyline /\ s.shaded \in BOOLEAN /\ s.cropped \in BOOLEAN
    BY <1>1 DEF Shape
  <2> QED
    BY <1>1, <2>1, FifoAssumption
<1>3. d \in Shape /\ d.fifo = SubSeq(s.fifo, n + 1, Len(s.fifo)) /\ Len(d.fifo) = Len(s.fifo) - n
      /\ d = [s EXCEPT !.fifo = d.fifo]
  <2>1. d \in Shape /\ d.fifo = SubSeq(s.fifo, n + 1, Len(s.fifo)) /\ Len(d.fifo) = Len(s.fifo) - n
    BY <1>1, DropKeeps
  <2> QED
    BY <2>1 DEF Drop
<1>4. /\ d.blitter = s.blitter /\ d.polyline = s.polyline /\ d.cropped = s.cropped
      /\ d.pending = s.pending /\ d.shaded = s.shaded /\ SameControl(s, d)
  <2> HIDE DEF d
  <2> QED
    BY <1>1, <1>3 DEF Shape, SameControl
<1>5. t = [d EXCEPT !.polyline = s.polyline + n, !.cropped = (s.cropped \/ n < m)]
  <2>1. t = [d EXCEPT !.polyline = d.polyline + n, !.cropped = d.cropped \/ n < m]
    <3> HIDE DEF d
    <3>1. t = [d EXCEPT !.polyline = @ + n, !.cropped = @ \/ n < m]
      BY DEF d, TakesVertices
    <3> QED
      BY <1>3, <3>1 DEF Shape
  <2> HIDE DEF d
  <2> QED
    BY <1>4, <2>1
<1> HIDE DEF d
<1>6. t \in Shape
  <2> DEFINE v == s.polyline + n
             c == s.cropped \/ n < m
  <2>1. v \in 0..MaxPolyline /\ c \in BOOLEAN
    BY <1>2
  <2> HIDE DEF v, c
  <2>2. [d EXCEPT !.polyline = v, !.cropped = c] \in Shape
    BY <1>3, <2>1 DEF Shape
  <2> QED
    BY <1>5, <2>2 DEF v, c
<1>7. /\ t.fifo = d.fifo /\ t.blitter = d.blitter /\ t.polyline = s.polyline + n
      /\ t.cropped = (s.cropped \/ n < m)
      /\ t.pending = d.pending /\ t.shaded = d.shaded /\ SameControl(d, t)
  BY <1>3, <1>5 DEF Shape, SameControl
<1>8. SameControl(s, t)
  BY <1>4, <1>7 DEF SameControl
<1>9. Spends(s, t)
  BY <1>1, <1>3, <1>4, <1>7 DEF Spends
<1>10. SameStream(s, t)
  <2> SUFFICES ASSUME Clean(s), ~t.cropped
               PROVE  /\ Clean(t)
                      /\ Position(s) \in ParserState /\ Position(t) \in ParserState
                      /\ ParseAll(Position(t), t.fifo) = ParseAll(Position(s), s.fifo)
    BY <1>7 DEF SameStream
  <2>1. Position(s) = PolylineAt(s.shaded, s.polyline)
        /\ Position(t) = PolylineAt(s.shaded, s.polyline + n)
        /\ Position(s) \in ParserState /\ Position(t) \in ParserState
    BY <1>1, <1>4, <1>6, <1>7, PositionIs
  <2>2. \A i \in 1..n : Checked(s.shaded, s.polyline, i) => s.fifo[i] # "term"
    BY <1>7 DEF NoEnd
  <2>3. ParseAll(PolylineAt(s.shaded, s.polyline), s.fifo) =
          ParseAll(PolylineAt(s.shaded, s.polyline + n), SubSeq(s.fifo, n + 1, Len(s.fifo)))
    BY <1>1, <1>2, <2>2, PolylineParsed
  <2>4. Clean(t)
    BY <1>4, <1>7 DEF Clean
  <2> QED
    BY <1>3, <1>7, <2>1, <2>3, <2>4
<1> QED
  BY <1>3, <1>4, <1>6, <1>7, <1>8, <1>9, <1>10 DEF Advances

(* gpu_finish_polyline and the terminator.                                 *)
LEMMA PolylineEnds ==
  ASSUME NEW s \in Shape, s.pending <= MaxDebt, s.blitter = "polyline", Len(s.fifo) > 0,
         s.cropped \/ (s.fifo[1] = "term" /\ PolylineAt(s.shaded, s.polyline).mode = "end")
  PROVE  Advances(s, EndCommand([Drop(s, 1) EXCEPT !.polyline = 0]))
<1> DEFINE d == Drop(s, 1)
           t == EndCommand([d EXCEPT !.polyline = 0])
<1>1. s.fifo \in Seq(Word) /\ Len(s.fifo) \in Nat /\ s.pending \in Int
  <2>1. s.fifo \in Seq(Word) /\ s.pending \in Int
    BY DEF Shape
  <2> QED
    BY <2>1, LenProperties
<1>2. d \in Shape /\ d.fifo = SubSeq(s.fifo, 1 + 1, Len(s.fifo)) /\ Len(d.fifo) = Len(s.fifo) - 1
      /\ d = [s EXCEPT !.fifo = d.fifo]
  <2>1. 1 \in 0..Len(s.fifo)
    BY <1>1
  <2>2. d \in Shape /\ d.fifo = SubSeq(s.fifo, 1 + 1, Len(s.fifo)) /\ Len(d.fifo) = Len(s.fifo) - 1
    BY <2>1, DropKeeps
  <2> QED
    BY <2>2 DEF Drop
<1> HIDE DEF d
<1>3. t \in Shape
  <2> DEFINE z == 0
  <2>1. z \in 0..4 /\ z \in 0..MaxPolyline
    BY FifoAssumption
  <2> HIDE DEF z
  <2>2. [d EXCEPT !.polyline = z] \in Shape
    BY <1>2, <2>1 DEF Shape
  <2>3. [[d EXCEPT !.polyline = z] EXCEPT !.blitter = "idle", !.total = z] \in Shape
    BY <2>1, <2>2 DEF Shape
  <2> QED
    BY <2>3 DEF z, EndCommand
<1>4. /\ t.fifo = d.fifo /\ t.blitter = "idle" /\ t.polyline = 0 /\ t.cropped = s.cropped
      /\ t.pending = s.pending /\ SameControl(s, t)
  <2>1. d.cropped = s.cropped /\ d.pending = s.pending /\ SameControl(s, d)
    BY <1>2 DEF Shape, SameControl
  <2>2. /\ t.fifo = d.fifo /\ t.blitter = "idle" /\ t.polyline = 0 /\ t.cropped = d.cropped
        /\ t.pending = d.pending /\ SameControl(d, t)
    BY <1>2 DEF Shape, SameControl, EndCommand
  <2> QED
    BY <2>1, <2>2 DEF SameControl
<1> HIDE DEF t
<1>5. Spends(s, t)
  BY <1>1, <1>2, <1>4 DEF Spends
<1>6. SameStream(s, t)
  <2> SUFFICES ASSUME Clean(s), ~t.cropped
               PROVE  /\ Clean(t)
                      /\ Position(s) \in ParserState /\ Position(t) \in ParserState
                      /\ ParseAll(Position(t), t.fifo) = ParseAll(Position(s), s.fifo)
    BY <1>4 DEF SameStream
  <2>1. Position(s) = PolylineAt(s.shaded, s.polyline) /\ Position(t) = Idle0
        /\ Position(s) \in ParserState /\ Position(t) \in ParserState
    BY <1>3, <1>4, PositionIs
  <2>2. Parse(Position(s), s.fifo[1]) = Idle0
    BY <1>4, <2>1 DEF Parse
  <2> DEFINE h == [i \in 0..1 |-> IF i = 0 THEN Position(s) ELSE Idle0]
  <2>3. h[0] = Position(s) /\ h[1] = Idle0
    OBVIOUS
  <2> HIDE DEF h
  <2>4. 1 \in 0..Len(s.fifo) /\ \A i \in 1..1 : h[i] = Parse(h[i - 1], s.fifo[i])
    BY <1>1, <2>2, <2>3
  <2>5. ParseAll(Position(s), s.fifo) = ParseAll(h[1], SubSeq(s.fifo, 1 + 1, Len(s.fifo)))
    BY <1>1, <2>1, <2>3, <2>4, ParseDropped
  <2>6. Clean(t)
    BY <1>4 DEF Clean
  <2> QED
    BY <1>2, <1>4, <2>1, <2>3, <2>5, <2>6
<1>7. Advances(s, t)
  BY <1>3, <1>4, <1>5, <1>6 DEF Advances
<1> QED
  BY <1>7 DEF t, d

(* GPU_BLITTER_DRAWING_POLYLINE.                                           *)
LEMMA PolylineAdvances ==
  ASSUME NEW s, Ready(s), s.blitter = "polyline"
  PROVE  Advances(s, DrawPolyline(s))
<1> DEFINE first == FirstChecked(s)
           step  == IF s.shaded THEN 2 ELSE 1
           ends  == {i \in first..Len(s.fifo) : (i - first) % step = 0 /\ s.fifo[i] = "term"}
           found == ends # {}
           upto  == IF found THEN (CHOOSE i \in ends : \A j \in ends : i <= j) - 1 ELSE Len(s.fifo)
           n     == Least(upto, MaxPolyline - s.polyline)
           t     == [Drop(s, n) EXCEPT !.polyline = @ + n, !.cropped = @ \/ n < upto]
           u     == DrawPolyline(s)
<1>1. /\ s \in Shape /\ s.pending \in Int /\ s.pending <= MaxDebt
      /\ s.fifo \in Seq(Word) /\ Len(s.fifo) \in Nat
  BY ReadyIs
<1>2. s.polyline \in 0..MaxPolyline /\ MaxPolyline \in Nat /\ s.shaded \in BOOLEAN /\ s.cropped \in BOOLEAN
  <2>1. s.polyline \in 0..MaxPolyline /\ s.shaded \in BOOLEAN /\ s.cropped \in BOOLEAN
    BY <1>1 DEF Shape
  <2> QED
    BY <2>1, FifoAssumption
<1>3. u = IF found THEN EndCommand([Drop(t, 1) EXCEPT !.polyline = 0]) ELSE Stop(t, "wait")
  BY DEF DrawPolyline
<1>4. first \in 1..2
  BY DEF FirstChecked
<1>5. \A i \in 1..Len(s.fifo) : i \in ends <=> Checked(s.shaded, s.polyline, i) /\ s.fifo[i] = "term"
  BY <1>1 DEF FirstChecked, Checked
<1>6. ends \in SUBSET Nat /\ ends \subseteq 1..Len(s.fifo)
  BY <1>1, <1>4
<1> HIDE DEF first, ends, u
<1>7. /\ upto \in 0..Len(s.fifo)
      /\ \A i \in 1..upto : Checked(s.shaded, s.polyline, i) => s.fifo[i] # "term"
      /\ found => upto + 1 \in ends
  <2>1. CASE found
    <3>1. \E i \in ends : \A j \in ends : i <= j
      BY <1>6, <2>1, LeastNumber
    <3> DEFINE i0 == CHOOSE i \in ends : \A j \in ends : i <= j
    <3>2. i0 \in ends /\ \A j \in ends : i0 <= j
      BY <3>1
    <3>3. upto = i0 - 1
      BY <2>1
    <3> HIDE DEF i0
    <3>4. i0 \in 1..Len(s.fifo)
      BY <1>6, <3>2
    <3> HIDE DEF upto
    <3>5. upto \in 0..Len(s.fifo) /\ upto + 1 = i0
      BY <1>1, <3>3, <3>4
    <3>6. ASSUME NEW i \in 1..upto, Checked(s.shaded, s.polyline, i), s.fifo[i] = "term" PROVE FALSE
      <4>1. i \in 1..Len(s.fifo) /\ ~(i0 <= i)
        BY <1>1, <3>5
      <4> QED
        BY <1>5, <3>2, <3>6, <4>1
    <3> QED
      BY <3>2, <3>5, <3>6
  <2>2. CASE ~found
    <3>1. upto = Len(s.fifo) /\ ends = {}
      BY <2>2
    <3> HIDE DEF upto
    <3> QED
      BY <1>1, <1>5, <3>1
  <2> QED
    BY <2>1, <2>2
<1> HIDE DEF upto
<1>8. n \in 0..upto /\ s.polyline + n <= MaxPolyline /\ n \in 0..Len(s.fifo)
  BY <1>1, <1>2, <1>7 DEF Least
<1> HIDE DEF n
<1>9. ~(n < upto) => n = upto
  BY <1>1, <1>7, <1>8
<1>10. /\ Advances(s, t) /\ t.blitter = "polyline" /\ t.shaded = s.shaded
       /\ t.polyline = s.polyline + n /\ t.cropped = (s.cropped \/ n < upto)
       /\ t.fifo = SubSeq(s.fifo, n + 1, Len(s.fifo)) /\ Len(t.fifo) = Len(s.fifo) - n
  <2>1. upto \in Nat
    BY <1>1, <1>7
  <2>2. n < upto \/ NoEnd(s, n)
    BY <1>7, <1>9 DEF NoEnd
  <2>3. t = TakesVertices(s, n, upto)
    BY DEF TakesVertices
  <2> HIDE DEF t
  <2> QED
    BY <1>8, <2>1, <2>2, <2>3, PolylineTaken
<1> HIDE DEF t
<1>11. t \in Shape /\ t.pending <= MaxDebt
  BY <1>10 DEF Advances, Spends
<1>12. CASE found
  <2>1. upto + 1 \in 1..Len(s.fifo) /\ Checked(s.shaded, s.polyline, upto + 1)
        /\ s.fifo[upto + 1] = "term"
    BY <1>5, <1>6, <1>7, <1>12
  <2>2. Len(t.fifo) > 0
    BY <1>1, <1>7, <1>8, <1>10, <2>1
  <2>3. ASSUME ~t.cropped
        PROVE  t.fifo[1] = "term" /\ PolylineAt(t.shaded, t.polyline).mode = "end"
    <3>1. n = upto
      BY <1>9, <1>10, <2>3
    <3>2. t.fifo[1] = s.fifo[n + 1]
      <4>1. 1 \in 1..(Len(s.fifo) - n)
        BY <1>1, <1>7, <2>1, <3>1
      <4> QED
        BY <1>1, <1>8, <1>10, <4>1, Dropped
    <3>3. PolylineAt(s.shaded, s.polyline + ((upto + 1) - 1)).mode = "end"
      <4> DEFINE k == upto + 1
      <4>1. k \in Nat \ {0} /\ s.polyline \in Nat
        BY <1>2, <1>7
      <4>2. Checked(s.shaded, s.polyline, k)
        BY <2>1
      <4> HIDE DEF k
      <4>3. PolylineAt(s.shaded, s.polyline + (k - 1)).mode = "end"
        BY <1>2, <4>1, <4>2, CheckedIsEnd
      <4> QED
        BY <4>3 DEF k
    <3>4. (upto + 1) - 1 = upto
      BY <1>7
    <3> QED
      BY <1>10, <2>1, <3>1, <3>2, <3>3, <3>4
  <2>4. Advances(t, EndCommand([Drop(t, 1) EXCEPT !.polyline = 0]))
    BY <1>10, <1>11, <2>2, <2>3, PolylineEnds
  <2>5. Advances(s, EndCommand([Drop(t, 1) EXCEPT !.polyline = 0]))
    BY <1>1, <1>10, <2>4, AdvancesOn
  <2> QED
    BY <1>3, <1>12, <2>5 DEF u
<1>13. CASE ~found
  <2>1. Advances(t, Stop(t, "wait"))
    <3>1. 0 \in 0..4 /\ "wait" \in {"no", "wait", "exit"}
      OBVIOUS
    <3> QED
      BY <1>11, <3>1, StopAdvances
  <2>2. Advances(s, Stop(t, "wait"))
    BY <1>1, <1>10, <2>1, AdvancesOn
  <2> QED
    BY <1>3, <1>13, <2>2 DEF u
<1> QED
  BY <1>12, <1>13

(* One pass of the loop.                                                   *)
LEMMA StepAdvances ==
  ASSUME NEW s \in Shape, s.pending <= MaxDebt, NEW exits
  PROVE  Advances(s, TryStep(s, exits))
<1>1. CASE s.stop # "no" \/ s.fifo = <<>> \/ s.pending > MaxRunAhead
  <2>1. TryStep(s, exits) = s
    BY <1>1 DEF TryStep
  <2>2. SameControl(s, s)
    BY DEF SameControl
  <2>3. Advances(s, s)
    BY <2>2, StreamKept
  <2> QED
    BY <2>1, <2>3
<1>2. CASE ~(s.stop # "no" \/ s.fifo = <<>> \/ s.pending > MaxRunAhead)
  <2>1. Ready(s)
    <3>1. s.pending \in Int
      BY DEF Shape
    <3> QED
      BY <1>2, <3>1, TickAssumption DEF Ready
  <2>2. TryStep(s, exits) =
          CASE s.blitter = "idle"     -> Dispatch(s, exits)
            [] s.blitter = "writing"  -> WriteVram(s, exits)
            [] s.blitter = "polyline" -> DrawPolyline(s)
            [] s.blitter = "reading"  -> Stop(s, "wait")
    BY <1>2 DEF TryStep
  <2>3. s.blitter \in {"idle", "reading", "writing", "polyline"}
    BY DEF Shape
  <2>4. CASE s.blitter = "idle"
    BY <2>1, <2>2, <2>4, DispatchAdvances
  <2>5. CASE s.blitter = "writing"
    BY <2>1, <2>2, <2>5, WriteAdvances
  <2>6. CASE s.blitter = "polyline"
    BY <2>1, <2>2, <2>6, PolylineAdvances
  <2>7. CASE s.blitter = "reading"
    <3>1. 0 \in 0..4 /\ "wait" \in {"no", "wait", "exit"}
      OBVIOUS
    <3>2. Advances(s, Stop(s, "wait"))
      BY <3>1, StopAdvances
    <3> QED
      BY <2>2, <2>7, <3>2
  <2> QED
    BY <2>3, <2>4, <2>5, <2>6, <2>7
<1> QED
  BY <1>1, <1>2

(* gpu_try_execute_commands.                                               *)
LEMMA TryAdvances ==
  ASSUME NEW s \in Shape, s.pending <= MaxDebt, NEW exits
  PROVE  Advances(s, TryExecuteCommands(s, exits))
<1> DEFINE N == Len(s.fifo) + 2
           S == {t \in Shape : Advances(s, t)}
           F == [x \in Nat \X S |-> TryStep(x[2], exits)]
           Body(f) == [n \in 0..N |-> IF n = 0 THEN s
                                      ELSE Once(f[n - 1], LAMBDA t : TryStep(t, exits))]
           r == CHOOSE f : f = Body(f)
<1>1. N \in Nat
  <2>1. s.fifo \in Seq(Word)
    BY DEF Shape
  <2>2. Len(s.fifo) \in Nat
    BY <2>1, LenProperties
  <2> QED
    BY <2>2
<1>2. s \in S
  <2>1. SameControl(s, s)
    BY DEF SameControl
  <2> QED
    BY <2>1, StreamKept
<1>3. ASSUME NEW t \in S PROVE TryStep(t, exits) \in S
  <2>1. t \in Shape /\ Advances(s, t)
    OBVIOUS
  <2>2. t.pending <= MaxDebt
    BY <2>1 DEF Advances, Spends
  <2>3. Advances(t, TryStep(t, exits))
    BY <2>1, <2>2, StepAdvances
  <2>4. Advances(s, TryStep(t, exits)) /\ TryStep(t, exits) \in Shape
    BY <2>1, <2>3, AdvancesOn DEF Advances
  <2> QED
    BY <2>4
<1>4. ASSUME NEW x PROVE Once(x, LAMBDA t : TryStep(t, exits)) = TryStep(x, exits)
  <2>1. {TryStep(y, exits) : y \in {x}} = {TryStep(x, exits)}
    OBVIOUS
  <2> QED
    BY <2>1 DEF Once
<1>5. \A f : Body(f) = [n \in 0..N |-> IF n = 0 THEN s ELSE TryStep(f[n - 1], exits)]
  <2> TAKE f
  <2>1. \A n \in 0..N : (IF n = 0 THEN s ELSE Once(f[n - 1], LAMBDA t : TryStep(t, exits)))
                          = (IF n = 0 THEN s ELSE TryStep(f[n - 1], exits))
    BY <1>4
  <2> HIDE DEF N
  <2> QED
    BY <2>1
<1>6. TryExecuteCommands(s, exits) = r[N]
  BY DEF TryExecuteCommands
<1>7. PICK at \in [0..N -> S] : RunOf(at, F, s, N)
  <2>1. Passes(F, S)
    <3> HIDE DEF S
    <3> QED
      BY <1>3 DEF Passes
  <2> HIDE DEF F, N, S
  <2> QED
    BY <1>1, <1>2, <2>1, LoopRuns
<1> HIDE DEF S, Body, r, N
<1>8. at[0] = s /\ \A n \in 1..N : at[n] = TryStep(at[n - 1], exits)
  <2>1. at[0] = s
    BY <1>7 DEF RunOf
  <2>2. ASSUME NEW n \in 1..N PROVE at[n] = TryStep(at[n - 1], exits)
    <3>1. at[n - 1] \in S /\ n \in Nat
      BY <1>1, <1>7
    <3>2. F[<<n, at[n - 1]>>] = TryStep(at[n - 1], exits)
      BY <3>1
    <3> QED
      BY <1>7, <3>2 DEF RunOf
  <2> QED
    BY <2>1, <2>2
<1> HIDE DEF F
<1>9. at = Body(at)
  <2>1. \A n \in 0..N : at[n] = IF n = 0 THEN s ELSE TryStep(at[n - 1], exits)
    BY <1>1, <1>8
  <2>2. at = [n \in 0..N |-> IF n = 0 THEN s ELSE TryStep(at[n - 1], exits)]
    BY <1>7, <2>1
  <2> QED
    BY <1>5, <2>2
<1>10. r = Body(r)
  BY <1>9 DEF r
<1>11. r[0] = s /\ \A n \in 1..N : r[n] = TryStep(r[n - 1], exits)
  <2>1. r = [n \in 0..N |-> IF n = 0 THEN s ELSE TryStep(r[n - 1], exits)]
    BY <1>5, <1>10
  <2>2. \A n \in 0..N : [m \in 0..N |-> IF m = 0 THEN s ELSE TryStep(r[m - 1], exits)][n]
                          = IF n = 0 THEN s ELSE TryStep(r[n - 1], exits)
    OBVIOUS
  <2>3. \A n \in 0..N : r[n] = IF n = 0 THEN s ELSE TryStep(r[n - 1], exits)
    BY <2>1, <2>2
  <2> QED
    BY <1>1, <2>3
<1>12. GoAlike(at, r, N)
  BY <1>8, <1>11 DEF GoAlike
<1>13. at[N] = r[N]
  BY <1>1, <1>12, LoopsAgree
<1>14. at[N] \in S
  BY <1>1, <1>7
<1> QED
  BY <1>6, <1>13, <1>14 DEF S

-----------------------------------------------------------------------------
(* The event and the flags.                                                *)

(* All but flags and event.                                                *)
SameWork(s, t) ==
  /\ t.fifo = s.fifo /\ t.blitter = s.blitter /\ t.total = s.total
  /\ t.remaining = s.remaining /\ t.unread = s.unread /\ t.polyline = s.polyline
  /\ t.shaded = s.shaded /\ t.cropped = s.cropped /\ t.direction = s.direction
  /\ t.exited = s.exited

SameEvent(s, t) ==
  /\ t.active = s.active /\ t.since = s.since /\ t.left = s.left /\ t.interval = s.interval

(* The event is put for the debt.                                          *)
InTime(t) ==
  /\ t.pending >= 0 /\ (t.active <=> t.pending > 0)
  /\ t.left \in Nat /\ 2 * t.left >= t.pending

Rescheduled(s, t) ==
  /\ t.pending = (IF s.pending <= 0 THEN 0 ELSE s.pending)
  /\ InTime(t)
  /\ t.since = (IF t.pending > 0 /\ s.active THEN s.since ELSE 0)

(* gpu_update_command_tick_event.                                          *)
LEMMA EventUpdated ==
  ASSUME NEW s \in Shape
  PROVE  /\ UpdateCommandTickEvent(s) \in Shape
         /\ Rescheduled(s, UpdateCommandTickEvent(s)) /\ SameWork(s, UpdateCommandTickEvent(s))
         /\ UpdateCommandTickEvent(s).request = s.request
         /\ UpdateCommandTickEvent(s).idle = s.idle
         /\ UpdateCommandTickEvent(s).executing = s.executing
         /\ UpdateCommandTickEvent(s).stop = s.stop
<1> DEFINE t == UpdateCommandTickEvent(s)
<1>1. s.pending \in Int /\ s.since \in 0..Enough /\ s.active \in BOOLEAN
  BY DEF Shape
<1>2. Enough \in Nat
  BY TickAssumption DEF Enough
<1>3. CASE s.pending <= 0
  <2>1. t = [s EXCEPT !.pending = 0, !.active = FALSE, !.since = 0, !.left = 0, !.interval = 1]
    BY <1>3 DEF UpdateCommandTickEvent
  <2>2. t \in Shape
    <3> DEFINE z == 0
               o == 1
    <3>1. z \in Int /\ z \in 0..Enough /\ o \in Nat
      BY <1>2
    <3> HIDE DEF z, o, t
    <3>2. [s EXCEPT !.pending = z, !.active = FALSE, !.since = z, !.left = z, !.interval = o] \in Shape
      BY <3>1 DEF Shape
    <3> QED
      BY <2>1, <3>2 DEF z, o
  <2>3. /\ t.pending = 0 /\ t.active = FALSE /\ t.since = 0 /\ t.left = 0
        /\ t.request = s.request /\ t.idle = s.idle /\ t.executing = s.executing /\ t.stop = s.stop
    <3> HIDE DEF t
    <3> QED
      BY <2>1 DEF Shape
  <2>4. SameWork(s, t)
    <3> HIDE DEF t
    <3> QED
      BY <2>1 DEF Shape, SameWork
  <2> HIDE DEF t
  <2>5. Rescheduled(s, t)
    <3>1. ~t.active
      BY <2>3
    <3> QED
      BY <1>3, <2>3, <3>1 DEF Rescheduled, InTime
  <2> QED
    BY <2>2, <2>3, <2>4, <2>5 DEF t
<1>4. CASE ~(s.pending <= 0)
  <2> DEFINE h == HalfUp(s.pending)
             c == IF s.active THEN s.since ELSE 0
  <2>1. t = [s EXCEPT !.active = TRUE, !.interval = h, !.left = h, !.since = c]
    <3>1. t = [s EXCEPT !.active = TRUE, !.interval = h, !.left = h,
                        !.since = IF s.active THEN @ ELSE 0]
      BY <1>4 DEF UpdateCommandTickEvent
    <3>2. [s EXCEPT !.active = TRUE, !.interval = h, !.left = h,
                    !.since = IF s.active THEN @ ELSE 0]
          = [s EXCEPT !.active = TRUE, !.interval = h, !.left = h, !.since = c]
      OBVIOUS
    <3> QED
      BY <3>1, <3>2
  <2>2. h \in Nat /\ 2 * h >= s.pending /\ c \in 0..Enough
    BY <1>1, <1>2, <1>4 DEF HalfUp
  <2> HIDE DEF t, h, c
  <2>3. t \in Shape
    <3>1. h \in Int
      BY <2>2
    <3>2. [s EXCEPT !.active = TRUE, !.interval = h, !.left = h, !.since = c] \in Shape
      BY <2>2, <3>1 DEF Shape
    <3> QED
      BY <2>1, <3>2
  <2>4. /\ t.pending = s.pending /\ t.active = TRUE /\ t.since = c /\ t.left = h
        /\ t.request = s.request /\ t.idle = s.idle /\ t.executing = s.executing /\ t.stop = s.stop
    BY <2>1 DEF Shape
  <2>5. SameWork(s, t)
    BY <2>1 DEF Shape, SameWork
  <2>6. Rescheduled(s, t)
    <3>1. t.active
      BY <2>4
    <3>2. InTime(t)
      BY <1>1, <1>4, <2>2, <2>4, <3>1 DEF InTime
    <3>3. t.since = IF t.pending > 0 /\ s.active THEN s.since ELSE 0
      BY <1>1, <1>4, <2>4 DEF c
    <3> QED
      BY <1>4, <2>4, <3>2, <3>3 DEF Rescheduled
  <2> QED
    BY <2>3, <2>4, <2>5, <2>6 DEF t
<1> QED
  BY <1>3, <1>4

(* A request depends on the work and the direction alone, idleness on the  *)
(* debt as well, and neither minds a debt that is settled.                 *)
LEMMA FlagsOf ==
  ASSUME NEW s \in Shape, NEW t, SameWork(s, t)
  PROVE  /\ Request(t) = Request(s) /\ Request(s) \in BOOLEAN
         /\ IsIdle(s) \in BOOLEAN
         /\ (t.pending <= 0 <=> s.pending <= 0) => IsIdle(t) = IsIdle(s)
<1>1. ReadyForDma(t) = ReadyForDma(s)
  BY DEF SameWork, ReadyForDma
<1>2. Request(t) = Request(s) /\ Request(s) \in BOOLEAN
  BY <1>1 DEF SameWork, Request
<1>3. IsIdle(s) \in BOOLEAN
  BY DEF IsIdle
<1>4. (t.pending <= 0 <=> s.pending <= 0) => IsIdle(t) = IsIdle(s)
  BY DEF SameWork, IsIdle
<1> QED
  BY <1>2, <1>3, <1>4

(* gpu_update_dma_request and gpu_update_gpu_idle.                         *)
LEMMA FlagsUpdated ==
  ASSUME NEW s \in Shape, NEW t, t = UpdateGpuIdle(UpdateDmaRequest(s))
  PROVE  /\ t \in Shape /\ SameWork(s, t) /\ SameEvent(s, t)
         /\ t.pending = s.pending /\ t.executing = s.executing /\ t.stop = s.stop
         /\ t.request = Request(t) /\ t.idle = IsIdle(t)
<1> DEFINE d == UpdateDmaRequest(s)
           q == Request(s)
           i == IsIdle(d)
<1>1. q \in BOOLEAN
  <2>1. SameWork(s, s)
    BY DEF SameWork
  <2> QED
    BY <2>1, FlagsOf
<1>2. d = [s EXCEPT !.request = q] /\ t = [d EXCEPT !.idle = i]
  BY DEF UpdateDmaRequest, UpdateGpuIdle
<1> HIDE DEF d, q, i
<1>3. /\ d \in Shape /\ SameWork(s, d) /\ SameEvent(s, d) /\ d.request = q
      /\ d.pending = s.pending /\ d.executing = s.executing /\ d.stop = s.stop
  BY <1>1, <1>2 DEF Shape, SameWork, SameEvent
<1>4. i \in BOOLEAN
  BY <1>3, FlagsOf DEF i
<1>5. /\ t \in Shape /\ SameWork(d, t) /\ SameEvent(d, t) /\ t.request = d.request /\ t.idle = i
      /\ t.pending = d.pending /\ t.executing = d.executing /\ t.stop = d.stop
  <2>1. t \in Shape
    BY <1>2, <1>3, <1>4 DEF Shape
  <2>2. SameWork(d, t) /\ SameEvent(d, t)
    BY <1>2, <1>3 DEF Shape, SameWork, SameEvent
  <2>3. t.request = d.request /\ t.idle = i /\ t.pending = d.pending /\ t.executing = d.executing
        /\ t.stop = d.stop
    BY <1>2, <1>3 DEF Shape
  <2> QED
    BY <2>1, <2>2, <2>3
<1>6. SameWork(s, t) /\ SameEvent(s, t)
  BY <1>3, <1>5 DEF SameWork, SameEvent
<1>7. Request(t) = q
  BY <1>6, FlagsOf DEF q
<1>8. IsIdle(t) = i
  BY <1>3, <1>5, FlagsOf DEF i
<1> QED
  BY <1>3, <1>5, <1>6, <1>7, <1>8

-----------------------------------------------------------------------------
(* Operations.                                                             *)

(* What is true of everything that runs commands.                          *)
Runs(s, t) ==
  /\ t \in Shape /\ t.pending <= MaxDebt /\ Len(t.fifo) <= Len(s.fifo)
  /\ t.direction = s.direction /\ t.exited = s.exited
  /\ SameStream(s, t)

Flagged(t) == t.request = Request(t) /\ t.idle = IsIdle(t)

(* gpu_execute_commands.  Left in the middle, executing_commands stays set.*)
Executed(s, t) ==
  /\ Runs(s, t)
  /\ t.stop = "exit" => t.executing /\ SameEvent(s, t) /\ s.pending <= t.pending
  /\ t.stop # "exit" =>
       /\ t.executing = s.executing /\ Flagged(t)
       /\ IF s.executing THEN SameEvent(s, t) /\ s.pending <= t.pending
          ELSE InTime(t) /\ t.since = (IF t.pending > 0 /\ s.active THEN s.since ELSE 0)

(* The stream is that of the work.                                         *)
LEMMA WorkIsStream ==
  ASSUME NEW s, NEW t, NEW u, SameStream(s, t), SameWork(t, u)
  PROVE  SameStream(s, u)
<1>1. Position(u) = Position(t)
  BY DEF SameWork, Position
<1>2. Clean(u) <=> Clean(t)
  BY DEF SameWork, Clean
<1> QED
  BY <1>1, <1>2 DEF SameStream, SameWork

(* The same for what goes before.                                          *)
LEMMA StreamIsWork ==
  ASSUME NEW s, NEW t, NEW u, SameWork(s, t), SameStream(t, u)
  PROVE  SameStream(s, u)
<1>1. Position(s) = Position(t)
  BY DEF SameWork, Position
<1>2. Clean(s) <=> Clean(t)
  BY DEF SameWork, Clean
<1> QED
  BY <1>1, <1>2 DEF SameStream, SameWork

(* gpu_execute_commands.                                                   *)
LEMMA ExecuteRuns ==
  ASSUME NEW s \in Shape, s.pending <= MaxDebt, NEW exits
  PROVE  Executed(s, ExecuteCommands(s, exits))
<1> DEFINE b == [s EXCEPT !.executing = TRUE, !.stop = "no"]
           t == TryExecuteCommands(b, exits)
           e == [t EXCEPT !.executing = s.executing]
           f == UpdateGpuIdle(UpdateDmaRequest(e))
           u == ExecuteCommands(s, exits)
<1>1. u = IF t.stop = "exit" THEN t ELSE IF s.executing THEN f ELSE UpdateCommandTickEvent(f)
  <2> DEFINE After(x) ==
        IF x.stop = "exit" THEN x
        ELSE LET y == UpdateGpuIdle(UpdateDmaRequest([x EXCEPT !.executing = s.executing]))
             IN IF s.executing THEN y ELSE UpdateCommandTickEvent(y)
  <2>1. u = Once(t, After)
    BY DEF ExecuteCommands
  <2>2. {After(x) : x \in {t}} = {After(t)}
    OBVIOUS
  <2>3. Once(t, After) = After(t)
    BY <2>2 DEF Once
  <2> QED
    BY <2>1, <2>3
<1> HIDE DEF u
<1>2. /\ b \in Shape /\ SameWork(s, b) /\ SameEvent(s, b) /\ b.pending = s.pending
      /\ b.executing = TRUE /\ b.stop = "no"
  <2>1. b \in Shape
    BY DEF Shape
  <2> QED
    BY <2>1 DEF Shape, SameWork, SameEvent
<1> HIDE DEF b
<1>3. Advances(b, t)
  BY <1>2, TryAdvances
<1> HIDE DEF t
<1>4. /\ t \in Shape /\ s.pending <= t.pending /\ t.pending <= MaxDebt /\ Len(t.fifo) <= Len(s.fifo)
      /\ t.direction = s.direction /\ t.exited = s.exited /\ t.executing = TRUE
      /\ SameEvent(s, t)
  BY <1>2, <1>3 DEF Advances, Spends, SameControl, SameEvent, SameWork
<1>5. SameStream(s, t)
  BY <1>2, <1>3, StreamIsWork DEF Advances
<1>6. CASE t.stop = "exit"
  <2>1. u = t
    BY <1>1, <1>6
  <2>2. Runs(s, t)
    BY <1>4, <1>5 DEF Runs
  <2>3. Executed(s, t)
    BY <1>4, <1>6, <2>2 DEF Executed
  <2>4. Executed(s, u)
    BY <2>1, <2>3
  <2> QED
    BY <2>4 DEF u
<1>7. CASE t.stop # "exit"
  <2>1. s.executing \in BOOLEAN /\ s.active \in BOOLEAN /\ s.pending \in Int
    BY DEF Shape
  <2>2. /\ e \in Shape /\ SameWork(t, e) /\ SameEvent(t, e) /\ e.pending = t.pending
        /\ e.executing = s.executing /\ e.stop = t.stop
    BY <1>4, <2>1 DEF Shape, SameWork, SameEvent
  <2> HIDE DEF e
  <2>3. /\ f \in Shape /\ SameWork(e, f) /\ SameEvent(e, f)
        /\ f.pending = e.pending /\ f.executing = e.executing /\ f.stop = e.stop
        /\ f.request = Request(f) /\ f.idle = IsIdle(f)
    BY <2>2, FlagsUpdated
  <2> HIDE DEF f
  <2>4. SameStream(s, f) /\ SameEvent(s, f)
    <3>1. SameStream(s, e)
      BY <1>5, <2>2, WorkIsStream
    <3>2. SameStream(s, f)
      BY <2>3, <3>1, WorkIsStream
    <3> QED
      BY <1>4, <2>2, <2>3, <3>2 DEF SameEvent
  <2>5. /\ f.pending <= MaxDebt /\ Len(f.fifo) <= Len(s.fifo) /\ s.pending <= f.pending
        /\ f.direction = s.direction /\ f.exited = s.exited /\ f.stop # "exit"
        /\ f.executing = s.executing
    BY <1>4, <1>7, <2>2, <2>3 DEF SameWork
  <2>6. CASE s.executing
    <3>1. Runs(s, f)
      BY <2>3, <2>4, <2>5 DEF Runs
    <3>2. u = f
      BY <1>1, <1>7, <2>6
    <3> QED
      BY <2>3, <2>4, <2>5, <2>6, <3>1, <3>2 DEF Executed, Flagged, u
  <2>7. CASE ~s.executing
    <3> DEFINE v == UpdateCommandTickEvent(f)
    <3>1. /\ v \in Shape /\ Rescheduled(f, v) /\ SameWork(f, v)
          /\ v.request = f.request /\ v.idle = f.idle /\ v.executing = f.executing
          /\ v.stop = f.stop
      BY <2>3, EventUpdated
    <3>2. u = v
      BY <1>1, <1>7, <2>7
    <3> HIDE DEF v
    <3>3. v.pending <= 0 <=> f.pending <= 0
      BY <3>1 DEF Rescheduled
    <3>4. Flagged(v)
      <4>1. Request(v) = Request(f) /\ IsIdle(v) = IsIdle(f)
        BY <2>3, <3>1, <3>3, FlagsOf
      <4> QED
        BY <2>3, <3>1, <4>1 DEF Flagged
    <3>5. v.pending <= MaxDebt /\ v.pending \in Int
      <4>1. MaxDebt \in Nat /\ f.pending \in Int
        BY <2>3, TickAssumption DEF MaxDebt, Shape
      <4> QED
        BY <2>5, <3>1, <4>1 DEF Rescheduled
    <3>6. Runs(s, v)
      <4>1. SameStream(s, v)
        BY <2>4, <3>1, WorkIsStream
      <4> QED
        BY <2>5, <3>1, <3>5, <4>1 DEF Runs, SameWork
    <3>7. InTime(v) /\ v.since = (IF v.pending > 0 /\ s.active THEN s.since ELSE 0)
      BY <2>4, <3>1 DEF Rescheduled, SameEvent
    <3> QED
      BY <2>5, <2>7, <3>1, <3>2, <3>4, <3>6, <3>7 DEF Executed, u
  <2> QED
    BY <2>1, <2>6, <2>7
<1> QED
  BY <1>6, <1>7


-----------------------------------------------------------------------------
(* The event.                                                              *)

(* gpu_command_tick_event, ticks after it last ran.                        *)
Ticked(s, ticks, t) ==
  /\ Runs(s, t)
  /\ t.stop = "exit" => t.executing /\ SameEvent(s, t) /\ s.pending - 2 * ticks <= t.pending
  /\ t.stop # "exit" =>
       /\ ~t.executing /\ Flagged(t) /\ InTime(t)
       /\ t.since = (IF t.pending > 0 /\ s.active THEN s.since ELSE 0)

(* gpu_command_tick_event: what it paid for has run, and the event is put  *)
(* for the rest of the debt.                                               *)
LEMMA EventRuns ==
  ASSUME NEW s \in Shape, s.pending <= MaxDebt, NEW ticks \in Nat, NEW exits
  PROVE  Ticked(s, ticks, CommandTickEvent(s, ticks, exits))
<1> DEFINE p == s.pending - 2 * ticks
           r == [s EXCEPT !.pending = p, !.executing = TRUE]
           t == ExecuteCommands(r, exits)
           v == UpdateCommandTickEvent(t)
           w == [v EXCEPT !.executing = FALSE]
           u == CommandTickEvent(s, ticks, exits)
<1>1. u = IF t.stop = "exit" THEN t ELSE w
  <2> DEFINE After(x) ==
        IF x.stop = "exit" THEN x ELSE [UpdateCommandTickEvent(x) EXCEPT !.executing = FALSE]
             q == [s EXCEPT !.pending = @ - 2 * ticks, !.executing = TRUE]
  <2>1. q = r
    OBVIOUS
  <2>2. u = Once(ExecuteCommands(q, exits), After)
    BY DEF CommandTickEvent
  <2>3. {After(x) : x \in {t}} = {After(t)}
    OBVIOUS
  <2>4. Once(t, After) = After(t)
    BY <2>3 DEF Once
  <2> QED
    BY <2>1, <2>2, <2>4
<1>2. s.pending \in Int /\ MaxDebt \in Int /\ p \in Int /\ p <= MaxDebt
  BY TickAssumption DEF Shape, MaxDebt
<1> HIDE DEF p, u
<1>3. /\ r \in Shape /\ SameWork(s, r) /\ SameEvent(s, r) /\ r.pending = p /\ r.executing = TRUE
  <2>1. r \in Shape
    BY <1>2 DEF Shape
  <2> QED
    BY <2>1 DEF Shape, SameWork, SameEvent
<1> HIDE DEF r
<1>4. Executed(r, t)
  BY <1>2, <1>3, ExecuteRuns
<1> HIDE DEF t
<1>5. /\ t \in Shape /\ t.pending <= MaxDebt /\ Len(t.fifo) <= Len(s.fifo) /\ p <= t.pending
      /\ t.direction = s.direction /\ t.exited = s.exited /\ t.executing = TRUE
      /\ SameEvent(s, t) /\ (t.stop # "exit" => Flagged(t))
  <2>1. /\ t \in Shape /\ t.pending <= MaxDebt /\ Len(t.fifo) <= Len(r.fifo)
        /\ t.direction = r.direction /\ t.exited = r.exited
    BY <1>4 DEF Executed, Runs
  <2>2. /\ SameEvent(r, t) /\ r.pending <= t.pending /\ t.executing = TRUE
        /\ (t.stop # "exit" => Flagged(t))
    BY <1>3, <1>4 DEF Executed, Shape
  <2> QED
    BY <1>3, <2>1, <2>2 DEF SameWork, SameEvent
<1>6. SameStream(s, t)
  <2>1. SameStream(r, t)
    BY <1>4 DEF Executed, Runs
  <2> QED
    BY <1>3, <2>1, StreamIsWork
<1>7. CASE t.stop = "exit"
  <2>1. u = t
    BY <1>1, <1>7
  <2>2. Runs(s, t)
    BY <1>5, <1>6 DEF Runs
  <2>3. Ticked(s, ticks, t)
    BY <1>5, <1>7, <2>2 DEF Ticked, p
  <2>4. Ticked(s, ticks, u)
    BY <2>1, <2>3
  <2> QED
    BY <2>4 DEF u
<1>8. CASE t.stop # "exit"
  <2>1. /\ v \in Shape /\ Rescheduled(t, v) /\ SameWork(t, v)
        /\ v.request = t.request /\ v.idle = t.idle /\ v.stop = t.stop
    BY <1>5, EventUpdated
  <2> HIDE DEF v
  <2>2. /\ w \in Shape /\ SameWork(v, w) /\ SameEvent(v, w) /\ w.pending = v.pending
        /\ w.request = v.request /\ w.idle = v.idle /\ w.stop = v.stop /\ w.executing = FALSE
    <3>1. w \in Shape
      BY <2>1 DEF Shape
    <3> QED
      BY <2>1, <3>1 DEF Shape, SameWork, SameEvent
  <2> HIDE DEF w
  <2>3. SameWork(t, w)
    BY <2>1, <2>2 DEF SameWork
  <2>4. w.pending <= MaxDebt /\ (w.pending <= 0 <=> t.pending <= 0)
    <3>1. MaxDebt \in Nat /\ t.pending \in Int
      BY <1>5, TickAssumption DEF MaxDebt, Shape
    <3> QED
      BY <1>5, <2>1, <2>2, <3>1 DEF Rescheduled
  <2>5. Flagged(w)
    <3>1. Request(w) = Request(t) /\ IsIdle(w) = IsIdle(t)
      BY <1>5, <2>3, <2>4, FlagsOf
    <3> QED
      BY <1>5, <1>8, <2>1, <2>2, <3>1 DEF Flagged
  <2>6. Runs(s, w)
    <3>1. SameStream(s, w)
      BY <1>6, <2>3, WorkIsStream
    <3> QED
      BY <1>5, <2>2, <2>3, <2>4, <3>1 DEF Runs, SameWork
  <2>7. InTime(w) /\ w.since = (IF w.pending > 0 /\ s.active THEN s.since ELSE 0)
    <3>1. InTime(v) /\ v.since = (IF v.pending > 0 /\ s.active THEN s.since ELSE 0)
      BY <1>5, <2>1 DEF Rescheduled, SameEvent
    <3> QED
      BY <2>2, <3>1 DEF InTime, SameEvent
  <2>8. ~w.executing /\ w.stop # "exit" /\ u = w
    BY <1>1, <1>8, <2>1, <2>2
  <2>9. Ticked(s, ticks, u)
    BY <2>5, <2>6, <2>7, <2>8 DEF Ticked
  <2> QED
    BY <2>9 DEF u
<1> QED
  BY <1>7, <1>8

-----------------------------------------------------------------------------
(* What an operation begins with and leaves.                               *)

(* The debt is bounded, the FIFO fits, and the event is where it should be.*)
Paid(s) ==
  /\ s \in Shape /\ -2 * Enough <= s.pending /\ s.pending <= MaxDebt /\ Len(s.fifo) <= MaxFifo
  /\ ~s.executing => (s.active <=> s.pending > 0)
  /\ s.active /\ ~s.executing /\ s.since < Enough => 2 * (s.since + s.left) >= s.pending
  /\ s.active => s.left >= -MaxLate /\ (s.since < Enough => s.since + s.left >= 0)

Afoot(s) == Paid(s) /\ (s.executing => s.exited)
Settled(s) == Afoot(s) /\ (~s.executing => Flagged(s))
Done(t) == /\ Paid(t) /\ (t.executing => t.exited \/ t.stop = "exit")
           /\ ~t.executing => Flagged(t)

(* The states of the module are those in which nothing is under way.       *)
LEMMA StateIs ==
  ASSUME NEW s
  PROVE  s \in GpuState <=> /\ s \in Shape /\ s.stop = "no"
                            /\ -2 * Enough <= s.pending /\ s.pending <= MaxDebt
<1>1. MaxDebt = MaxRunAhead + DrawTicks /\ MaxDebt \in Nat /\ Enough \in Nat
  BY TickAssumption DEF MaxDebt, Enough
<1>2. ASSUME s \in GpuState
      PROVE  /\ s \in Shape /\ s.stop = "no"
             /\ -2 * Enough <= s.pending /\ s.pending <= MaxDebt
  BY <1>1, <1>2 DEF GpuState, Shape
<1>3. ASSUME s \in Shape, s.stop = "no", -2 * Enough <= s.pending, s.pending <= MaxDebt
      PROVE  s \in GpuState
  <2>1. s.pending \in (-2 * Enough)..(MaxRunAhead + DrawTicks)
    BY <1>1, <1>3 DEF Shape
  <2> QED
    BY <1>3, <2>1 DEF GpuState, Shape
<1> QED
  BY <1>2, <1>3

(* IndInv in these words.                                                  *)
LEMMA IndIs ==
  IndInv <=> Settled(g) /\ g.stop = "no" /\ kit \in Kits /\ derailed \in BOOLEAN
<1>1. ASSUME IndInv
      PROVE  Settled(g) /\ g.stop = "no" /\ kit \in Kits /\ derailed \in BOOLEAN
  <2>1. /\ g \in Shape /\ g.stop = "no" /\ -2 * Enough <= g.pending /\ g.pending <= MaxDebt
        /\ Len(g.fifo) <= MaxFifo /\ kit \in Kits /\ derailed \in BOOLEAN
    BY <1>1, StateIs DEF IndInv, TypeOK
  <2>2. ~g.executing => g.request = Request(g) /\ g.idle = IsIdle(g)
                        /\ g.active = (g.pending > 0)
    BY <1>1 DEF IndInv, FlagsFollowState
  <2>3. ~g.executing => (g.active <=> g.pending > 0)
    BY <2>2
  <2> QED
    BY <1>1, <2>1, <2>2, <2>3 DEF IndInv, EventPaysAll, OnlyExitsStick, EventInReach,
                                  Settled, Afoot, Paid, Flagged
<1>2. ASSUME Settled(g), g.stop = "no", kit \in Kits, derailed \in BOOLEAN
      PROVE  IndInv
  <2>1. TypeOK
    BY <1>2, StateIs DEF TypeOK, Settled, Afoot, Paid
  <2>2. g.active \in BOOLEAN /\ (g.pending > 0) \in BOOLEAN
    BY <1>2 DEF Settled, Afoot, Paid, Shape
  <2>3. ~g.executing => (g.active <=> g.pending > 0)
    BY <1>2 DEF Settled, Afoot, Paid
  <2>4. ~g.executing => g.active = (g.pending > 0)
    <3>1. CASE g.active
      BY <2>2, <2>3, <3>1, Zenon
    <3>2. CASE ~g.active
      BY <2>2, <2>3, <3>2, Zenon
    <3> QED
      BY <3>1, <3>2, Zenon
  <2>5. FlagsFollowState
    BY <1>2, <2>4 DEF FlagsFollowState, Settled, Flagged
  <2> QED
    BY <1>2, <2>1, <2>5 DEF IndInv, EventPaysAll, OnlyExitsStick, EventInReach,
                            Settled, Afoot, Paid
<1> QED
  BY <1>1, <1>2

(* Any state that is left settled is one of IndInv.                        *)
LEMMA SettledIsInd ==
  ASSUME Settled(g'), g'.stop = "no", kit' \in Kits, derailed' \in BOOLEAN
  PROVE  IndInv'
<1>1. TypeOK'
  BY StateIs DEF TypeOK, Settled, Afoot, Paid
<1>2. g'.active \in BOOLEAN /\ (g'.pending > 0) \in BOOLEAN
  BY DEF Settled, Afoot, Paid, Shape
<1>3. ~g'.executing => (g'.active <=> g'.pending > 0)
  BY DEF Settled, Afoot, Paid
<1>4. ~g'.executing => g'.active = (g'.pending > 0)
  BY <1>2, <1>3, Zenon
<1>5. FlagsFollowState'
  BY <1>4 DEF FlagsFollowState, Settled, Flagged
<1> QED
  BY <1>1, <1>5 DEF IndInv, EventPaysAll, OnlyExitsStick, EventInReach, Settled, Afoot, Paid

(* What is left behind is settled.                                         *)
LEMMA LeftSettled ==
  ASSUME NEW t, Done(t), NEW exits, exits <=> t.stop = "exit"
  PROVE  Settled([t EXCEPT !.stop = "no", !.exited = @ \/ exits])
<1> DEFINE b == t.exited \/ exits
           c == [t EXCEPT !.stop = "no", !.exited = b]
<1>1. c = [t EXCEPT !.stop = "no", !.exited = @ \/ exits]
  OBVIOUS
<1>2. b \in BOOLEAN /\ (b <=> t.exited \/ t.stop = "exit")
  BY DEF Done, Paid, Shape
<1> HIDE DEF b
<1>3. t \in Shape
  BY DEF Done, Paid
<1>4. c \in Shape
  BY <1>2, <1>3 DEF Shape
<1>5. /\ c.pending = t.pending /\ c.fifo = t.fifo /\ c.executing = t.executing
      /\ c.active = t.active /\ c.since = t.since /\ c.left = t.left /\ c.exited = b
      /\ c.blitter = t.blitter /\ c.total = t.total /\ c.direction = t.direction
      /\ c.request = t.request /\ c.idle = t.idle
  BY <1>3 DEF Shape
<1> HIDE DEF c
<1>6. Paid(c)
  BY <1>4, <1>5 DEF Done, Paid
<1>7. Flagged(t) => Flagged(c)
  <2>1. ReadyForDma(c) = ReadyForDma(t)
    BY <1>5 DEF ReadyForDma
  <2>2. Request(c) = Request(t)
    BY <1>5, <2>1 DEF Request
  <2>3. IsIdle(c) = IsIdle(t)
    BY <1>5 DEF IsIdle
  <2> QED
    BY <1>5, <2>2, <2>3 DEF Flagged
<1>8. c.executing => c.exited
  BY <1>2, <1>5 DEF Done
<1> QED
  BY <1>1, <1>5, <1>6, <1>7, <1>8 DEF Settled, Afoot, Done

(* An operation leaves what it has done.                                   *)
LEMMA BecomesInd ==
  ASSUME NEW t, NEW exits, Done(t), Becomes(t, exits), kit' \in Kits, derailed \in BOOLEAN
  PROVE  IndInv'
<1>1. /\ exits = (t.stop = "exit")
      /\ g' = [t EXCEPT !.stop = "no", !.exited = @ \/ exits]
      /\ derailed' = (derailed \/ t.cropped)
  BY DEF Becomes
<1>2. Settled(g')
  BY <1>1, LeftSettled
<1>3. g'.stop = "no"
  BY <1>1 DEF Done, Paid, Shape
<1>4. derailed' \in BOOLEAN
  BY <1>1
<1> QED
  BY <1>2, <1>3, <1>4, SettledIsInd

(* An event put for the debt is in reach.                                  *)
LEMMA TimelyIs ==
  ASSUME NEW t \in Shape, InTime(t)
  PROVE  /\ (t.active <=> t.pending > 0) /\ 2 * (t.since + t.left) >= t.pending
         /\ t.left >= -MaxLate /\ t.since + t.left >= 0 /\ -2 * Enough <= t.pending
<1>1. Enough \in Nat /\ MaxLate \in Nat
  BY TickAssumption DEF Enough
<1>2. t.pending \in Int /\ t.since \in Nat /\ t.left \in Int
  BY <1>1 DEF Shape
<1>3. (t.active <=> t.pending > 0) /\ t.pending >= 0 /\ t.left >= 0 /\ 2 * t.left >= t.pending
  BY <1>2 DEF InTime
<1> QED
  BY <1>1, <1>2, <1>3

(* gpu_execute_commands leaves a settled state, or is left by the host, at *)
(* most once.                                                              *)
LEMMA ExecuteSettles ==
  ASSUME NEW s, Afoot(s), NEW t, Executed(s, t), t.stop = "exit" => ~s.exited
  PROVE  Done(t)
<1>1. /\ s \in Shape /\ -2 * Enough <= s.pending /\ s.pending <= MaxDebt
      /\ Len(s.fifo) <= MaxFifo /\ (s.executing => s.exited)
  BY DEF Afoot, Paid
<1>2. /\ t \in Shape /\ t.pending <= MaxDebt /\ Len(t.fifo) <= Len(s.fifo)
      /\ t.exited = s.exited
  BY DEF Executed, Runs
<1>3. Enough \in Nat /\ MaxLate \in Nat /\ MaxDebt \in Nat /\ MaxFifo \in Nat
  BY TickAssumption, FifoAssumption DEF Enough, MaxDebt
<1>4. Len(t.fifo) <= MaxFifo
  <2>1. s.fifo \in Seq(Word) /\ t.fifo \in Seq(Word)
    BY <1>1, <1>2 DEF Shape
  <2>2. Len(s.fifo) \in Nat /\ Len(t.fifo) \in Nat
    BY <2>1, LenProperties
  <2> QED
    BY <1>1, <1>2, <1>3, <2>2
<1>5. /\ s.pending \in Int /\ t.pending \in Int /\ t.since \in 0..Enough /\ t.left \in Int
      /\ s.executing \in BOOLEAN /\ t.executing \in BOOLEAN /\ t.exited \in BOOLEAN
  BY <1>1, <1>2 DEF Shape
<1>6. CASE t.stop = "exit"
  <2>1. t.executing /\ SameEvent(s, t) /\ s.pending <= t.pending
    BY <1>6 DEF Executed
  <2>2. /\ t.active => t.left >= -MaxLate /\ (t.since < Enough => t.since + t.left >= 0)
        /\ -2 * Enough <= t.pending
    BY <1>1, <1>3, <1>5, <2>1 DEF SameEvent, Afoot, Paid
  <2> QED
    BY <1>2, <1>4, <1>6, <2>1, <2>2 DEF Done, Paid
<1>7. CASE t.stop # "exit" /\ s.executing
  <2>1. t.executing /\ SameEvent(s, t) /\ s.pending <= t.pending
    BY <1>7 DEF Executed
  <2>2. /\ t.active => t.left >= -MaxLate /\ (t.since < Enough => t.since + t.left >= 0)
        /\ -2 * Enough <= t.pending
    BY <1>1, <1>3, <1>5, <2>1 DEF SameEvent, Afoot, Paid
  <2> QED
    BY <1>1, <1>2, <1>4, <1>7, <2>1, <2>2 DEF Done, Paid
<1>8. CASE t.stop # "exit" /\ ~s.executing
  <2>1. t.executing = s.executing /\ Flagged(t) /\ InTime(t)
    BY <1>8 DEF Executed
  <2>2. /\ (t.active <=> t.pending > 0) /\ 2 * (t.since + t.left) >= t.pending
        /\ t.left >= -MaxLate /\ t.since + t.left >= 0 /\ -2 * Enough <= t.pending
    BY <1>3, <1>5, <2>1 DEF InTime
  <2> QED
    BY <1>2, <1>4, <1>8, <2>1, <2>2 DEF Done, Paid
<1> QED
  BY <1>5, <1>6, <1>7, <1>8

(* What an operation that begins with the event leaves to the rest of it.  *)
Begun(s, t) ==
  /\ t \in Shape /\ SameStream(s, t) /\ t.direction = s.direction /\ t.exited = s.exited
  /\ Len(t.fifo) <= Len(s.fifo)
  /\ (t.stop = "exit" => ~s.exited) => Done(t)
  /\ t.stop # "exit" => Settled(t)

(* gpu_command_tick_event, for no more than the ticks there can be.        *)
LEMMA TickSettles ==
  ASSUME NEW s, s \in Shape, s.pending <= MaxDebt, Len(s.fifo) <= MaxFifo,
         s.executing => s.exited, ~s.executing => s.pending > 0, s.left >= -MaxLate,
         s.since + s.left >= 0,
         NEW ticks \in 0..Enough, NEW t, Ticked(s, ticks, t)
  PROVE  Begun(s, t)
<1>1. /\ t \in Shape /\ t.pending <= MaxDebt /\ Len(t.fifo) <= Len(s.fifo)
      /\ t.exited = s.exited /\ t.direction = s.direction /\ SameStream(s, t)
  BY DEF Ticked, Runs
<1>2. Enough \in Nat /\ MaxLate \in Nat /\ MaxDebt \in Nat /\ MaxFifo \in Nat
  BY TickAssumption, FifoAssumption DEF Enough, MaxDebt
<1>3. Len(t.fifo) <= MaxFifo
  <2>1. s.fifo \in Seq(Word) /\ t.fifo \in Seq(Word)
    BY <1>1 DEF Shape
  <2>2. Len(s.fifo) \in Nat /\ Len(t.fifo) \in Nat
    BY <2>1, LenProperties
  <2> QED
    BY <1>1, <1>2, <2>2
<1>4. /\ s.pending \in Int /\ t.pending \in Int /\ t.since \in 0..Enough /\ t.left \in Int
      /\ s.executing \in BOOLEAN /\ t.executing \in BOOLEAN /\ t.exited \in BOOLEAN
  BY <1>1 DEF Shape
<1>5. CASE t.stop = "exit" /\ ~s.exited
  <2>1. t.executing /\ SameEvent(s, t) /\ s.pending - 2 * ticks <= t.pending
    BY <1>5 DEF Ticked
  <2>2. s.pending > 0
    BY <1>4, <1>5
  <2>3. -2 * Enough <= t.pending /\ t.left >= -MaxLate /\ t.since + t.left >= 0
    BY <1>2, <1>4, <2>1, <2>2 DEF SameEvent
  <2>4. Paid(t)
    BY <1>1, <1>3, <2>1, <2>3 DEF Paid
  <2> QED
    BY <1>1, <1>5, <2>1, <2>4 DEF Begun, Done
<1>6. CASE t.stop # "exit"
  <2>1. ~t.executing /\ Flagged(t) /\ InTime(t)
    BY <1>6 DEF Ticked
  <2>2. /\ (t.active <=> t.pending > 0) /\ 2 * (t.since + t.left) >= t.pending
        /\ t.left >= -MaxLate /\ t.since + t.left >= 0 /\ -2 * Enough <= t.pending
    BY <1>1, <2>1, TimelyIs
  <2>3. Paid(t)
    BY <1>1, <1>3, <2>1, <2>2 DEF Paid
  <2>4. Done(t) /\ Settled(t)
    BY <2>1, <2>3 DEF Done, Settled, Afoot
  <2> QED
    BY <1>1, <2>4 DEF Begun
<1>7. CASE t.stop = "exit" /\ s.exited
  BY <1>1, <1>7 DEF Begun
<1> QED
  BY <1>5, <1>6, <1>7

(* The operations that begin from the state as it is: the words and the    *)
(* stream are the same for a state that differs in its event alone.        *)
LEMMA BegunFrom ==
  ASSUME NEW s, NEW r, NEW t, SameWork(s, r), Begun(r, t)
  PROVE  Begun(s, t)
<1>1. SameStream(s, t)
  BY StreamIsWork DEF Begun
<1> QED
  BY <1>1 DEF Begun, SameWork

(* timing_event_invoke_early on the event.                                 *)
LEMMA InvokeSettles ==
  ASSUME NEW s, Settled(s), NEW exits
  PROVE  Begun(s, InvokeEarly(s, exits))
<1> DEFINE t == InvokeEarly(s, exits)
           r == [s EXCEPT !.since = 0, !.left = s.interval]
           n == [s EXCEPT !.stop = "no"]
<1>1. t = IF s.active /\ s.since > 0 THEN CommandTickEvent(r, s.since, exits) ELSE n
  BY DEF InvokeEarly
<1>3. /\ s \in Shape /\ -2 * Enough <= s.pending /\ s.pending <= MaxDebt
      /\ Len(s.fifo) <= MaxFifo /\ (s.executing => s.exited)
      /\ (~s.executing => (s.active <=> s.pending > 0))
  BY DEF Settled, Afoot, Paid
<1>4. Enough \in Nat /\ MaxLate \in Nat
  BY TickAssumption DEF Enough
<1> HIDE DEF t
<1>5. CASE s.active /\ s.since > 0
  <2>1. s.since \in Nat /\ s.since \in 0..Enough /\ s.interval \in Nat
    BY <1>3, <1>4 DEF Shape
  <2>2. /\ r \in Shape /\ SameWork(s, r) /\ r.pending = s.pending /\ r.executing = s.executing
        /\ r.since = 0 /\ r.left = s.interval
    <3> DEFINE z == 0
    <3>1. z \in 0..Enough /\ s.interval \in Int
      BY <1>4, <2>1
    <3> HIDE DEF z
    <3>2. [s EXCEPT !.since = z, !.left = s.interval] \in Shape
      BY <1>3, <3>1 DEF Shape
    <3>3. r \in Shape
      BY <3>2 DEF z
    <3> QED
      BY <1>3, <3>3 DEF Shape, SameWork
  <2> HIDE DEF r
  <2>3. t = CommandTickEvent(r, s.since, exits)
    BY <1>1, <1>5
  <2>4. Ticked(r, s.since, t)
    BY <1>3, <2>1, <2>2, <2>3, EventRuns
  <2>5. r.fifo = s.fifo /\ r.exited = s.exited
    BY <2>2 DEF SameWork
  <2>6. /\ r.pending <= MaxDebt /\ Len(r.fifo) <= MaxFifo /\ (r.executing => r.exited)
        /\ (~r.executing => r.pending > 0) /\ r.left >= -MaxLate /\ r.since + r.left >= 0
    BY <1>3, <1>4, <1>5, <2>1, <2>2, <2>5
  <2>8. Begun(r, t)
    BY <2>1, <2>2, <2>4, <2>6, TickSettles
  <2>9. Begun(s, t)
    BY <2>2, <2>8, BegunFrom
  <2> QED
    BY <2>9 DEF t
<1>6. CASE ~(s.active /\ s.since > 0)
  <2>1. t = n
    BY <1>1, <1>6
  <2>2. /\ n \in Shape /\ SameWork(s, n) /\ SameEvent(s, n) /\ n.pending = s.pending
        /\ n.executing = s.executing /\ n.request = s.request /\ n.idle = s.idle
        /\ n.stop = "no"
    BY <1>3 DEF Shape, SameWork, SameEvent
  <2> HIDE DEF n
  <2>3. SameStream(s, n)
    <3>1. SameStream(s, s)
      BY <1>3, PositionIs DEF SameStream
    <3> QED
      BY <2>2, <3>1, WorkIsStream
  <2>4. Paid(n)
    BY <1>3, <2>2 DEF Settled, Afoot, Paid, SameWork, SameEvent
  <2>5. Flagged(s) => Flagged(n)
    <3>1. Request(n) = Request(s) /\ IsIdle(n) = IsIdle(s)
      BY <1>3, <2>2, FlagsOf
    <3> QED
      BY <2>2, <3>1 DEF Flagged
  <2>6. n.exited = s.exited /\ n.direction = s.direction /\ n.fifo = s.fifo
    BY <2>2 DEF SameWork
  <2>7. Settled(n) /\ Done(n)
    BY <1>3, <2>2, <2>4, <2>5, <2>6 DEF Settled, Afoot, Done
  <2>8. Len(n.fifo) <= Len(s.fifo)
    <3>1. s.fifo \in Seq(Word)
      BY <1>3 DEF Shape
    <3>2. Len(s.fifo) \in Nat
      BY <3>1, LenProperties
    <3> QED
      BY <2>6, <3>2
  <2>9. Begun(s, n)
    BY <2>2, <2>3, <2>6, <2>7, <2>8 DEF Begun
  <2>10. Begun(s, t)
    BY <2>1, <2>9
  <2> QED
    BY <2>10 DEF t
<1> QED
  BY <1>5, <1>6

-----------------------------------------------------------------------------
(* The operations that bring words.                                        *)

(* A FIFO with the words that fit pushed.                                  *)
LEMMA PushIs ==
  ASSUME NEW s \in Shape, Len(s.fifo) <= MaxFifo, NEW words \in Seq(Word),
         NEW t, t = Push(s, words)
  PROVE  /\ t \in Shape /\ Len(t.fifo) <= MaxFifo
         /\ SameEvent(s, t) /\ t.pending = s.pending /\ t.executing = s.executing
         /\ t.exited = s.exited /\ t.stop = s.stop
         /\ Position(t) = Position(s)
         /\ ~t.cropped => ~s.cropped /\ t.fifo = s.fifo \o words /\ (Clean(s) => Clean(t))
<1> DEFINE n == Least(Len(words), MaxFifo - Len(s.fifo))
           taken == SubSeq(words, 1, n)
           all == s.fifo \o taken
           c == s.cropped \/ n < Len(words)
<1>1. MaxFifo \in Nat /\ s.fifo \in Seq(Word) /\ Len(s.fifo) \in Nat /\ Len(words) \in Nat
  BY FifoAssumption, LenProperties DEF Shape
<1>2. n \in 0..Len(words) /\ Len(s.fifo) + n <= MaxFifo
  <2>1. MaxFifo - Len(s.fifo) \in Nat
    BY <1>1
  <2>2. n = IF Len(words) < MaxFifo - Len(s.fifo) THEN Len(words) ELSE MaxFifo - Len(s.fifo)
    BY DEF Least
  <2> QED
    BY <1>1, <2>1, <2>2
<1>3. t = [s EXCEPT !.fifo = all, !.cropped = c]
  BY DEF Push
<1> HIDE DEF n
<1>4. taken \in Seq(Word) /\ Len(taken) = n /\ (n = Len(words) => taken = words)
  <2>1. \A i \in 1..n : words[i] \in Word
    BY <1>1, <1>2, ElementOfSeq
  <2>2. taken \in Seq(Word) /\ Len(taken) = (IF 1 <= n THEN (n - 1) + 1 ELSE 0)
    BY <1>2, <2>1, SubSeqProperties
  <2>3. n = Len(words) => taken = words
    BY SubSeqFull
  <2> QED
    BY <1>2, <2>2, <2>3
<1> HIDE DEF taken
<1>5. all \in Seq(Word) /\ Len(all) = Len(s.fifo) + n
  BY <1>1, <1>4, ConcatProperties
<1>6. c \in BOOLEAN /\ (c <=> s.cropped \/ n < Len(words))
  BY DEF Shape
<1>7. ~c => ~s.cropped /\ all = s.fifo \o words
  BY <1>1, <1>2, <1>4, <1>6
<1> HIDE DEF c, all
<1>8. t \in Shape
  BY <1>3, <1>5, <1>6 DEF Shape
<1>9. /\ SameEvent(s, t) /\ t.pending = s.pending /\ t.executing = s.executing
      /\ t.exited = s.exited /\ t.stop = s.stop /\ t.fifo = all /\ t.cropped = c
      /\ t.blitter = s.blitter /\ t.polyline = s.polyline /\ t.remaining = s.remaining
      /\ t.shaded = s.shaded
  BY <1>3 DEF Shape, SameEvent
<1>10. Position(t) = Position(s)
  BY <1>9 DEF Position
<1>11. ~t.cropped => (Clean(s) => Clean(t))
  BY <1>9 DEF Clean
<1> QED
  BY <1>2, <1>5, <1>7, <1>8, <1>9, <1>10, <1>11

(* A debt and an event that stay are as good as before.                    *)
LEMMA PaidLike ==
  ASSUME NEW s, NEW t, Paid(s), t \in Shape, SameEvent(s, t), t.pending = s.pending,
         t.executing = s.executing, Len(t.fifo) <= MaxFifo
  PROVE  Paid(t)
BY DEF Paid, SameEvent

(* s with words sent to it has become t.                                   *)
Sends(s, words, t) ==
  Clean(s) /\ ~t.cropped =>
    /\ Clean(t) /\ Position(s) \in ParserState
    /\ ParseAll(Position(t), t.fifo) = ParseAll(ParseAll(Position(s), s.fifo), words)

(* Words are pushed and the commands run.                                  *)
LEMMA PushedRun ==
  ASSUME NEW s, Settled(s), NEW words \in Seq(Word), NEW exits,
         NEW t, t = ExecuteCommands(Push(s, words), exits), t.stop = "exit" => ~s.exited
  PROVE  Done(t) /\ Sends(s, words, t) /\ (s.cropped => t.cropped)
<1> DEFINE p == Push(s, words)
<1>1. s \in Shape /\ Len(s.fifo) <= MaxFifo /\ Paid(s) /\ (s.executing => s.exited)
  BY DEF Settled, Afoot, Paid
<1>2. /\ p \in Shape /\ Len(p.fifo) <= MaxFifo
      /\ SameEvent(s, p) /\ p.pending = s.pending /\ p.executing = s.executing
      /\ p.exited = s.exited /\ p.stop = s.stop
      /\ Position(p) = Position(s)
      /\ ~p.cropped => ~s.cropped /\ p.fifo = s.fifo \o words /\ (Clean(s) => Clean(p))
  BY <1>1, PushIs
<1> HIDE DEF p
<1>3. Paid(p)
  BY <1>1, <1>2, PaidLike
<1>4. Afoot(p) /\ p.pending <= MaxDebt
  BY <1>1, <1>2, <1>3 DEF Afoot, Paid
<1>5. Executed(p, t)
  BY <1>2, <1>4, ExecuteRuns DEF p
<1>6. Done(t)
  BY <1>2, <1>4, <1>5, ExecuteSettles
<1>7. SameStream(p, t)
  BY <1>5 DEF Executed, Runs
<1>8. ASSUME Clean(s), ~t.cropped
      PROVE  /\ Clean(t) /\ Position(s) \in ParserState
             /\ ParseAll(Position(t), t.fifo) = ParseAll(ParseAll(Position(s), s.fifo), words)
  <2>1. ~p.cropped
    BY <1>7, <1>8 DEF SameStream
  <2>2. Clean(p) /\ p.fifo = s.fifo \o words
    BY <1>2, <1>8, <2>1
  <2>3. Clean(t) /\ ParseAll(Position(t), t.fifo) = ParseAll(Position(p), p.fifo)
    BY <1>7, <1>8, <2>2 DEF SameStream
  <2>4. Position(s) \in ParserState /\ s.fifo \in Seq(Word)
    BY <1>1, PositionIs DEF Shape
  <2>5. ParseAll(Position(s), s.fifo \o words) = ParseAll(ParseAll(Position(s), s.fifo), words)
    BY <2>4, ParseAppended
  <2> QED
    BY <1>2, <2>2, <2>3, <2>4, <2>5
<1>9. s.cropped => t.cropped
  BY <1>2, <1>7 DEF SameStream
<1> QED
  BY <1>6, <1>8, <1>9 DEF Sends

(* Words sent after a stream that stays are words sent to it.              *)
LEMMA SentAfter ==
  ASSUME NEW s, NEW r, NEW t, NEW words, SameStream(s, r), Sends(r, words, t),
         r.cropped => t.cropped
  PROVE  Sends(s, words, t)
BY DEF SameStream, Sends

(* What an operation that sends words comes to.                            *)
Acts(words, exits) ==
  \E t : Done(t) /\ Becomes(t, exits) /\ Sends(g, words, t)


(* The host leaves once.                                                   *)
LEMMA LeavesOnce ==
  ASSUME NEW t, NEW exits, Becomes(t, exits)
  PROVE  /\ t.stop = "exit" => ~g.exited
         /\ exits <=> t.stop = "exit"
BY DEF Becomes

(* gpu_write_register, GP0: a word is sent or, the FIFO full or the event  *)
(* left before it is, lost.                                                *)
LEMMA WriteGp0Acts ==
  ASSUME Settled(g), NEW w \in Word, NEW exits, WriteGp0(w, exits)
  PROVE  Acts(<<w>>, exits)
<1> DEFINE s == IF Len(g.fifo) >= FifoSize THEN InvokeEarly(g, exits) ELSE g
           lost == [s EXCEPT !.cropped = TRUE]
           t == ExecuteCommands(Push(s, <<w>>), exits)
<1>1. IF s.stop = "exit" \/ Len(s.fifo) >= MaxFifo THEN Becomes(lost, exits)
      ELSE Becomes(t, exits)
  <2> DEFINE Goes(x) ==
        IF x.stop = "exit" \/ Len(x.fifo) >= MaxFifo
        THEN Becomes([x EXCEPT !.cropped = TRUE], exits)
        ELSE Becomes(ExecuteCommands(Push(x, <<w>>), exits), exits)
  <2>1. \E x \in {s} : Goes(x)
    BY DEF WriteGp0
  <2> HIDE DEF Goes, s
  <2>2. Goes(s)
    BY <2>1
  <2> QED
    BY <2>2 DEF Goes
<1>2. /\ s \in Shape /\ SameStream(g, s) /\ s.exited = g.exited
      /\ (s.stop = "exit" => ~g.exited) => Done(s)
      /\ s.stop # "exit" => Settled(s)
  <2>1. CASE Len(g.fifo) >= FifoSize
    BY <2>1, InvokeSettles DEF Begun
  <2>2. CASE ~(Len(g.fifo) >= FifoSize)
    <3>1. s = g
      BY <2>2
    <3>2. g \in Shape
      BY DEF Settled, Afoot, Paid
    <3>3. SameStream(g, g)
      BY <3>2, PositionIs DEF SameStream
    <3>4. Done(g)
      BY DEF Settled, Afoot, Done
    <3> HIDE DEF s
    <3> QED
      BY <3>1, <3>2, <3>3, <3>4
  <2> QED
    BY <2>1, <2>2
<1> HIDE DEF s
<1>3. CASE s.stop = "exit" \/ Len(s.fifo) >= MaxFifo
  <2>1. /\ lost \in Shape /\ lost.cropped = TRUE /\ SameEvent(s, lost)
        /\ lost.pending = s.pending /\ lost.executing = s.executing /\ lost.fifo = s.fifo
        /\ lost.stop = s.stop /\ lost.exited = s.exited /\ lost.blitter = s.blitter
        /\ lost.total = s.total /\ lost.direction = s.direction /\ lost.request = s.request
        /\ lost.idle = s.idle
    BY <1>2 DEF Shape, SameEvent
  <2>2. Becomes(lost, exits)
    BY <1>1, <1>3
  <2> HIDE DEF lost
  <2>3. Done(s)
    BY <1>2, <2>1, <2>2, LeavesOnce
  <2>4. Paid(lost)
    <3>1. Paid(s) /\ Len(s.fifo) <= MaxFifo
      BY <2>3 DEF Done, Paid
    <3> QED
      BY <2>1, <3>1, PaidLike
  <2>5. Flagged(s) => Flagged(lost)
    <3>1. ReadyForDma(lost) = ReadyForDma(s)
      BY <2>1 DEF ReadyForDma
    <3>2. Request(lost) = Request(s)
      BY <2>1, <3>1 DEF Request
    <3>3. IsIdle(lost) = IsIdle(s)
      BY <2>1 DEF IsIdle
    <3> QED
      BY <2>1, <3>2, <3>3 DEF Flagged
  <2>6. Done(lost)
    BY <2>1, <2>3, <2>4, <2>5 DEF Done
  <2>7. Sends(g, <<w>>, lost)
    BY <2>1 DEF Sends
  <2> QED
    BY <2>2, <2>6, <2>7 DEF Acts
<1>4. CASE ~(s.stop = "exit" \/ Len(s.fifo) >= MaxFifo)
  <2>1. Becomes(t, exits)
    BY <1>1, <1>4
  <2>2. t.stop = "exit" => ~s.exited
    BY <1>2, <2>1, LeavesOnce
  <2>3. <<w>> \in Seq(Word)
    OBVIOUS
  <2>4. Done(t) /\ Sends(s, <<w>>, t) /\ (s.cropped => t.cropped)
    BY <1>2, <1>4, <2>2, <2>3, PushedRun
  <2>5. Sends(g, <<w>>, t)
    BY <1>2, <2>4, SentAfter
  <2> QED
    BY <2>1, <2>4, <2>5 DEF Acts
<1> QED
  BY <1>3, <1>4

(* gpu_dma_write of a block and gpu_end_dma_write.                         *)
LEMMA DmaWriteActs ==
  ASSUME Settled(g), NEW block \in Seq(Word), NEW exits, DmaWrite(block, exits)
  PROVE  Acts(block, exits)
<1> DEFINE t == ExecuteCommands(Push(g, block), exits)
<1>1. Becomes(t, exits)
  BY DEF DmaWrite
<1>2. t.stop = "exit" => ~g.exited
  BY <1>1, LeavesOnce
<1>3. Done(t) /\ Sends(g, block, t)
  BY <1>2, PushedRun
<1> HIDE DEF t
<1> QED
  BY <1>1, <1>3 DEF Acts

(* It leaves a state of IndInv.                                            *)
LEMMA ActsInd ==
  ASSUME IndInv, NEW words, NEW exits, Acts(words, exits), UNCHANGED kit
  PROVE  IndInv'
<1>1. PICK t : Done(t) /\ Becomes(t, exits)
  BY DEF Acts
<1>2. kit' \in Kits /\ derailed \in BOOLEAN
  BY IndIs
<1> QED
  BY <1>1, <1>2, BecomesInd

(* What is left is at the same place in the stream.                        *)
LEMMA LeftInPlace ==
  ASSUME NEW t \in Shape, NEW exits, Becomes(t, exits)
  PROVE  /\ g'.fifo = t.fifo /\ Position(g') = Position(t) /\ (Clean(g') <=> Clean(t))
         /\ ~derailed' => ~derailed /\ ~t.cropped
<1>1. g' = [t EXCEPT !.stop = "no", !.exited = @ \/ exits] /\ derailed' = (derailed \/ t.cropped)
  BY DEF Becomes
<1>2. /\ g'.fifo = t.fifo /\ g'.blitter = t.blitter /\ g'.remaining = t.remaining
      /\ g'.shaded = t.shaded /\ g'.polyline = t.polyline /\ g'.cropped = t.cropped
  BY <1>1 DEF Shape
<1>3. Position(g') = Position(t)
  BY <1>2 DEF Position
<1>4. Clean(g') <=> Clean(t)
  BY <1>2 DEF Clean
<1> QED
  BY <1>1, <1>2, <1>3, <1>4

(* The parser that follows the words stays where the GPU is.               *)
LEMMA ActsFramed ==
  ASSUME IndFramed, NEW words, NEW exits, Acts(words, exits), Follow(words)
  PROVE  IndFramed'
<1> SUFFICES ASSUME ~derailed'
             PROVE  Clean(g') /\ ParseAll(Position(g'), g'.fifo) = want'
  BY DEF IndFramed
<1>1. PICK t : Done(t) /\ Becomes(t, exits) /\ Sends(g, words, t)
  BY DEF Acts
<1>2. /\ g'.fifo = t.fifo /\ Position(g') = Position(t) /\ (Clean(g') <=> Clean(t))
      /\ ~derailed /\ ~t.cropped
  <2>1. t \in Shape
    BY <1>1 DEF Done, Paid
  <2> QED
    BY <1>1, <2>1, LeftInPlace
<1>3. Clean(g) /\ ParseAll(Position(g), g.fifo) = want
  BY <1>2 DEF IndFramed
<1>4. /\ Clean(t)
      /\ ParseAll(Position(t), t.fifo) = ParseAll(ParseAll(Position(g), g.fifo), words)
  BY <1>1, <1>2, <1>3 DEF Sends
<1>5. want' = ParseAll(want, words)
  BY <1>2 DEF Follow
<1> QED
  BY <1>2, <1>3, <1>4, <1>5

-----------------------------------------------------------------------------
(* The operations that bring no words.                                     *)

Keeps(exits) ==
  \E t : Done(t) /\ Becomes(t, exits) /\ SameStream(g, t)

(* They leave a state of IndInv.                                           *)
LEMMA KeepsInd ==
  ASSUME IndInv, NEW exits, Keeps(exits), UNCHANGED kit
  PROVE  IndInv'
<1>1. PICK t : Done(t) /\ Becomes(t, exits)
  BY DEF Keeps
<1>2. kit' \in Kits /\ derailed \in BOOLEAN
  BY IndIs
<1> QED
  BY <1>1, <1>2, BecomesInd

(* They stay where they are in the stream.                                 *)
LEMMA KeepsFramed ==
  ASSUME IndFramed, NEW exits, Keeps(exits), UNCHANGED want
  PROVE  IndFramed'
<1> SUFFICES ASSUME ~derailed'
             PROVE  Clean(g') /\ ParseAll(Position(g'), g'.fifo) = want'
  BY DEF IndFramed
<1>1. PICK t : Done(t) /\ Becomes(t, exits) /\ SameStream(g, t)
  BY DEF Keeps
<1>2. /\ g'.fifo = t.fifo /\ Position(g') = Position(t) /\ (Clean(g') <=> Clean(t))
      /\ ~derailed /\ ~t.cropped
  <2>1. t \in Shape
    BY <1>1 DEF Done, Paid
  <2> QED
    BY <1>1, <2>1, LeftInPlace
<1>3. Clean(g) /\ ParseAll(Position(g), g.fifo) = want
  BY <1>2 DEF IndFramed
<1>4. Clean(t) /\ ParseAll(Position(t), t.fifo) = ParseAll(Position(g), g.fifo)
  BY <1>1, <1>2, <1>3 DEF SameStream
<1> QED
  BY <1>2, <1>3, <1>4

(* gpu_read_register, GPUSTAT, and GP1_COMMAND_SET_DISPLAY_MODE.           *)
LEMMA InvokeKeeps ==
  ASSUME Settled(g), NEW exits, Becomes(InvokeEarly(g, exits), exits)
  PROVE  Keeps(exits)
<1> DEFINE t == InvokeEarly(g, exits)
<1>1. t.stop = "exit" => ~g.exited
  BY LeavesOnce
<1>2. Begun(g, t)
  BY InvokeSettles
<1> HIDE DEF t
<1>3. Done(t) /\ SameStream(g, t)
  BY <1>1, <1>2 DEF Begun
<1>4. Becomes(t, exits)
  BY DEF t
<1> QED
  BY <1>3, <1>4 DEF Keeps

(* The last word of a transfer is read and the commands run.               *)
LEMMA LastRead ==
  ASSUME Settled(g), g.blitter = "reading", NEW exits, NEW t,
         t = ExecuteCommands([g EXCEPT !.unread = 0, !.blitter = "idle"], exits),
         t.stop = "exit" => ~g.exited
  PROVE  Done(t) /\ SameStream(g, t)
<1> DEFINE b == [g EXCEPT !.unread = 0, !.blitter = "idle"]
<1>1. /\ g \in Shape /\ Paid(g) /\ Len(g.fifo) <= MaxFifo /\ (g.executing => g.exited)
      /\ g.pending <= MaxDebt
  BY DEF Settled, Afoot, Paid
<1>2. b \in Shape
  <2> DEFINE z == 0
  <2>1. z \in 0..2
    OBVIOUS
  <2> HIDE DEF z
  <2>2. [g EXCEPT !.unread = z, !.blitter = "idle"] \in Shape
    BY <1>1, <2>1 DEF Shape
  <2> QED
    BY <2>2 DEF z
<1>3. /\ SameEvent(g, b) /\ b.pending = g.pending /\ b.executing = g.executing
      /\ b.fifo = g.fifo /\ b.exited = g.exited /\ b.blitter = "idle"
      /\ b.polyline = g.polyline /\ b.cropped = g.cropped
  BY <1>1 DEF Shape, SameEvent
<1> HIDE DEF b
<1>4. Paid(b)
  BY <1>1, <1>2, <1>3, PaidLike
<1>5. Afoot(b) /\ b.pending <= MaxDebt
  BY <1>1, <1>3, <1>4 DEF Afoot
<1>6. Executed(b, t)
  BY <1>2, <1>5, ExecuteRuns DEF b
<1>7. Done(t)
  BY <1>3, <1>5, <1>6, ExecuteSettles
<1>8. SameStream(b, t)
  BY <1>6 DEF Executed, Runs
<1>9. Position(g) = Idle0 /\ Position(b) = Idle0 /\ Position(g) \in ParserState
  BY <1>1, <1>2, <1>3, PositionIs
<1>10. Clean(g) <=> Clean(b)
  BY <1>3 DEF Clean
<1>11. SameStream(g, t)
  BY <1>3, <1>8, <1>9, <1>10 DEF SameStream
<1> QED
  BY <1>7, <1>11

(* gpu_read_gpuread of a transfer.                                         *)
LEMMA ReadKeeps ==
  ASSUME Settled(g), g.stop = "no", NEW exits, ReadGpuRead(exits)
  PROVE  Keeps(exits)
<1> DEFINE t == ReadWord(g, exits)
           o == [g EXCEPT !.unread = @ - 1]
           e == ExecuteCommands([g EXCEPT !.unread = 0, !.blitter = "idle"], exits)
<1>1. g.blitter = "reading" /\ Becomes(t, exits)
  BY DEF ReadGpuRead
<1>2. t.stop = "exit" => ~g.exited
  BY <1>1, LeavesOnce
<1>3. t = IF g.unread > 1 THEN o ELSE e
  BY DEF ReadWord
<1>4. g \in Shape /\ Paid(g) /\ Len(g.fifo) <= MaxFifo
  BY DEF Settled, Afoot, Paid
<1> HIDE DEF t, e
<1>5. CASE g.unread > 1
  <2>1. o \in Shape
    <3>1. g.unread - 1 \in 0..2
      BY <1>4, <1>5 DEF Shape
    <3> QED
      BY <1>4, <3>1 DEF Shape
  <2>2. /\ SameEvent(g, o) /\ o.pending = g.pending /\ o.executing = g.executing
        /\ o.fifo = g.fifo /\ o.exited = g.exited /\ o.blitter = g.blitter
        /\ o.polyline = g.polyline /\ o.cropped = g.cropped /\ o.stop = g.stop
        /\ o.total = g.total /\ o.direction = g.direction /\ o.request = g.request
        /\ o.idle = g.idle
    BY <1>4 DEF Shape, SameEvent
  <2> HIDE DEF o
  <2>3. Paid(o)
    BY <1>4, <2>1, <2>2, PaidLike
  <2>4. Flagged(g) => Flagged(o)
    <3>1. ReadyForDma(o) = ReadyForDma(g)
      BY <2>2 DEF ReadyForDma
    <3>2. Request(o) = Request(g)
      BY <2>2, <3>1 DEF Request
    <3>3. IsIdle(o) = IsIdle(g)
      BY <2>2 DEF IsIdle
    <3> QED
      BY <2>2, <3>2, <3>3 DEF Flagged
  <2>5. Done(o)
    BY <2>2, <2>3, <2>4 DEF Done, Settled, Afoot
  <2>6. SameStream(g, o)
    <3>1. Position(g) = Idle0 /\ Position(o) = Idle0 /\ Position(g) \in ParserState
      BY <1>1, <1>4, <2>1, <2>2, PositionIs
    <3>2. Clean(g) <=> Clean(o)
      BY <2>2 DEF Clean
    <3> QED
      BY <2>2, <3>1, <3>2 DEF SameStream
  <2>7. t = o
    BY <1>3, <1>5
  <2> QED
    BY <1>1, <2>5, <2>6, <2>7 DEF Keeps
<1>6. CASE ~(g.unread > 1)
  <2>1. t = e
    BY <1>3, <1>6
  <2>2. Done(t) /\ SameStream(g, t)
    BY <1>1, <1>2, <2>1, LastRead DEF e
  <2> QED
    BY <1>1, <2>2 DEF Keeps
<1> QED
  BY <1>5, <1>6

(* The event as the scheduler puts it after it ran.                        *)
LateBy(s, late) ==
  IF ~s.active THEN s
  ELSE [s EXCEPT !.since = late,
                 !.left = (IF s.stop = "exit" THEN s.interval ELSE @) - late]

(* It ran late: what is left counts from when it was due.                  *)
LEMMA LateDone ==
  ASSUME NEW s, s \in Shape, s.pending <= MaxDebt, Len(s.fifo) <= MaxFifo,
         s.executing => s.exited, ~s.executing => s.pending > 0, s.active = TRUE,
         NEW late \in 0..MaxLate,
         NEW ticks \in 0..Enough, NEW t, Ticked(s, ticks, t), t.stop = "exit" => ~s.exited,
         NEW u, u = LateBy(t, late)
  PROVE  Done(u) /\ SameStream(s, u)
<1>1. /\ t \in Shape /\ t.pending <= MaxDebt /\ Len(t.fifo) <= Len(s.fifo)
      /\ t.exited = s.exited /\ SameStream(s, t)
  BY DEF Ticked, Runs
<1>2. Enough \in Nat /\ MaxLate \in Nat /\ MaxDebt \in Nat /\ MaxFifo \in Nat /\ MaxLate <= Enough
      /\ late \in Nat /\ late <= MaxLate
  BY TickAssumption, FifoAssumption DEF Enough, MaxDebt
<1>3. Len(t.fifo) <= MaxFifo
  <2>1. s.fifo \in Seq(Word) /\ t.fifo \in Seq(Word)
    BY <1>1 DEF Shape
  <2>2. Len(s.fifo) \in Nat /\ Len(t.fifo) \in Nat
    BY <2>1, LenProperties
  <2> QED
    BY <1>1, <1>2, <2>2
<1>4. /\ s.pending \in Int /\ t.pending \in Int /\ t.left \in Int /\ t.interval \in Nat
      /\ s.executing \in BOOLEAN /\ t.executing \in BOOLEAN /\ t.exited \in BOOLEAN
      /\ t.active \in BOOLEAN
  BY <1>1 DEF Shape
<1> DEFINE l == (IF t.stop = "exit" THEN t.interval ELSE t.left) - late
           v == [t EXCEPT !.since = late, !.left = l]
<1>5. u = IF ~t.active THEN t ELSE v
  BY DEF LateBy
<1>6. l \in Int /\ late \in 0..Enough
  BY <1>2, <1>4
<1>7. /\ t.stop = "exit" => l = t.interval - late
      /\ t.stop # "exit" => l = t.left - late
  OBVIOUS
<1> HIDE DEF l
<1>8. /\ v \in Shape /\ SameWork(t, v) /\ v.pending = t.pending /\ v.executing = t.executing
      /\ v.request = t.request /\ v.idle = t.idle /\ v.stop = t.stop
      /\ v.active = t.active /\ v.since = late /\ v.left = l
  <2>1. v \in Shape
    BY <1>1, <1>6 DEF Shape
  <2>2. SameWork(t, v)
    BY <1>1 DEF Shape, SameWork
  <2> QED
    BY <1>1, <2>1, <2>2 DEF Shape
<1> HIDE DEF v
<1>9. v.fifo = t.fifo /\ v.exited = t.exited
  BY <1>8 DEF SameWork
<1>10. SameStream(s, v)
  BY <1>1, <1>8, WorkIsStream
<1>11. CASE t.stop = "exit"
  <2>1. t.executing /\ SameEvent(s, t) /\ s.pending - 2 * ticks <= t.pending
    BY <1>11 DEF Ticked
  <2>2. s.pending > 0 /\ t.active
    BY <1>1, <1>4, <1>11, <2>1 DEF SameEvent
  <2>3. u = v
    BY <1>5, <2>2
  <2>4. -2 * Enough <= t.pending
    BY <1>2, <1>4, <2>1, <2>2
  <2>5. v.left >= -MaxLate /\ v.since + v.left >= 0
    BY <1>2, <1>4, <1>7, <1>8, <1>11
  <2>6. Paid(v)
    BY <1>1, <1>3, <1>8, <1>9, <2>1, <2>4, <2>5 DEF Paid
  <2>7. Done(v)
    BY <1>8, <1>11, <2>1, <2>6 DEF Done
  <2> QED
    BY <1>10, <2>3, <2>7
<1>12. CASE t.stop # "exit"
  <2>1. ~t.executing /\ Flagged(t) /\ InTime(t)
    BY <1>12 DEF Ticked
  <2>2. /\ (t.active <=> t.pending > 0) /\ 2 * (t.since + t.left) >= t.pending
        /\ t.left >= -MaxLate /\ t.since + t.left >= 0 /\ -2 * Enough <= t.pending
    BY <1>1, <2>1, TimelyIs
  <2>3. CASE ~t.active
    <3>1. u = t
      BY <1>5, <2>3
    <3>2. Paid(t)
      BY <1>1, <1>3, <2>1, <2>2 DEF Paid
    <3>3. Done(t)
      BY <2>1, <3>2 DEF Done
    <3> QED
      BY <1>1, <3>1, <3>3
  <2>4. CASE t.active
    <3>1. u = v
      BY <1>5, <2>4
    <3>2. t.left >= 0 /\ 2 * t.left >= t.pending
      BY <1>4, <2>1 DEF InTime
    <3>3. v.left >= -MaxLate /\ v.since + v.left >= 0 /\ 2 * (v.since + v.left) >= v.pending
      BY <1>2, <1>4, <1>7, <1>8, <1>12, <3>2
    <3>4. Flagged(v)
      <4>1. Request(v) = Request(t) /\ IsIdle(v) = IsIdle(t)
        BY <1>1, <1>8, FlagsOf
      <4> QED
        BY <1>8, <2>1, <4>1 DEF Flagged
    <3>5. Paid(v)
      BY <1>1, <1>3, <1>8, <1>9, <2>2, <3>3 DEF Paid
    <3>6. Done(v)
      BY <1>8, <2>1, <3>4, <3>5 DEF Done
    <3> QED
      BY <1>10, <3>1, <3>6
  <2> QED
    BY <2>3, <2>4
<1> QED
  BY <1>11, <1>12

(* What it finds to have passed is no more than there can be.              *)
LEMMA LateTicks ==
  ASSUME NEW rest \in Int, NEW m \in Nat, NEW e \in Nat, NEW past \in Nat, NEW late,
         m <= e, past <= e, rest <= 0, rest >= -m, past < e => past + rest >= 0,
         late = -rest
  PROVE  late \in 0..m /\ past - late \in 0..e
OBVIOUS

(* The event at its own time.                                              *)
LEMMA EventKeeps ==
  ASSUME Settled(g), NEW exits, CommandEvent(exits)
  PROVE  Keeps(exits)
<1> DEFINE late == -g.left
           ticks == g.since - late
           r == [g EXCEPT !.since = 0]
           t == CommandTickEvent(r, ticks, exits)
           u == LateBy(t, late)
<1>1. g.active /\ g.left <= 0 /\ Becomes(u, exits)
  <2> DEFINE Late(s) == IF ~s.active THEN s
                        ELSE [s EXCEPT !.since = late,
                                       !.left = (IF s.stop = "exit" THEN s.interval ELSE @) - late]
  <2>1. g.active /\ g.left <= 0 /\ Becomes(Once(t, Late), exits)
    BY DEF CommandEvent
  <2>2. {Late(x) : x \in {t}} = {Late(t)}
    OBVIOUS
  <2>3. Once(t, Late) = Late(t)
    BY <2>2 DEF Once
  <2>4. Late(t) = u
    BY DEF LateBy
  <2> QED
    BY <2>1, <2>3, <2>4
<1>2. /\ g \in Shape /\ -2 * Enough <= g.pending /\ g.pending <= MaxDebt
      /\ Len(g.fifo) <= MaxFifo /\ (g.executing => g.exited)
      /\ (~g.executing => (g.active <=> g.pending > 0))
      /\ (g.active => g.left >= -MaxLate /\ (g.since < Enough => g.since + g.left >= 0))
  BY DEF Settled, Afoot, Paid
<1>3. Enough \in Nat /\ MaxLate \in Nat /\ MaxLate <= Enough /\ g.left \in Int
      /\ g.since \in Nat /\ g.since <= Enough /\ g.active \in BOOLEAN
  <2>1. Enough \in Nat /\ MaxLate \in Nat /\ MaxLate <= Enough
    BY TickAssumption DEF Enough
  <2>2. g.since \in 0..Enough /\ g.left \in Int /\ g.active \in BOOLEAN
    BY <1>2 DEF Shape
  <2> QED
    BY <2>1, <2>2
<1>4. late \in 0..MaxLate /\ ticks \in 0..Enough /\ ticks \in Nat
  <2>1. g.left >= -MaxLate /\ g.left <= 0 /\ (g.since < Enough => g.since + g.left >= 0)
    BY <1>1, <1>2
  <2> HIDE DEF late
  <2>2. late = -g.left
    BY DEF late
  <2>3. late \in 0..MaxLate /\ ticks \in 0..Enough
    BY <1>3, <2>1, <2>2, LateTicks
  <2> QED
    BY <1>3, <2>3
<1> HIDE DEF late, ticks
<1>5. /\ r \in Shape /\ SameWork(g, r) /\ r.pending = g.pending /\ r.executing = g.executing
      /\ r.active = g.active
  <2> DEFINE z == 0
  <2>1. z \in 0..Enough
    BY <1>3
  <2> HIDE DEF z
  <2>2. [g EXCEPT !.since = z] \in Shape
    BY <1>2, <2>1 DEF Shape
  <2>3. r \in Shape
    BY <2>2 DEF z
  <2> QED
    BY <1>2, <2>3 DEF Shape, SameWork
<1> HIDE DEF r
<1>6. r.fifo = g.fifo /\ r.exited = g.exited
  BY <1>5 DEF SameWork
<1>7. Ticked(r, ticks, t)
  BY <1>2, <1>4, <1>5, EventRuns
<1>8. t.exited = r.exited /\ t \in Shape
  BY <1>7 DEF Ticked, Runs
<1> HIDE DEF t
<1>9. u.stop = t.stop
  BY <1>8 DEF LateBy, Shape
<1>10. t.stop = "exit" => ~r.exited
  BY <1>1, <1>6, <1>9, LeavesOnce
<1>11. /\ r.pending <= MaxDebt /\ Len(r.fifo) <= MaxFifo /\ (r.executing => r.exited)
       /\ (~r.executing => r.pending > 0) /\ r.active = TRUE
  BY <1>1, <1>2, <1>3, <1>5, <1>6
<1>12. Done(u) /\ SameStream(r, u)
  BY <1>4, <1>5, <1>7, <1>10, <1>11, LateDone
<1>13. SameStream(g, u)
  BY <1>5, <1>12, StreamIsWork
<1> HIDE DEF u
<1> QED
  BY <1>1, <1>12, <1>13 DEF Keeps

-----------------------------------------------------------------------------
(* The resets.                                                             *)

(* gpu_update_dma_request.                                                 *)
LEMMA RequestUpdated ==
  ASSUME NEW s \in Shape, NEW t, t = UpdateDmaRequest(s)
  PROVE  /\ t \in Shape /\ SameWork(s, t) /\ SameEvent(s, t)
         /\ t.pending = s.pending /\ t.executing = s.executing /\ t.stop = s.stop
         /\ t.request = Request(t) /\ t.idle = s.idle
<1> DEFINE q == Request(s)
<1>1. q \in BOOLEAN
  <2>1. SameWork(s, s)
    BY DEF SameWork
  <2> QED
    BY <2>1, FlagsOf
<1>2. t = [s EXCEPT !.request = q]
  BY DEF UpdateDmaRequest
<1> HIDE DEF q
<1>3. t \in Shape /\ SameWork(s, t) /\ SameEvent(s, t)
  BY <1>1, <1>2 DEF Shape, SameWork, SameEvent
<1>4. /\ t.pending = s.pending /\ t.executing = s.executing /\ t.stop = s.stop
      /\ t.request = q /\ t.idle = s.idle
  BY <1>2 DEF Shape
<1>5. Request(t) = q
  BY <1>3, FlagsOf DEF q
<1> QED
  BY <1>3, <1>4, <1>5

(* gpu_update_gpu_idle.                                                    *)
LEMMA IdleUpdated ==
  ASSUME NEW s \in Shape, NEW t, t = UpdateGpuIdle(s)
  PROVE  /\ t \in Shape /\ SameWork(s, t) /\ SameEvent(s, t)
         /\ t.pending = s.pending /\ t.executing = s.executing /\ t.stop = s.stop
         /\ t.request = s.request /\ t.idle = IsIdle(t)
<1> DEFINE i == IsIdle(s)
<1>1. i \in BOOLEAN
  BY DEF IsIdle
<1>2. t = [s EXCEPT !.idle = i]
  BY DEF UpdateGpuIdle
<1> HIDE DEF i
<1>3. t \in Shape /\ SameWork(s, t) /\ SameEvent(s, t)
  BY <1>1, <1>2 DEF Shape, SameWork, SameEvent
<1>4. /\ t.pending = s.pending /\ t.executing = s.executing /\ t.stop = s.stop
      /\ t.request = s.request /\ t.idle = i
  BY <1>2 DEF Shape
<1>5. IsIdle(t) = i
  BY <1>3, <1>4, FlagsOf DEF i
<1> QED
  BY <1>3, <1>4, <1>5

(* What a reset leaves.                                                    *)
Reset(s, t) ==
  /\ t \in Shape /\ t.fifo = <<>> /\ t.blitter = "idle" /\ t.pending = 0 /\ ~t.active
  /\ t.executing = s.executing /\ t.exited = s.exited /\ Flagged(t)

(* The FIFO and the commands are gone.                                     *)
LEMMA EmptiedIs ==
  ASSUME NEW s \in Shape, NEW t, t = Emptied(s)
  PROVE  /\ t \in Shape /\ t.fifo = <<>> /\ t.blitter = "idle" /\ t.pending = 0
         /\ t.executing = s.executing /\ t.exited = s.exited
<1> DEFINE z == 0
           e == [s EXCEPT !.blitter = "idle", !.total = z, !.pending = z, !.remaining = z,
                          !.unread = z, !.fifo = <<>>]
<1>1. t = e
  BY DEF Emptied
<1>2. z \in 0..4 /\ z \in 0..2 /\ z \in Int /\ z = 0 /\ <<>> \in Seq(Word)
  BY EmptySeq
<1> HIDE DEF z
<1>3. e \in Shape
  BY <1>2 DEF Shape
<1>4. /\ e.fifo = <<>> /\ e.blitter = "idle" /\ e.pending = z
      /\ e.executing = s.executing /\ e.exited = s.exited
  BY DEF Shape
<1> HIDE DEF e
<1> QED
  BY <1>1, <1>2, <1>3, <1>4

(* GP1_COMMAND_CLEAR_FIFO.                                                 *)
LEMMA ClearedIs ==
  ASSUME NEW s \in Shape
  PROVE  Reset(s, FifoCleared(s))
<1> DEFINE e == Emptied(s)
           o == [e EXCEPT !.active = FALSE, !.since = 0, !.left = 0]
           t == FifoCleared(s)
<1>1. /\ e \in Shape /\ e.fifo = <<>> /\ e.blitter = "idle" /\ e.pending = 0
      /\ e.executing = s.executing /\ e.exited = s.exited
  BY EmptiedIs
<1>2. t = UpdateGpuIdle(UpdateDmaRequest(o))
  BY DEF FifoCleared
<1> HIDE DEF e, t
<1>3. /\ o \in Shape /\ o.fifo = e.fifo /\ o.blitter = e.blitter /\ o.pending = e.pending
      /\ o.executing = e.executing /\ o.exited = e.exited /\ o.active = FALSE
  <2> DEFINE z == 0
             y == [e EXCEPT !.active = FALSE, !.since = z, !.left = z]
  <2>1. z \in 0..Enough /\ z \in Int
    BY TickAssumption DEF Enough
  <2> HIDE DEF z
  <2>2. /\ y \in Shape /\ y.fifo = e.fifo /\ y.blitter = e.blitter /\ y.pending = e.pending
        /\ y.executing = e.executing /\ y.exited = e.exited /\ y.active = FALSE
    BY <1>1, <2>1 DEF Shape
  <2> HIDE DEF y
  <2>3. o = y
    BY DEF y, z
  <2> HIDE DEF o
  <2> QED
    BY <2>2, <2>3
<1> HIDE DEF o
<1>4. /\ t \in Shape /\ SameWork(o, t) /\ SameEvent(o, t)
      /\ t.pending = o.pending /\ t.executing = o.executing
      /\ t.request = Request(t) /\ t.idle = IsIdle(t)
  BY <1>2, <1>3, FlagsUpdated
<1>5. t.fifo = <<>> /\ t.blitter = "idle" /\ t.active = FALSE /\ t.exited = s.exited
  BY <1>1, <1>3, <1>4 DEF SameWork, SameEvent
<1>6. Reset(s, t)
  BY <1>1, <1>3, <1>4, <1>5 DEF Reset, Flagged
<1> QED
  BY <1>6 DEF t

(* gpu_soft_reset.                                                         *)
LEMMA SoftResetIs ==
  ASSUME NEW s \in Shape
  PROVE  Reset(s, SoftReset(s))
<1> DEFINE e == Emptied(s)
           o == [e EXCEPT !.direction = "off"]
           d == UpdateDmaRequest(o)
           v == UpdateCommandTickEvent(d)
           t == SoftReset(s)
<1>1. /\ e \in Shape /\ e.fifo = <<>> /\ e.blitter = "idle" /\ e.pending = 0
      /\ e.executing = s.executing /\ e.exited = s.exited
  BY EmptiedIs
<1>2. t = UpdateGpuIdle(v)
  BY DEF SoftReset
<1> HIDE DEF e, t
<1>3. /\ o \in Shape /\ o.fifo = e.fifo /\ o.blitter = e.blitter /\ o.pending = e.pending
      /\ o.executing = e.executing /\ o.exited = e.exited
  BY <1>1 DEF Shape
<1> HIDE DEF o
<1>4. /\ d \in Shape /\ SameWork(o, d) /\ d.pending = o.pending /\ d.executing = o.executing
      /\ d.request = Request(d)
  BY <1>3, RequestUpdated
<1> HIDE DEF d
<1>5. /\ v \in Shape /\ Rescheduled(d, v) /\ SameWork(d, v)
      /\ v.request = d.request /\ v.executing = d.executing
  BY <1>4, EventUpdated
<1> HIDE DEF v
<1>6. /\ t \in Shape /\ SameWork(v, t) /\ SameEvent(v, t)
      /\ t.pending = v.pending /\ t.executing = v.executing
      /\ t.request = v.request /\ t.idle = IsIdle(t)
  BY <1>2, <1>5, IdleUpdated
<1>7. v.pending = 0 /\ ~v.active
  BY <1>1, <1>3, <1>4, <1>5 DEF Rescheduled, InTime
<1>8. SameWork(d, t)
  BY <1>5, <1>6 DEF SameWork
<1>9. Request(t) = Request(d)
  BY <1>4, <1>8, FlagsOf
<1>10. t.fifo = <<>> /\ t.blitter = "idle" /\ ~t.active /\ t.exited = s.exited
  BY <1>1, <1>3, <1>4, <1>6, <1>7, <1>8 DEF SameWork, SameEvent
<1>11. Reset(s, t)
  BY <1>1, <1>3, <1>4, <1>5, <1>6, <1>7, <1>9, <1>10 DEF Reset, Flagged
<1> QED
  BY <1>11 DEF t

(* A reset of s to d, or an exit before it.                                *)
Resets(s, d, exits) ==
  IF exits \/ s.stop = "exit" THEN Becomes(Stop(s, "exit"), exits) /\ UNCHANGED want
  ELSE /\ g' = [d EXCEPT !.cropped = FALSE, !.stop = "no"]
       /\ want' = Idle0
       /\ derailed' = LeavesVertices(d)

(* An operation left after the event was brought up to date.               *)
LEMMA StoppedKeeps ==
  ASSUME Settled(g), NEW s, Begun(g, s), NEW exits, Becomes(Stop(s, "exit"), exits)
  PROVE  Keeps(exits)
<1> DEFINE t == Stop(s, "exit")
<1>1. s \in Shape
  BY DEF Begun
<1>2. /\ t \in Shape /\ SameWork(s, t) /\ SameEvent(s, t) /\ t.pending = s.pending
      /\ t.executing = s.executing /\ t.request = s.request /\ t.idle = s.idle
      /\ t.stop = "exit"
  <2>1. t \in Shape
    BY <1>1 DEF Stop, Shape
  <2> QED
    BY <1>1, <2>1 DEF Stop, Shape, SameWork, SameEvent
<1> HIDE DEF t
<1>3. Becomes(t, exits)
  BY DEF t
<1>4. ~g.exited
  BY <1>2, <1>3, LeavesOnce
<1>5. Done(s) /\ SameStream(g, s) /\ s.exited = g.exited
  BY <1>4 DEF Begun
<1>6. Paid(t)
  <2>1. t.fifo = s.fifo /\ Paid(s) /\ Len(s.fifo) <= MaxFifo
    BY <1>2, <1>5 DEF SameWork, Done, Paid
  <2> QED
    BY <1>2, <2>1, PaidLike
<1>7. Flagged(s) => Flagged(t)
  <2>1. Request(t) = Request(s) /\ IsIdle(t) = IsIdle(s)
    BY <1>1, <1>2, FlagsOf
  <2> QED
    BY <1>2, <2>1 DEF Flagged
<1>8. Done(t)
  BY <1>2, <1>5, <1>6, <1>7 DEF Done
<1>9. SameStream(g, t)
  BY <1>2, <1>5, WorkIsStream
<1> QED
  BY <1>3, <1>8, <1>9 DEF Keeps

(* A reset leaves a settled state in which the stream begins anew.         *)
LEMMA ResetLeaves ==
  ASSUME Settled(g), NEW s, Begun(g, s), s.stop # "exit", NEW d, Reset(s, d),
         NEW t, t = [d EXCEPT !.cropped = FALSE, !.stop = "no"]
  PROVE  /\ Settled(t) /\ t.stop = "no" /\ t.fifo = <<>> /\ t.blitter = "idle"
         /\ ~t.cropped /\ t.polyline = d.polyline
<1>1. Settled(s)
  BY DEF Begun
<1>2. /\ d \in Shape /\ d.fifo = <<>> /\ d.blitter = "idle" /\ d.pending = 0 /\ ~d.active
      /\ d.executing = s.executing /\ d.exited = s.exited
      /\ d.request = Request(d) /\ d.idle = IsIdle(d)
  BY DEF Reset, Flagged
<1>3. /\ t \in Shape /\ t.stop = "no" /\ t.fifo = d.fifo /\ t.blitter = d.blitter
      /\ t.pending = d.pending /\ t.active = d.active /\ t.executing = d.executing
      /\ t.exited = d.exited /\ t.request = d.request /\ t.idle = d.idle
      /\ t.total = d.total /\ t.direction = d.direction /\ t.cropped = FALSE
      /\ t.polyline = d.polyline
  BY <1>2 DEF Shape
<1>4. Flagged(t)
  <2>1. ReadyForDma(t) = ReadyForDma(d)
    BY <1>3 DEF ReadyForDma
  <2>2. Request(t) = Request(d)
    BY <1>3, <2>1 DEF Request
  <2>3. IsIdle(t) = IsIdle(d)
    BY <1>3 DEF IsIdle
  <2> QED
    BY <1>2, <1>3, <2>2, <2>3 DEF Flagged
<1>5. Paid(t)
  <2>1. Enough \in Nat /\ MaxDebt \in Nat /\ MaxFifo \in Nat
    BY TickAssumption, FifoAssumption DEF Enough, MaxDebt
  <2>2. t.pending = 0 /\ ~t.active
    BY <1>2, <1>3
  <2>3. Len(t.fifo) = 0
    <3>1. t.fifo = <<>>
      BY <1>2, <1>3
    <3> QED
      BY <3>1
  <2>4. -2 * Enough <= t.pending /\ t.pending <= MaxDebt /\ Len(t.fifo) <= MaxFifo
    BY <2>1, <2>2, <2>3
  <2>5. ~(t.pending > 0)
    BY <2>2
  <2> QED
    BY <1>3, <2>2, <2>4, <2>5 DEF Paid
<1>6. t.executing => t.exited
  BY <1>1, <1>2, <1>3 DEF Settled, Afoot
<1> QED
  BY <1>2, <1>3, <1>4, <1>5, <1>6 DEF Settled, Afoot

(* GP1_COMMAND_CLEAR_FIFO and GP1_COMMAND_RESET_GPU keep IndInv.           *)
LEMMA ResetInd ==
  ASSUME IndInv, UNCHANGED kit, NEW s, Begun(g, s), NEW d, Reset(s, d), NEW exits,
         Resets(s, d, exits)
  PROVE  IndInv'
<1>1. Settled(g) /\ kit \in Kits /\ derailed \in BOOLEAN
  BY IndIs
<1>2. CASE exits \/ s.stop = "exit"
  <2>1. Becomes(Stop(s, "exit"), exits)
    BY <1>2 DEF Resets
  <2>2. Keeps(exits)
    BY <1>1, <2>1, StoppedKeeps
  <2> QED
    BY <2>2, KeepsInd
<1>3. CASE ~(exits \/ s.stop = "exit")
  <2>1. /\ g' = [d EXCEPT !.cropped = FALSE, !.stop = "no"]
        /\ derailed' = LeavesVertices(d)
    BY <1>3 DEF Resets
  <2>2. Settled(g') /\ g'.stop = "no"
    BY <1>1, <1>3, <2>1, ResetLeaves
  <2>3. derailed' \in BOOLEAN
    BY <2>1 DEF LeavesVertices
  <2> QED
    BY <1>1, <2>2, <2>3, SettledIsInd
<1> QED
  BY <1>2, <1>3

(* No words lead nowhere.                                                  *)
LEMMA NothingParsed ==
  ASSUME NEW p \in ParserState
  PROVE  ParseAll(p, <<>>) = p
<1>1. <<>> \in Seq(Word) /\ Len(<<>>) = 0
  BY EmptySeq
<1>2. PICK at \in [0..Len(<<>>) -> ParserState] :
        at[0] = p /\ ParseAll(p, <<>>) = at[Len(<<>>)]
  BY <1>1, ParseAllRuns
<1> QED
  BY <1>1, <1>2

(* And they keep IndFramed.                                                *)
LEMMA ResetFramed ==
  ASSUME IndInv, IndFramed, NEW s, Begun(g, s), NEW d, Reset(s, d), NEW exits,
         Resets(s, d, exits)
  PROVE  IndFramed'
<1>1. Settled(g)
  BY IndIs
<1>2. CASE exits \/ s.stop = "exit"
  <2>1. Becomes(Stop(s, "exit"), exits) /\ UNCHANGED want
    BY <1>2 DEF Resets
  <2>2. Keeps(exits)
    BY <1>1, <2>1, StoppedKeeps
  <2> QED
    BY <2>1, <2>2, KeepsFramed
<1>3. CASE ~(exits \/ s.stop = "exit")
  <2> SUFFICES ASSUME ~derailed'
               PROVE  Clean(g') /\ ParseAll(Position(g'), g'.fifo) = want'
    BY DEF IndFramed
  <2>1. /\ g' = [d EXCEPT !.cropped = FALSE, !.stop = "no"]
        /\ want' = Idle0 /\ derailed' = LeavesVertices(d)
    BY <1>3 DEF Resets
  <2>2. /\ Settled(g') /\ g'.fifo = <<>> /\ g'.blitter = "idle"
        /\ ~g'.cropped /\ g'.polyline = d.polyline
    BY <1>1, <1>3, <2>1, ResetLeaves
  <2>3. d.polyline = 0
    <3>1. d.blitter = "idle" /\ d \in Shape
      BY DEF Reset
    <3>2. d.polyline \in Nat
      BY <3>1, FifoAssumption DEF Shape
    <3>3. ~LeavesVertices(d)
      BY <2>1
    <3>4. ~(d.polyline > 0)
      BY <3>1, <3>3 DEF LeavesVertices
    <3> QED
      BY <3>2, <3>4
  <2>4. Clean(g')
    BY <2>2, <2>3 DEF Clean
  <2>5. Position(g') = Idle0
    BY <2>2 DEF Position
  <2>6. Idle0 \in ParserState
    BY DEF Idle0, Parser, ParserState, Word
  <2>7. ParseAll(Position(g'), g'.fifo) = Idle0
    BY <2>2, <2>5, <2>6, NothingParsed
  <2> QED
    BY <2>1, <2>4, <2>7
<1> QED
  BY <1>2, <1>3

(* The two resets.                                                         *)
LEMMA ClearFifoResets ==
  ASSUME Settled(g), NEW exits, ClearFifo(exits)
  PROVE  \E s, d : Begun(g, s) /\ Reset(s, d) /\ Resets(s, d, exits)
<1> DEFINE s == InvokeEarly(g, exits)
<1>1. Begun(g, s)
  BY InvokeSettles
<1>2. Resets(s, FifoCleared(s), exits)
  BY DEF ClearFifo, Gp1Reset, Resets
<1>3. Reset(s, FifoCleared(s))
  BY <1>1, ClearedIs DEF Begun
<1> QED
  BY <1>1, <1>2, <1>3

(* The other one.                                                          *)
LEMMA ResetGpuResets ==
  ASSUME Settled(g), NEW exits, ResetGpu(exits)
  PROVE  \E s, d : Begun(g, s) /\ Reset(s, d) /\ Resets(s, d, exits)
<1> DEFINE s == InvokeEarly(g, exits)
<1>1. Begun(g, s)
  BY InvokeSettles
<1>2. Resets(s, SoftReset(s), exits)
  BY DEF ResetGpu, Gp1Reset, Resets
<1>3. Reset(s, SoftReset(s))
  BY <1>1, SoftResetIs DEF Begun
<1> QED
  BY <1>1, <1>2, <1>3

-----------------------------------------------------------------------------
(* The clock, the direction and a load.                                    *)

(* Elapse keeps IndInv.                                                    *)
LEMMA ElapseInd ==
  ASSUME Settled(g), g.stop = "no", kit \in Kits, derailed \in BOOLEAN,
         Elapse, UNCHANGED kit
  PROVE  IndInv'
<1> DEFINE c == Least(g.since + 1, Enough)
           l == g.left - 1
           h == [g EXCEPT !.since = c, !.left = l]
<1>1. (g.active => g.left > -MaxLate) /\ g' = (IF g.active THEN h ELSE g) /\ derailed' = derailed
  <2>1. [g EXCEPT !.since = Least(@ + 1, Enough), !.left = @ - 1] = h
    OBVIOUS
  <2> QED
    BY <2>1 DEF Elapse
<1>2. /\ g \in Shape /\ Paid(g) /\ Len(g.fifo) <= MaxFifo /\ (g.executing => g.exited)
      /\ (~g.executing => Flagged(g))
  BY DEF Settled, Afoot, Paid
<1>3. CASE ~g.active
  <2>1. g' = g
    BY <1>1, <1>3
  <2> QED
    BY <1>1, <2>1, SettledIsInd
<1>4. CASE g.active
  <2>1. Enough \in Nat /\ MaxLate \in Nat
    BY TickAssumption DEF Enough
  <2>2. g.since \in Nat /\ g.since <= Enough /\ g.left \in Int /\ g.pending \in Int
    BY <1>2, <2>1 DEF Shape
  <2>3. c = IF g.since + 1 < Enough THEN g.since + 1 ELSE Enough
    BY DEF Least
  <2> HIDE DEF c
  <2>4. c \in 0..Enough /\ l \in Int /\ (c < Enough => g.since < Enough /\ c + l = g.since + g.left)
    BY <2>1, <2>2, <2>3
  <2>5. l >= -MaxLate
    <3>1. g.left > -MaxLate
      BY <1>1, <1>4
    <3> QED
      BY <2>1, <2>2, <3>1
  <2> HIDE DEF l
  <2>6. /\ h \in Shape /\ SameWork(g, h) /\ h.pending = g.pending /\ h.executing = g.executing
        /\ h.active = g.active /\ h.since = c /\ h.left = l /\ h.stop = g.stop
        /\ h.request = g.request /\ h.idle = g.idle
    <3>1. h \in Shape
      BY <1>2, <2>4 DEF Shape
    <3> QED
      BY <1>2, <3>1 DEF Shape, SameWork
  <2> HIDE DEF h
  <2>7. h.fifo = g.fifo /\ h.exited = g.exited
    BY <2>6 DEF SameWork
  <2>8. Paid(h)
    <3>1. h.since < Enough => g.since < Enough /\ h.since + h.left = g.since + g.left
      BY <2>4, <2>6
    <3>2. h.left >= -MaxLate
      BY <2>5, <2>6
    <3>3. /\ h.active /\ ~h.executing /\ h.since < Enough => 2 * (h.since + h.left) >= h.pending
          /\ h.active /\ h.since < Enough => h.since + h.left >= 0
      BY <1>2, <2>6, <3>1 DEF Paid
    <3> QED
      BY <1>2, <2>6, <2>7, <3>2, <3>3 DEF Paid
  <2>9. Flagged(g) => Flagged(h)
    <3>1. Request(h) = Request(g) /\ IsIdle(h) = IsIdle(g)
      BY <1>2, <2>6, FlagsOf
    <3> QED
      BY <2>6, <3>1 DEF Flagged
  <2>10. Settled(h)
    BY <1>2, <2>6, <2>7, <2>8, <2>9 DEF Settled, Afoot
  <2>11. g' = h
    BY <1>1, <1>4
  <2> QED
    BY <1>1, <2>6, <2>10, <2>11, SettledIsInd
<1> QED
  BY <1>3, <1>4

(* Operations that change no words nor what is in progress.                *)
LEMMA UntouchedFramed ==
  ASSUME IndFramed, g'.fifo = g.fifo, g'.blitter = g.blitter, g'.remaining = g.remaining,
         g'.shaded = g.shaded, g'.cropped = g.cropped, ~derailed' => g'.polyline = g.polyline,
         ~derailed' => ~derailed, UNCHANGED want
  PROVE  IndFramed'
<1> SUFFICES ASSUME ~derailed'
             PROVE  Clean(g') /\ ParseAll(Position(g'), g'.fifo) = want'
  BY DEF IndFramed
<1>1. Clean(g) /\ ParseAll(Position(g), g.fifo) = want
  BY DEF IndFramed
<1>2. Position(g') = Position(g)
  BY DEF Position
<1>3. Clean(g')
  BY <1>1 DEF Clean
<1> QED
  BY <1>1, <1>2, <1>3

(* Elapse keeps IndFramed.                                                 *)
LEMMA ElapseFramed ==
  ASSUME Settled(g), IndFramed, Elapse
  PROVE  IndFramed'
<1>1. g \in Shape
  BY DEF Settled, Afoot, Paid
<1>2. /\ g' = (IF g.active THEN [g EXCEPT !.since = Least(@ + 1, Enough), !.left = @ - 1] ELSE g)
      /\ UNCHANGED <<want, derailed>>
  BY DEF Elapse
<1>3. /\ g'.fifo = g.fifo /\ g'.blitter = g.blitter /\ g'.remaining = g.remaining
      /\ g'.shaded = g.shaded /\ g'.cropped = g.cropped /\ g'.polyline = g.polyline
  BY <1>1, <1>2 DEF Shape
<1> QED
  BY <1>2, <1>3, UntouchedFramed

(* The direction of the DMA channel.                                       *)
LEMMA DirectionInd ==
  ASSUME Settled(g), g.stop = "no", kit \in Kits, derailed \in BOOLEAN,
         NEW d \in kit.directions, SetDmaDirection(d), UNCHANGED kit
  PROVE  /\ IndInv'
         /\ IndFramed => IndFramed'
<1> DEFINE o == [g EXCEPT !.direction = d]
           h == UpdateDmaRequest(o)
<1>1. g' = (IF g.direction = d THEN g ELSE h) /\ UNCHANGED <<want, derailed>>
  BY DEF SetDmaDirection
<1>2. /\ g \in Shape /\ Paid(g) /\ Len(g.fifo) <= MaxFifo /\ (g.executing => g.exited)
      /\ (~g.executing => Flagged(g))
  BY DEF Settled, Afoot, Paid
<1>3. d \in {"off", "in", "out"}
  BY KitAssumption
<1>4. CASE g.direction = d
  <2>1. g' = g
    BY <1>1, <1>4
  <2> QED
    BY <1>1, <2>1, SettledIsInd, UntouchedFramed
<1>5. CASE g.direction # d
  <2>1. /\ o \in Shape /\ SameEvent(g, o) /\ o.pending = g.pending /\ o.executing = g.executing
        /\ o.fifo = g.fifo /\ o.exited = g.exited /\ o.stop = g.stop /\ o.blitter = g.blitter
        /\ o.remaining = g.remaining /\ o.shaded = g.shaded /\ o.cropped = g.cropped
        /\ o.polyline = g.polyline /\ o.idle = g.idle
    BY <1>2, <1>3 DEF Shape, SameEvent
  <2> HIDE DEF o
  <2>2. /\ h \in Shape /\ SameWork(o, h) /\ SameEvent(o, h)
        /\ h.pending = o.pending /\ h.executing = o.executing /\ h.stop = o.stop
        /\ h.request = Request(h) /\ h.idle = o.idle
    BY <2>1, RequestUpdated
  <2> HIDE DEF h
  <2>3. /\ h.fifo = g.fifo /\ h.exited = g.exited /\ h.blitter = g.blitter
        /\ h.remaining = g.remaining /\ h.shaded = g.shaded /\ h.cropped = g.cropped
        /\ h.polyline = g.polyline /\ SameEvent(g, h)
    BY <2>1, <2>2 DEF SameWork, SameEvent
  <2>4. h.pending = g.pending /\ h.executing = g.executing /\ h.stop = g.stop /\ h.idle = g.idle
    BY <2>1, <2>2
  <2>5. Paid(h)
    BY <1>2, <2>2, <2>3, <2>4, PaidLike
  <2>6. IsIdle(h) = IsIdle(g)
    BY <2>3, <2>4 DEF IsIdle
  <2>7. Settled(h)
    BY <1>2, <2>2, <2>3, <2>4, <2>5, <2>6 DEF Settled, Afoot, Flagged
  <2>8. g' = h
    BY <1>1, <1>5
  <2> QED
    BY <1>1, <2>3, <2>4, <2>7, <2>8, SettledIsInd, UntouchedFramed
<1> QED
  BY <1>4, <1>5

(* gpu_do_state.                                                           *)
LEMMA LoadKeeps ==
  ASSUME Settled(g), g.stop = "no", kit \in Kits, derailed \in BOOLEAN,
         LoadState, UNCHANGED kit
  PROVE  /\ IndInv'
         /\ IndFramed => IndFramed'
<1>1. PICK n \in {0, g.polyline} :
        LET s == UpdateCommandTickEvent(UpdateDmaRequest([g EXCEPT !.polyline = n]))
        IN g' = IF g.active /\ s.active
                THEN [s EXCEPT !.since = g.since, !.left = g.left, !.interval = g.interval] ELSE s
  BY DEF LoadState
<1> DEFINE o == [g EXCEPT !.polyline = n]
           d == UpdateDmaRequest(o)
           v == UpdateCommandTickEvent(d)
           w == [v EXCEPT !.since = g.since, !.left = g.left, !.interval = g.interval]
<1>2. /\ g' = (IF g.active /\ v.active THEN w ELSE v)
      /\ derailed' = (derailed \/ g'.polyline # g.polyline) /\ UNCHANGED want
  BY <1>1 DEF LoadState
<1>3. /\ g \in Shape /\ Paid(g) /\ Len(g.fifo) <= MaxFifo /\ (g.executing => g.exited)
      /\ (~g.executing => Flagged(g)) /\ g.pending <= MaxDebt
  BY DEF Settled, Afoot, Paid
<1>4. n \in 0..MaxPolyline
  <2>1. g.polyline \in 0..MaxPolyline /\ 0 \in 0..MaxPolyline
    BY <1>3, FifoAssumption DEF Shape
  <2> QED
    BY <2>1
<1>5. /\ o \in Shape /\ SameEvent(g, o) /\ o.pending = g.pending /\ o.executing = g.executing
      /\ o.fifo = g.fifo /\ o.exited = g.exited /\ o.stop = g.stop /\ o.blitter = g.blitter
      /\ o.remaining = g.remaining /\ o.shaded = g.shaded /\ o.cropped = g.cropped
      /\ o.idle = g.idle
  BY <1>3, <1>4 DEF Shape, SameEvent
<1> HIDE DEF o
<1>6. /\ d \in Shape /\ SameWork(o, d) /\ SameEvent(o, d)
      /\ d.pending = o.pending /\ d.executing = o.executing /\ d.stop = o.stop
      /\ d.request = Request(d) /\ d.idle = o.idle
  BY <1>5, RequestUpdated
<1> HIDE DEF d
<1>7. /\ v \in Shape /\ Rescheduled(d, v) /\ SameWork(d, v) /\ v.request = d.request
      /\ v.idle = d.idle /\ v.executing = d.executing /\ v.stop = d.stop
  BY <1>6, EventUpdated
<1> HIDE DEF v
<1>8. /\ v.fifo = g.fifo /\ v.exited = g.exited /\ v.blitter = g.blitter
      /\ v.remaining = g.remaining /\ v.shaded = g.shaded /\ v.cropped = g.cropped
      /\ v.executing = g.executing /\ v.stop = g.stop /\ v.idle = g.idle
      /\ v.pending = (IF g.pending <= 0 THEN 0 ELSE g.pending)
      /\ InTime(v)
  BY <1>5, <1>6, <1>7 DEF SameWork, Rescheduled
<1>9. Request(v) = v.request
  <2>1. Request(v) = Request(d)
    BY <1>6, <1>7, FlagsOf
  <2> QED
    BY <1>6, <1>7, <2>1
<1>10. g.pending \in Int /\ v.pending \in Int /\ MaxDebt \in Nat /\ Enough \in Nat
  BY <1>3, <1>7, TickAssumption DEF Shape, MaxDebt, Enough
<1>11. v.pending <= MaxDebt /\ (v.pending <= 0 <=> g.pending <= 0) /\ Len(v.fifo) <= MaxFifo
  BY <1>3, <1>8, <1>10
<1>12. ~v.executing => Flagged(v)
  <2>1. IsIdle(v) = IsIdle(g)
    BY <1>8, <1>11 DEF IsIdle
  <2> QED
    BY <1>3, <1>8, <1>9, <2>1 DEF Flagged
<1>13. /\ (v.active <=> v.pending > 0) /\ 2 * (v.since + v.left) >= v.pending
       /\ v.left >= -MaxLate /\ v.since + v.left >= 0 /\ -2 * Enough <= v.pending
  BY <1>7, <1>8, TimelyIs
<1>14. Settled(v)
  <2>1. Paid(v)
    BY <1>7, <1>11, <1>13 DEF Paid
  <2> QED
    BY <1>3, <1>8, <1>12, <2>1 DEF Settled, Afoot
<1>15. /\ w \in Shape /\ SameWork(v, w) /\ w.pending = v.pending /\ w.active = v.active
       /\ w.executing = v.executing /\ w.stop = v.stop /\ w.request = v.request
       /\ w.idle = v.idle /\ w.since = g.since /\ w.left = g.left
  <2>1. g.since \in 0..Enough /\ g.left \in Int /\ g.interval \in Nat
    BY <1>3 DEF Shape
  <2>2. w \in Shape
    BY <1>7, <2>1 DEF Shape
  <2>3. SameWork(v, w)
    BY <1>7 DEF Shape, SameWork
  <2> QED
    BY <1>7, <2>2, <2>3 DEF Shape
<1> HIDE DEF w
<1>16. w.fifo = v.fifo /\ w.exited = v.exited /\ w.polyline = v.polyline
       /\ w.blitter = v.blitter /\ w.remaining = v.remaining /\ w.shaded = v.shaded
       /\ w.cropped = v.cropped
  BY <1>15 DEF SameWork
<1>17. ASSUME g.active, v.active
       PROVE  Settled(w)
  <2>1. w.pending = g.pending
    BY <1>8, <1>10, <1>13, <1>15, <1>17
  <2>2. Flagged(v) => Flagged(w)
    <3>1. Request(w) = Request(v) /\ IsIdle(w) = IsIdle(v)
      BY <1>7, <1>15, FlagsOf
    <3> QED
      BY <1>15, <3>1 DEF Flagged
  <2>3. /\ ~w.executing /\ w.since < Enough => 2 * (w.since + w.left) >= w.pending
        /\ w.left >= -MaxLate /\ (w.since < Enough => w.since + w.left >= 0)
    BY <1>3, <1>8, <1>15, <1>17, <2>1 DEF Paid
  <2>4. (w.active <=> w.pending > 0) /\ -2 * Enough <= w.pending /\ w.pending <= MaxDebt
        /\ Len(w.fifo) <= MaxFifo
    BY <1>11, <1>13, <1>15, <1>16
  <2>5. Paid(w)
    BY <1>15, <2>3, <2>4 DEF Paid
  <2> QED
    BY <1>3, <1>8, <1>12, <1>15, <1>16, <2>2, <2>5 DEF Settled, Afoot
<1>18. Settled(g') /\ g'.stop = "no"
  <2>1. CASE g.active /\ v.active
    BY <1>2, <1>8, <1>15, <1>17, <2>1
  <2>2. CASE ~(g.active /\ v.active)
    BY <1>2, <1>8, <1>14, <2>2
  <2> QED
    BY <2>1, <2>2
<1>19. /\ g'.fifo = g.fifo /\ g'.blitter = g.blitter /\ g'.remaining = g.remaining
       /\ g'.shaded = g.shaded /\ g'.cropped = g.cropped
  BY <1>2, <1>8, <1>16
<1>20. derailed' \in BOOLEAN /\ (~derailed' => ~derailed /\ g'.polyline = g.polyline)
  BY <1>2
<1> QED
  BY <1>2, <1>18, <1>19, <1>20, SettledIsInd, UntouchedFramed

-----------------------------------------------------------------------------
(* The specification.                                                      *)

(* The machine begins settled.                                             *)
LEMMA InitInd == Init => IndInv /\ IndFramed
<1> SUFFICES ASSUME Init
             PROVE  IndInv /\ IndFramed
  OBVIOUS
<1> DEFINE z == 0
           o == 1
           s == [fifo |-> <<>>, blitter |-> "idle", total |-> z, pending |-> z,
                 remaining |-> z, unread |-> z, polyline |-> z, shaded |-> FALSE,
                 cropped |-> FALSE, direction |-> "off", request |-> FALSE, idle |-> TRUE,
                 executing |-> FALSE, active |-> FALSE, since |-> z, left |-> z,
                 interval |-> o, stop |-> "no", exited |-> FALSE]
<1>1. g = s /\ kit \in Kits /\ want = Idle0 /\ derailed = FALSE
  BY DEF Init
<1>2. /\ z \in 0..4 /\ z \in 0..2 /\ z \in Int /\ z \in 0..Enough /\ z \in 0..MaxPolyline /\ z = 0
      /\ o \in Nat /\ <<>> \in Seq(Word) /\ Len(<<>>) = 0
  BY EmptySeq, FifoAssumption, TickAssumption DEF Enough
<1> HIDE DEF z, o
<1>3. s \in Shape
  BY <1>2 DEF Shape
<1>4. /\ s.fifo = <<>> /\ s.blitter = "idle" /\ s.pending = z /\ s.polyline = z
      /\ ~s.cropped /\ s.direction = "off" /\ s.request = FALSE /\ s.idle = TRUE
      /\ ~s.executing /\ ~s.active /\ s.stop = "no"
  OBVIOUS
<1> HIDE DEF s
<1>5. Request(s) = FALSE
  BY <1>4 DEF Request
<1>6. IsIdle(s) = TRUE
  BY <1>2, <1>4 DEF IsIdle
<1>7. Paid(s)
  <2>1. Enough \in Nat /\ MaxDebt \in Nat /\ MaxFifo \in Nat
    BY TickAssumption, FifoAssumption DEF Enough, MaxDebt
  <2>2. /\ -2 * Enough <= s.pending /\ s.pending <= MaxDebt /\ Len(s.fifo) <= MaxFifo
        /\ ~(s.pending > 0)
    BY <1>2, <1>4, <2>1
  <2> QED
    BY <1>3, <1>4, <2>2 DEF Paid
<1>8. Settled(s)
  BY <1>4, <1>5, <1>6, <1>7 DEF Settled, Afoot, Flagged
<1>9. IndInv
  BY <1>1, <1>4, <1>8, IndIs
<1>10. Clean(s)
  BY <1>2, <1>4 DEF Clean
<1>11. ParseAll(Position(s), s.fifo) = Idle0
  <2>1. Position(s) = Idle0
    BY <1>4 DEF Position
  <2>2. Idle0 \in ParserState
    BY DEF Idle0, Parser, ParserState, Word
  <2> QED
    BY <1>4, <2>1, <2>2, NothingParsed
<1>12. IndFramed
  BY <1>1, <1>10, <1>11 DEF IndFramed
<1> QED
  BY <1>9, <1>12

(* Every operation keeps IndInv, and with it IndFramed.                    *)
LEMMA StepKeeps ==
  ASSUME IndInv, [Next]_vars
  PROVE  /\ IndInv'
         /\ IndFramed => IndFramed'
<1>1. Settled(g) /\ g.stop = "no" /\ kit \in Kits /\ derailed \in BOOLEAN
  BY IndIs
<1>2. CASE UNCHANGED vars
  <2>1. g' = g /\ kit' = kit /\ want' = want /\ derailed' = derailed
    BY <1>2 DEF vars
  <2> QED
    BY <1>1, <2>1, SettledIsInd, UntouchedFramed
<1>3. CASE Next
  <2>1. Step /\ UNCHANGED kit
    BY <1>3 DEF Next
  <2>2. CASE Elapse
    BY <1>1, <2>1, <2>2, ElapseInd, ElapseFramed
  <2>3. CASE LoadState
    BY <1>1, <2>1, <2>3, LoadKeeps
  <2>4. CASE \E d \in kit.directions : SetDmaDirection(d)
    BY <1>1, <2>1, <2>4, DirectionInd
  <2>5. ASSUME NEW exits \in BOOLEAN, CommandEvent(exits)
        PROVE  /\ IndInv'
               /\ IndFramed => IndFramed'
    <3>1. Keeps(exits) /\ UNCHANGED want
      BY <1>1, <2>5, EventKeeps DEF CommandEvent
    <3> QED
      BY <2>1, <3>1, KeepsInd, KeepsFramed
  <2>6. ASSUME NEW exits \in BOOLEAN, NEW w \in kit.words, WriteGp0(w, exits)
        PROVE  /\ IndInv'
               /\ IndFramed => IndFramed'
    <3>1. w \in Word
      BY <1>1, <2>6, KitAssumption
    <3>2. Acts(<<w>>, exits) /\ Follow(<<w>>)
      BY <1>1, <2>6, <3>1, WriteGp0Acts DEF WriteGp0
    <3> QED
      BY <2>1, <3>2, ActsInd, ActsFramed
  <2>7. ASSUME NEW exits \in BOOLEAN, NEW n \in 1..Block, NEW block \in [1..n -> kit.words],
               DmaWrite(block, exits)
        PROVE  /\ IndInv'
               /\ IndFramed => IndFramed'
    <3>1. block \in Seq(Word)
      <4>1. kit.words \subseteq Word
        BY <1>1, KitAssumption
      <4>2. n \in Nat
        BY <2>7, FifoAssumption
      <4>3. block \in [1..n -> Word]
        BY <2>7, <4>1
      <4> QED
        BY <4>2, <4>3, IsASeq
    <3>2. Acts(block, exits) /\ Follow(block)
      BY <1>1, <2>7, <3>1, DmaWriteActs DEF DmaWrite
    <3> QED
      BY <2>1, <3>2, ActsInd, ActsFramed
  <2>8. ASSUME NEW exits \in BOOLEAN, ReadGpuRead(exits)
        PROVE  /\ IndInv'
               /\ IndFramed => IndFramed'
    <3>1. Keeps(exits) /\ UNCHANGED want
      BY <1>1, <2>8, ReadKeeps DEF ReadGpuRead
    <3> QED
      BY <2>1, <3>1, KeepsInd, KeepsFramed
  <2>9. ASSUME NEW exits \in BOOLEAN, ReadStat(exits) \/ SetDisplayMode(exits)
        PROVE  /\ IndInv'
               /\ IndFramed => IndFramed'
    <3>1. Becomes(InvokeEarly(g, exits), exits) /\ UNCHANGED want
      BY <2>9 DEF ReadStat, SetDisplayMode
    <3>2. Keeps(exits)
      BY <1>1, <3>1, InvokeKeeps
    <3> QED
      BY <2>1, <3>1, <3>2, KeepsInd, KeepsFramed
  <2>10. ASSUME NEW exits \in BOOLEAN, ClearFifo(exits) \/ ResetGpu(exits)
         PROVE  /\ IndInv'
                /\ IndFramed => IndFramed'
    <3>1. PICK s, d : Begun(g, s) /\ Reset(s, d) /\ Resets(s, d, exits)
      BY <1>1, <2>10, ClearFifoResets, ResetGpuResets
    <3>2. IndInv'
      BY <2>1, <3>1, ResetInd
    <3>3. IndFramed => IndFramed'
      BY <3>1, ResetFramed
    <3> QED
      BY <3>2, <3>3
  <2> QED
    BY <2>1, <2>2, <2>3, <2>4, <2>5, <2>6, <2>7, <2>8, <2>9, <2>10 DEF Step
<1> QED
  BY <1>2, <1>3

(* While the request is up and no command was left in the middle, a block  *)
(* no longer than the FIFO is made for finds room.                         *)
LEMMA RoomForBlock == IndInv => BlocksFit
<1> SUFFICES ASSUME IndInv, g.request, g.direction = "in", ~g.executing,
                    NEW n \in 1..Block, ShortBlock(n)
             PROVE  Len(g.fifo) + n <= MaxFifo
  BY DEF BlocksFit
<1>1. g \in Shape /\ Request(g)
  BY IndIs DEF Settled, Afoot, Paid, Flagged
<1>2. g.fifo \in Seq(Word) /\ g.total \in Nat /\ g.total <= 4
      /\ g.blitter \in {"idle", "reading", "writing", "polyline"}
  BY <1>1 DEF Shape
<1>3. g.fifo = <<>> \/ Len(g.fifo) < g.total \/ Len(g.fifo) < FifoSize
  BY <1>1, <1>2 DEF Request, ReadyForDma
<1>4. Len(g.fifo) \in Nat /\ Len(<<>>) = 0
  BY <1>2, LenProperties, EmptySeq
<1>5. Len(g.fifo) = 0 \/ Len(g.fifo) <= 3 \/ Len(g.fifo) < FifoSize
  BY <1>2, <1>3, <1>4
<1>6. n \in Nat /\ n + FifoSize <= MaxFifo + 1 /\ n + 3 <= MaxFifo
  BY FifoAssumption DEF ShortBlock
<1> QED
  BY <1>4, <1>5, <1>6, FifoAssumption

(* The GPU's command state is one of the module's and holds no more words  *)
(* and no more debt than it can, the request line and the idle bit are     *)
(* those of the present state, the command tick event runs exactly while   *)
(* there is debt and no later than is needed to pay it, only an exit of    *)
(* the host leaves executing_commands set, and a program that heeds the    *)
(* request line finds room for its whole block, if the block is no longer  *)
(* than the FIFO is made for (gpu_execute_commands,                        *)
(* gpu_update_command_tick_event, gpu_update_dma_request).                 *)
THEOREM CommandStateAgrees == Spec => []FlagsAndEventAgree
<1>1. Init => IndInv
  BY InitInd
<1>2. IndInv /\ [Next]_vars => IndInv'
  BY StepKeeps
<1>3. IndInv => FlagsAndEventAgree
  BY RoomForBlock DEF IndInv, FlagsAndEventAgree
<1> QED
  BY <1>1, <1>2, <1>3, PTL DEF Spec

(* Words mean what they mean in the order they were sent: from where the   *)
(* GPU is, the words of its FIFO lead to where a parser of the whole       *)
(* stream is, however they were cut into writes and blocks and wherever    *)
(* the commands stopped to be paid for or were left                        *)
(* (gpu_try_execute_commands).                                             *)
THEOREM StreamIsFramed == Spec => []WordsAreFramed
<1>1. Init => IndInv /\ IndFramed
  BY InitInd
<1>2. IndInv /\ IndFramed /\ [Next]_vars => IndInv' /\ IndFramed'
  BY StepKeeps
<1>3. IndFramed => WordsAreFramed
  BY DEF IndFramed, WordsAreFramed
<1> QED
  BY <1>1, <1>2, <1>3, PTL DEF Spec

-----------------------------------------------------------------------------
(* The beam.  Numbers.                                                     *)

(* There is but one quotient and one remainder.                            *)
LEMMA Quotient ==
  ASSUME NEW q \in Nat, NEW d \in Nat \ {0}, NEW r \in 0..(d - 1)
  PROVE  (q * d + r) \div d = q /\ (q * d + r) % d = r
OBVIOUS

(* A number is its quotient and its remainder.                             *)
LEMMA Division ==
  ASSUME NEW a \in Nat, NEW d \in Nat \ {0}
  PROVE  a \div d \in Nat /\ a % d \in 0..(d - 1) /\ a = ((a \div d) * d) + (a % d)
OBVIOUS

(* Products are ordered as their factors.                                  *)
LEMMA TimesOrder ==
  ASSUME NEW a \in Int, NEW b \in Int, NEW c \in Nat, a <= b
  PROVE  a * c <= b * c
OBVIOUS

(* Products distribute over sums.                                          *)
LEMMA TimesSum ==
  ASSUME NEW a \in Nat, NEW b \in Nat, NEW c \in Nat
  PROVE  (a + b) * c = a * c + b * c /\ a * c \in Nat /\ b * c \in Nat
OBVIOUS

(* So are quotients.                                                       *)
LEMMA QuotientOrder ==
  ASSUME NEW a \in Nat, NEW b \in Nat, NEW d \in Nat \ {0}, a <= b
  PROVE  a \div d <= b \div d
OBVIOUS

(* Whole multiples come out of a quotient.                                 *)
LEMMA QuotientPlus ==
  ASSUME NEW a \in Nat, NEW q \in Nat, NEW d \in Nat \ {0}
  PROVE  (q * d + a) \div d = q + a \div d
OBVIOUS

(* A set of numbers that has 0, and with each number below n the next, has *)
(* all of them.                                                            *)
LEMMA UpTo ==
  ASSUME NEW n \in Nat, NEW G, 0 \in G,
         \A k \in 1..n : k - 1 \in G => k \in G
  PROVE  \A k \in 0..n : k \in G
<1> DEFINE T == {k \in 0..n : k \notin G}
<1> SUFFICES ASSUME T # {} PROVE FALSE
  OBVIOUS
<1>1. T \in SUBSET Nat
  OBVIOUS
<1>2. PICK k \in T : \A j \in T : k <= j
  BY <1>1, LeastNumber
<1>3. k \in 0..n /\ k \notin G
  OBVIOUS
<1>4. k \in 1..n /\ k - 1 \in 0..n /\ ~(k <= k - 1)
  BY <1>3
<1>5. k - 1 \notin T
  <2> HIDE DEF T
  <2> QED
    BY <1>2, <1>4
<1>6. k - 1 \in G
  BY <1>4, <1>5
<1> QED
  BY <1>3, <1>4, <1>6

Goes(f, s, F, n) == f[0] = s /\ \A k \in 1..n : f[k] = F[f[k - 1]]

(* A loop whose passes stay in S can be run, and stays in S.               *)
LEMMA LoopGoes ==
  ASSUME NEW n \in Nat, NEW S, NEW s \in S, NEW F \in [S -> S]
  PROVE  \E f \in [0..n -> S] : Goes(f, s, F, n)
<1> DEFINE G == {k \in Nat : \E f \in [0..k -> S] : Goes(f, s, F, k)}
<1>1. 0 \in G
  <2> DEFINE f == [k \in 0..0 |-> s]
  <2>1. f \in [0..0 -> S] /\ Goes(f, s, F, 0)
    BY DEF Goes
  <2> QED
    BY <2>1
<1>2. ASSUME NEW k \in 1..n, k - 1 \in G PROVE k \in G
  <2>1. PICK f \in [0..(k - 1) -> S] : Goes(f, s, F, k - 1)
    BY <1>2
  <2> DEFINE h == [j \in 0..k |-> IF j = k THEN F[f[k - 1]] ELSE f[j]]
  <2>2. k - 1 \in 0..(k - 1) /\ f[k - 1] \in S /\ F[f[k - 1]] \in S
    OBVIOUS
  <2>3. h \in [0..k -> S]
    <3>1. ASSUME NEW j \in 0..k, j # k PROVE f[j] \in S
      <4>1. j \in 0..(k - 1)
        BY <3>1
      <4> QED
        BY <4>1
    <3> QED
      BY <2>2, <3>1
  <2>4. h[0] = s
    BY <2>1 DEF Goes
  <2>5. ASSUME NEW j \in 1..k PROVE h[j] = F[h[j - 1]]
    <3>1. j - 1 \in 0..k /\ j - 1 # k /\ j \in 0..k
      OBVIOUS
    <3>2. h[j - 1] = f[j - 1]
      BY <3>1
    <3>3. CASE j = k
      BY <3>1, <3>2, <3>3
    <3>4. CASE j # k
      <4>1. j \in 1..(k - 1)
        BY <3>4
      <4>2. f[j] = F[f[j - 1]]
        BY <2>1, <4>1 DEF Goes
      <4> QED
        BY <3>1, <3>2, <3>4, <4>2
    <3> QED
      BY <3>3, <3>4
  <2> HIDE DEF h
  <2>6. Goes(h, s, F, k) /\ k \in Nat
    BY <2>4, <2>5 DEF Goes
  <2> QED
    BY <2>3, <2>6
<1>3. n \in 0..n
  OBVIOUS
<1> HIDE DEF G
<1>4. n \in G
  BY <1>1, <1>2, <1>3, UpTo
<1> QED
  BY <1>4 DEF G

-----------------------------------------------------------------------------
(* The lines drawn.                                                        *)

(* The sizes of a display mode and the place of a display range.           *)
LEMMA ModeFacts ==
  ASSUME NEW m \in Display
  PROVE  /\ m.htotal \in Nat \ {0} /\ m.vtotal \in Nat \ {0} /\ m.divider \in Nat \ {0}
         /\ m.astart \in Nat /\ m.aend \in Nat /\ 0 < m.aend /\ m.aend < m.htotal
<1>1. m \in [htotal : Nat, vtotal : Nat, astart : Nat, aend : Nat, divider : Nat]
  BY DisplayAssumption
<1>2. /\ m.htotal > 0 /\ m.vtotal > 0 /\ m.divider > 0
      /\ 0 < m.astart /\ m.astart < m.aend /\ m.aend < m.htotal
  BY DisplayAssumption
<1> QED
  BY <1>1, <1>2

(* A display range is inside the frame of each mode.                       *)
LEMMA RangeFacts ==
  ASSUME NEW r \in Ranges, NEW m \in Display
  PROVE  r.start \in Nat /\ r.end \in Nat /\ r.start <= m.vtotal /\ r.end <= m.vtotal
<1>1. r \in [start : Nat, end : Nat]
  BY DisplayAssumption
<1>2. r.start \in 0..m.vtotal /\ r.end \in 0..m.vtotal
  BY DisplayAssumption
<1> QED
  BY <1>1, <1>2, ModeFacts

Beams(m) == [line : 0..(m.vtotal - 1), due : Nat, vblank : BOOLEAN, edges : Nat]

(* A display with a blank before it.                                       *)
Proper(r) == 0 < r.start /\ r.start < r.end

(* The end of the display has been passed in this frame.                   *)
Past(l, r) == IF l >= r.end THEN 1 ELSE 0

(* The pass from b to c ends w frames and raises the vertical blank as     *)
(* often as the end of the display is passed.                              *)
DrawsTo(b, c, w, m, r) ==
  /\ c \in Beams(m) /\ c.due < b.due
  /\ b.line + (b.due - c.due) = w * m.vtotal + c.line
  /\ Proper(r) /\ b.vblank = Blank(b.line, r) =>
       /\ c.vblank = Blank(c.line, r)
       /\ c.edges = (b.edges + w + Past(c.line, r)) - Past(b.line, r)

(* One pass of the loop in gpu_crtc_tick_event.                            *)
LEMMA PassDraws ==
  ASSUME NEW m \in Display, NEW r \in Ranges, NEW b \in Beams(m), b.due # 0
  PROVE  \E w \in 0..1 : DrawsTo(b, DrawLines(b, m, r), w, m, r)
<1> DEFINE n == Lower(b.due, m.vtotal - b.line)
           p == b.line < r.start /\ b.line + n >= r.end
           c == Drawn(b, n, m, r, p)
<1>1. DrawLines(b, m, r) = c
  BY DEF DrawLines
<1>2. /\ m.vtotal \in Nat \ {0}
      /\ r.start \in Nat /\ r.end \in Nat /\ r.start <= m.vtotal /\ r.end <= m.vtotal
  BY ModeFacts, RangeFacts
<1>3. b.line \in 0..(m.vtotal - 1) /\ b.due \in Nat /\ b.vblank \in BOOLEAN /\ b.edges \in Nat
  BY DEF Beams
<1>4. n \in Nat /\ n > 0 /\ n <= b.due /\ b.line + n <= m.vtotal
  BY <1>2, <1>3 DEF Lower
<1>5. /\ c.line = (b.line + n) % m.vtotal /\ c.due = b.due - n
      /\ c.vblank = Blank(b.line + n, r)
      /\ c.edges = b.edges + (IF Blank(b.line + n, r) /\ (p \/ ~b.vblank) THEN 1 ELSE 0)
  BY DEF Drawn
<1>6. c \in Beams(m)
  <2>1. (b.line + n) % m.vtotal \in 0..(m.vtotal - 1)
    BY <1>2, <1>3, <1>4
  <2>2. b.due - n \in Nat
    BY <1>3, <1>4
  <2>3. Blank(b.line + n, r) \in BOOLEAN
    BY DEF Blank
  <2>4. b.edges + (IF Blank(b.line + n, r) /\ (p \/ ~b.vblank) THEN 1 ELSE 0) \in Nat
    BY <1>3
  <2> QED
    BY <2>1, <2>2, <2>3, <2>4 DEF Beams, Drawn
<1> DEFINE w == IF b.line + n = m.vtotal THEN 1 ELSE 0
<1>7. b.line + n = w * m.vtotal + c.line
  <2>1. CASE b.line + n = m.vtotal
    <3>1. 0 \in 0..(m.vtotal - 1) /\ b.line + n = 1 * m.vtotal + 0
      BY <1>2, <2>1
    <3>2. (1 * m.vtotal + 0) % m.vtotal = 0
      BY <1>2, <3>1, Quotient
    <3> QED
      BY <1>2, <1>5, <2>1, <3>1, <3>2
  <2>2. CASE b.line + n # m.vtotal
    <3>1. b.line + n \in 0..(m.vtotal - 1) /\ b.line + n = 0 * m.vtotal + (b.line + n)
      BY <1>2, <1>3, <1>4, <2>2
    <3>2. (b.line + n) % m.vtotal = b.line + n
      BY <1>2, <3>1, Quotient
    <3> QED
      BY <1>2, <1>5, <2>2, <3>1, <3>2
  <2> QED
    BY <2>1, <2>2
<1>8. ASSUME Proper(r), b.vblank = Blank(b.line, r)
      PROVE  /\ c.vblank = Blank(c.line, r)
             /\ c.edges = (b.edges + w + Past(c.line, r)) - Past(b.line, r)
  <2>0. b.vblank <=> (b.line < r.start \/ b.line >= r.end)
    BY <1>8, Zenon DEF Blank
  <2> HIDE DEF c, n
  <2>1. CASE b.line + n = m.vtotal
    <3>1. c.line = 0 /\ w = 1
      <4>1. w = 1 /\ m.vtotal = 1 * m.vtotal + c.line
        BY <1>7, <2>1
      <4>2. c.line \in 0..(m.vtotal - 1)
        BY <1>6 DEF Beams
      <4> QED
        BY <1>2, <4>1, <4>2
    <3>2. Blank(c.line, r) /\ Blank(b.line + n, r)
      BY <1>2, <1>8, <2>1, <3>1 DEF Blank, Proper
    <3>3. Past(c.line, r) = 0
      BY <1>2, <1>8, <3>1 DEF Past, Proper
    <3>4. (p \/ ~b.vblank) <=> b.line < r.end
      BY <1>2, <1>3, <1>4, <1>8, <2>0, <2>1 DEF Proper
    <3>5. c.edges = b.edges + (IF b.line < r.end THEN 1 ELSE 0)
      BY <1>5, <3>2, <3>4
    <3>6. c.edges = (b.edges + 1 + 0) - Past(b.line, r)
      BY <1>2, <1>3, <3>5 DEF Past
    <3> QED
      BY <1>5, <3>1, <3>2, <3>3, <3>6
  <2>2. CASE b.line + n # m.vtotal
    <3>1. c.line = b.line + n /\ w = 0
      <4>1. w = 0 /\ b.line + n = 0 * m.vtotal + c.line
        BY <1>7, <2>2
      <4>2. c.line \in 0..(m.vtotal - 1)
        BY <1>6 DEF Beams
      <4> QED
        BY <1>2, <4>1, <4>2
    <3>2. (Blank(b.line + n, r) /\ (p \/ ~b.vblank)) <=> (b.line < r.end /\ b.line + n >= r.end)
      <4>1. Blank(b.line + n, r) <=> (b.line + n < r.start \/ b.line + n >= r.end)
        BY DEF Blank
      <4>2. p <=> (b.line < r.start /\ b.line + n >= r.end)
        OBVIOUS
      <4> HIDE DEF p
      <4> QED
        BY <1>2, <1>3, <1>4, <1>8, <2>0, <4>1, <4>2 DEF Proper
    <3>3. c.edges = b.edges + (IF b.line < r.end /\ b.line + n >= r.end THEN 1 ELSE 0)
      BY <1>5, <3>2
    <3>4. c.edges = (b.edges + 0 + Past(b.line + n, r)) - Past(b.line, r)
      BY <1>2, <1>3, <1>4, <3>3 DEF Past
    <3> QED
      BY <1>5, <3>1, <3>4
  <2> QED
    BY <2>1, <2>2
<1>9. w \in 0..1 /\ c.due < b.due /\ b.due - c.due = n
  BY <1>3, <1>4, <1>5
<1> HIDE DEF c, w, n
<1>10. DrawsTo(b, c, w, m, r)
  BY <1>6, <1>7, <1>8, <1>9 DEF DrawsTo
<1> QED
  BY <1>1, <1>9, <1>10

(* The beam b is that of l after the lines that are no longer due of n,    *)
(* with w ends of frames on the way.                                       *)
DrawnSo(b, w, l, v, n, m, r) ==
  /\ l + (n - b.due) = w * m.vtotal + b.line
  /\ Proper(r) /\ v = Blank(l, r) =>
       /\ b.vblank = Blank(b.line, r)
       /\ b.edges = (w + Past(b.line, r)) - Past(l, r)

(* A pass goes on from where the passes before it have got to.             *)
LEMMA PassGoesOn ==
  ASSUME NEW m \in Display, NEW r \in Ranges, NEW b \in Beams(m), b.due # 0,
         NEW l \in 0..(m.vtotal - 1), NEW v \in BOOLEAN, NEW n \in Nat, NEW w \in Nat,
         DrawnSo(b, w, l, v, n, m, r)
  PROVE  /\ DrawLines(b, m, r) \in Beams(m) /\ DrawLines(b, m, r).due < b.due
         /\ \E u \in Nat : DrawnSo(DrawLines(b, m, r), u, l, v, n, m, r)
<1> DEFINE c == DrawLines(b, m, r)
<1>1. PICK x \in 0..1 : DrawsTo(b, c, x, m, r)
  BY PassDraws
<1> HIDE DEF c
<1>2. c \in Beams(m) /\ c.due < b.due
  BY <1>1 DEF DrawsTo
<1>3. /\ m.vtotal \in Nat /\ b.due \in Nat /\ c.due \in Nat /\ b.line \in Nat /\ c.line \in Nat
      /\ b.edges \in Nat /\ c.edges \in Nat
  BY <1>2, ModeFacts DEF Beams
<1>4. l + (n - c.due) = (w + x) * m.vtotal + c.line
  <2>1. b.line + (b.due - c.due) = x * m.vtotal + c.line
    BY <1>1 DEF DrawsTo
  <2>2. l + (n - b.due) = w * m.vtotal + b.line
    BY DEF DrawnSo
  <2>3. (w + x) * m.vtotal = w * m.vtotal + x * m.vtotal
    BY <1>3
  <2>4. w * m.vtotal \in Nat /\ x * m.vtotal \in Nat
    BY <1>3
  <2>5. (w + x) * m.vtotal \in Nat /\ l \in Nat
    BY <1>3
  <2> DEFINE W == w * m.vtotal
             X == x * m.vtotal
             Y == (w + x) * m.vtotal
  <2>6. /\ l \in Nat /\ W \in Nat /\ X \in Nat /\ Y \in Nat /\ Y = W + X
        /\ b.line + (b.due - c.due) = X + c.line /\ l + (n - b.due) = W + b.line
    BY <2>1, <2>2, <2>3, <2>4, <2>5
  <2> HIDE DEF W, X, Y
  <2>7. l + (n - c.due) = Y + c.line
    BY <1>3, <2>6
  <2> QED
    BY <2>7 DEF Y
<1>5. ASSUME Proper(r), v = Blank(l, r)
      PROVE  c.vblank = Blank(c.line, r) /\ c.edges = (w + x + Past(c.line, r)) - Past(l, r)
  <2>1. b.vblank = Blank(b.line, r) /\ b.edges = (w + Past(b.line, r)) - Past(l, r)
    BY <1>5 DEF DrawnSo
  <2>2. c.vblank = Blank(c.line, r) /\ c.edges = (b.edges + x + Past(c.line, r)) - Past(b.line, r)
    BY <1>1, <1>5, <2>1 DEF DrawsTo
  <2>3. Past(c.line, r) \in 0..1 /\ Past(b.line, r) \in 0..1 /\ Past(l, r) \in 0..1
    BY DEF Past
  <2> QED
    BY <1>3, <2>1, <2>2, <2>3
<1>6. w + x \in Nat /\ DrawnSo(c, w + x, l, v, n, m, r)
  BY <1>4, <1>5 DEF DrawnSo
<1> QED
  BY <1>2, <1>6 DEF c

(* The loop draws all the lines that are due: it counts the ends of frames *)
(* and raises the vertical blank at each end of the display.               *)
LEMMA AllDrawn ==
  ASSUME NEW m \in Display, NEW r \in Ranges,
         NEW l \in 0..(m.vtotal - 1), NEW v \in BOOLEAN, NEW n \in Nat
  PROVE  LET d == DrawAll([line |-> l, due |-> n, vblank |-> v, edges |-> 0], m, r)
         IN /\ d \in Beams(m) /\ d.due = 0
            /\ \E w \in Nat : DrawnSo(d, w, l, v, n, m, r)
<1> DEFINE b == [line |-> l, due |-> n, vblank |-> v, edges |-> 0]
           F == [c \in Beams(m) |-> IF c.due = 0 THEN c ELSE DrawLines(c, m, r)]
<1>1. b \in Beams(m)
  BY DEF Beams
<1>2. F \in [Beams(m) -> Beams(m)]
  <2>1. ASSUME NEW c \in Beams(m), c.due # 0 PROVE DrawLines(c, m, r) \in Beams(m)
    BY <2>1, PassDraws DEF DrawsTo
  <2> QED
    BY <2>1
<1>3. PICK h \in [0..n -> Beams(m)] : Goes(h, b, F, n)
  <2> HIDE DEF b, F
  <2> QED
    BY <1>1, <1>2, LoopGoes
<1>4. h = [k \in 0..n |-> IF k = 0 THEN b ELSE DrawLines(h[k - 1], m, r)]
  <2>1. ASSUME NEW k \in 0..n
        PROVE  h[k] = IF k = 0 THEN b ELSE DrawLines(h[k - 1], m, r)
    <3>1. CASE k = 0
      BY <1>3, <3>1 DEF Goes
    <3>2. CASE k # 0
      <4>1. k \in 1..n /\ k - 1 \in 0..n
        BY <3>2
      <4>2. h[k - 1] \in Beams(m) /\ h[k] = F[h[k - 1]]
        BY <1>3, <4>1 DEF Goes
      <4>3. h[k - 1].due = 0 => DrawLines(h[k - 1], m, r) = h[k - 1]
        BY DEF DrawLines
      <4> QED
        BY <3>2, <4>2, <4>3
    <3> QED
      BY <3>1, <3>2
  <2>2. h = [k \in 0..n |-> h[k]]
    OBVIOUS
  <2> HIDE DEF b, F
  <2> QED
    BY <2>1, <2>2, Zenon
<1> DEFINE f == CHOOSE f : f = [k \in 0..n |-> IF k = 0 THEN b ELSE DrawLines(f[k - 1], m, r)]
<1>5. DrawAll(b, m, r) = f[n]
  <2>1. b.due = n
    OBVIOUS
  <2> HIDE DEF b
  <2> QED
    BY <2>1 DEF DrawAll
<1> HIDE DEF b
<1>6. f = [k \in 0..n |-> IF k = 0 THEN b ELSE DrawLines(f[k - 1], m, r)]
  BY <1>4
<1> HIDE DEF f, F
<1> DEFINE G == {k \in 0..n : /\ f[k] \in Beams(m) /\ f[k].due <= n - k
                              /\ \E w \in Nat : DrawnSo(f[k], w, l, v, n, m, r)}
<1>7. 0 \in G
  <2>1. 0 \in 0..n /\ f[0] = b
    BY <1>6
  <2>2. b.due = n /\ b.line = l /\ b.vblank = v /\ b.edges = 0
    BY DEF b
  <2>3. DrawnSo(b, 0, l, v, n, m, r)
    <3>1. l + (n - n) = 0 * m.vtotal + l
      BY ModeFacts
    <3>2. 0 = (0 + Past(l, r)) - Past(l, r)
      BY DEF Past
    <3> QED
      BY <2>2, <3>1, <3>2 DEF DrawnSo
  <2> QED
    BY <1>1, <2>1, <2>2, <2>3
<1>8. ASSUME NEW k \in 1..n, k - 1 \in G PROVE k \in G
  <2>1. k \in 0..n /\ k # 0 /\ f[k] = DrawLines(f[k - 1], m, r)
    BY <1>6
  <2>2. PICK w \in Nat : DrawnSo(f[k - 1], w, l, v, n, m, r)
    BY <1>8
  <2>3. f[k - 1] \in Beams(m) /\ f[k - 1].due <= n - (k - 1)
    BY <1>8
  <2>4. CASE f[k - 1].due = 0
    <3>1. f[k] = f[k - 1]
      BY <2>1, <2>4 DEF DrawLines
    <3> QED
      BY <2>1, <2>2, <2>3, <2>4, <3>1
  <2>5. CASE f[k - 1].due # 0
    <3>1. /\ f[k] \in Beams(m) /\ f[k].due < f[k - 1].due
          /\ \E u \in Nat : DrawnSo(f[k], u, l, v, n, m, r)
      BY <2>1, <2>2, <2>3, <2>5, PassGoesOn
    <3>2. f[k].due \in Nat /\ f[k - 1].due \in Nat
      BY <2>3, <3>1 DEF Beams
    <3>3. f[k].due <= n - k
      BY <2>3, <3>1, <3>2
    <3> QED
      BY <2>1, <3>1, <3>3
  <2> QED
    BY <2>4, <2>5
<1>9. n \in G
  <2>1. n \in 0..n
    OBVIOUS
  <2> HIDE DEF G
  <2> QED
    BY <1>7, <1>8, <2>1, UpTo
<1>10. f[n] \in Beams(m) /\ f[n].due <= n - n /\ \E w \in Nat : DrawnSo(f[n], w, l, v, n, m, r)
  BY <1>9
<1>11. f[n].due = 0
  BY <1>10 DEF Beams
<1> QED
  BY <1>5, <1>10, <1>11 DEF b

-----------------------------------------------------------------------------
(* The beam one video tick at a time.                                      *)

(* The number of times the end of the active display has been passed on    *)
(* a line.                                                                 *)
Shown(tick, m) == IF tick >= m.aend THEN 1 ELSE 0

(* b is t ticks on from c: u lines, and w frames.                          *)
WalkedSo(b, u, w, t, c, m, r) ==
  /\ b.tick \in 0..(m.htotal - 1) /\ b.line \in 0..(m.vtotal - 1)
  /\ c.tick + t = u * m.htotal + b.tick
  /\ c.line + u = w * m.vtotal + b.line
  /\ b.dots = c.dotfrac + t
  /\ b.lines = (u + Shown(b.tick, m)) - Shown(c.tick, m)
  /\ b.starts \in Nat /\ b.ends \in Nat
  /\ Proper(r) => b.starts = (w + Past(b.line, r)) - Past(c.line, r)

(* No edge of the blank before the line that the event is put at.          *)
EdgeSo(b, u, c, m, r) ==
  /\ b.starts > 0 => u >= LinesToEdge(c, m, r, FALSE) /\ r.start < r.end
  /\ b.starts + b.ends > 0 /\ c.line >= r.start => u >= LinesToEdge(c, m, r, TRUE)

Walked(b, t, c, m, r) == \E u, w \in Nat : WalkedSo(b, u, w, t, c, m, r) /\ EdgeSo(b, u, c, m, r)

(* Where the beam is.                                                      *)
Crtcs(m) == [line : 0..(m.vtotal - 1), tick : 0..(m.htotal - 1), frac : 0..(Den - 1),
             dotfrac : Nat, vblank : BOOLEAN]

(* A tick within a line.                                                   *)
LEMMA TickWalks ==
  ASSUME mode \in Display, range \in Ranges, NEW c \in Crtcs(mode), NEW t \in Nat, NEW b,
         NEW u \in Nat, NEW w \in Nat,
         WalkedSo(b, u, w, t, c, mode, range), EdgeSo(b, u, c, mode, range),
         b.tick + 1 # mode.htotal
  PROVE  /\ WalkedSo(BeamStep(b), u, w, t + 1, c, mode, range)
         /\ EdgeSo(BeamStep(b), u, c, mode, range)
<1> DEFINE s == BeamStep(b)
<1>1. /\ mode.htotal \in Nat /\ mode.vtotal \in Nat /\ mode.aend \in Nat
      /\ c.tick \in Nat /\ c.line \in Nat /\ c.dotfrac \in Nat
  BY ModeFacts DEF Crtcs
<1>2. /\ b.tick \in 0..(mode.htotal - 1) /\ b.line \in 0..(mode.vtotal - 1)
      /\ b.starts \in Nat /\ b.ends \in Nat /\ b.dots \in Nat
  BY <1>1 DEF WalkedSo
<1>3. /\ s.tick = b.tick + 1 /\ s.line = b.line /\ s.dots = b.dots + 1
      /\ s.lines = b.lines + (IF b.tick + 1 = mode.aend THEN 1 ELSE 0)
      /\ s.starts = b.starts + (IF ~Blank(b.line, range) /\ Blank(b.line, range) THEN 1 ELSE 0)
      /\ s.ends = b.ends + (IF Blank(b.line, range) /\ ~Blank(b.line, range) THEN 1 ELSE 0)
  BY DEF BeamStep
<1>4. s.starts = b.starts /\ s.ends = b.ends
  BY <1>2, <1>3
<1> HIDE DEF s
<1>5. s.tick \in 0..(mode.htotal - 1) /\ c.tick + (t + 1) = u * mode.htotal + s.tick
  <2>1. c.tick + t = u * mode.htotal + b.tick /\ u * mode.htotal \in Nat
    BY <1>1 DEF WalkedSo
  <2> QED
    BY <1>1, <1>2, <1>3, <2>1
<1>6. s.dots = c.dotfrac + (t + 1)
  <2>1. b.dots = c.dotfrac + t
    BY DEF WalkedSo
  <2> QED
    BY <1>1, <1>3, <2>1
<1>7. s.lines = (u + Shown(s.tick, mode)) - Shown(c.tick, mode)
  <2>1. b.lines = (u + Shown(b.tick, mode)) - Shown(c.tick, mode)
    BY DEF WalkedSo
  <2>2. Shown(c.tick, mode) \in 0..1
    BY DEF Shown
  <2>3. Shown(b.tick + 1, mode) = Shown(b.tick, mode) + (IF b.tick + 1 = mode.aend THEN 1 ELSE 0)
    BY <1>1, <1>2 DEF Shown
  <2>4. Shown(b.tick, mode) \in 0..1
    BY DEF Shown
  <2> QED
    BY <1>3, <2>1, <2>2, <2>3, <2>4
<1>8. WalkedSo(s, u, w, t + 1, c, mode, range)
  <2>1. c.line + u = w * mode.vtotal + s.line /\ s.line \in 0..(mode.vtotal - 1)
    BY <1>2, <1>3 DEF WalkedSo
  <2>2. Proper(range) => s.starts = (w + Past(s.line, range)) - Past(c.line, range)
    BY <1>3, <1>4 DEF WalkedSo
  <2> QED
    BY <1>2, <1>4, <1>5, <1>6, <1>7, <2>1, <2>2 DEF WalkedSo
<1>9. EdgeSo(s, u, c, mode, range)
  BY <1>4 DEF EdgeSo
<1> QED
  BY <1>8, <1>9 DEF s

(* The line after l.                                                       *)
NextLine(l, m) == IF l + 1 = m.vtotal THEN 0 ELSE l + 1

(* The display is entered and left only at its start and its end.          *)
LEMMA LineEdges ==
  ASSUME NEW m \in Display, NEW r \in Ranges, NEW l \in 0..(m.vtotal - 1)
  PROVE  /\ (l + 1) % m.vtotal = NextLine(l, m)
         /\ ~Blank(l, r) /\ Blank(NextLine(l, m), r) =>
              r.start <= l /\ l < r.end /\ r.end <= l + 1
         /\ Blank(l, r) /\ ~Blank(NextLine(l, m), r) =>
              /\ l < r.start \/ l >= r.end
              /\ r.start <= NextLine(l, m) /\ NextLine(l, m) < r.end
         /\ Proper(r) => ((~Blank(l, r) /\ Blank(NextLine(l, m), r)) <=> l + 1 = r.end)
<1>1. /\ m.vtotal \in Nat \ {0}
      /\ r.start \in Nat /\ r.end \in Nat /\ r.start <= m.vtotal /\ r.end <= m.vtotal
  BY ModeFacts, RangeFacts
<1>2. (l + 1) % m.vtotal = NextLine(l, m)
  <2>1. CASE l + 1 = m.vtotal
    <3>1. l + 1 = 1 * m.vtotal + 0 /\ 0 \in 0..(m.vtotal - 1)
      BY <1>1, <2>1
    <3>2. (1 * m.vtotal + 0) % m.vtotal = 0
      BY <1>1, <3>1, Quotient
    <3> QED
      BY <2>1, <3>1, <3>2 DEF NextLine
  <2>2. CASE l + 1 # m.vtotal
    <3>1. l + 1 = 0 * m.vtotal + (l + 1) /\ l + 1 \in 0..(m.vtotal - 1)
      BY <1>1, <2>2
    <3>2. (0 * m.vtotal + (l + 1)) % m.vtotal = l + 1
      BY <1>1, <3>1, Quotient
    <3> QED
      BY <2>2, <3>1, <3>2 DEF NextLine
  <2> QED
    BY <2>1, <2>2
<1> QED
  BY <1>1, <1>2 DEF Blank, NextLine, Proper

(* The end of the display is not passed before the line that the event is  *)
(* put at, nor is any of its ends with timer 1 synchronised.               *)
LEMMA LineReached ==
  ASSUME NEW m \in Display, NEW r \in Ranges, NEW c \in Crtcs(m), NEW l \in 0..(m.vtotal - 1),
         NEW u \in Nat, NEW W \in Nat, W = 0 \/ W >= m.vtotal, c.line + u = W + l
  PROVE  /\ ~Blank(l, r) /\ Blank(NextLine(l, m), r) =>
              /\ u + 1 >= LinesToEdge(c, m, r, FALSE) /\ r.start < r.end
              /\ c.line >= r.start => u + 1 >= LinesToEdge(c, m, r, TRUE)
         /\ Blank(l, r) /\ ~Blank(NextLine(l, m), r) /\ c.line >= r.start =>
              u + 1 >= LinesToEdge(c, m, r, TRUE)
<1>1. /\ m.vtotal \in Nat \ {0} /\ c.line \in 0..(m.vtotal - 1)
      /\ r.start \in Nat /\ r.end \in Nat /\ r.start <= m.vtotal /\ r.end <= m.vtotal
  BY ModeFacts, RangeFacts DEF Crtcs
<1>2. ASSUME ~Blank(l, r), Blank(NextLine(l, m), r)
      PROVE  /\ u + 1 >= LinesToEdge(c, m, r, FALSE) /\ r.start < r.end
             /\ u + 1 >= LinesToEdge(c, m, r, TRUE)
  <2>1. r.start <= l /\ l < r.end /\ r.end <= l + 1
    BY <1>2, LineEdges
  <2> QED
    BY <1>1, <2>1 DEF LinesToEdge
<1>3. ASSUME Blank(l, r), ~Blank(NextLine(l, m), r), c.line >= r.start
      PROVE  u + 1 >= LinesToEdge(c, m, r, TRUE)
  <2>1. /\ l < r.start \/ l >= r.end
        /\ r.start <= NextLine(l, m) /\ NextLine(l, m) < r.end
    BY <1>3, LineEdges
  <2> QED
    BY <1>1, <1>3, <2>1 DEF LinesToEdge, NextLine
<1> QED
  BY <1>2, <1>3

(* The last tick of a line.                                                *)
LEMMA LineWalks ==
  ASSUME mode \in Display, range \in Ranges, NEW c \in Crtcs(mode), NEW t \in Nat, NEW b,
         NEW u \in Nat, NEW w \in Nat,
         WalkedSo(b, u, w, t, c, mode, range), EdgeSo(b, u, c, mode, range),
         b.tick + 1 = mode.htotal
  PROVE  Walked(BeamStep(b), t + 1, c, mode, range)
<1> DEFINE s == BeamStep(b)
           k == NextLine(b.line, mode)
           x == IF b.line + 1 = mode.vtotal THEN 1 ELSE 0
           W == w * mode.vtotal
<1>1. /\ mode.htotal \in Nat \ {0} /\ mode.vtotal \in Nat \ {0} /\ mode.aend \in Nat
      /\ 0 < mode.aend /\ mode.aend < mode.htotal
      /\ c.tick \in Nat /\ c.line \in Nat /\ c.dotfrac \in Nat
  BY ModeFacts DEF Crtcs
<1>2. /\ b.tick \in 0..(mode.htotal - 1) /\ b.line \in 0..(mode.vtotal - 1)
      /\ b.starts \in Nat /\ b.ends \in Nat /\ b.dots \in Nat
  BY <1>1 DEF WalkedSo
<1>3. (b.line + 1) % mode.vtotal = k
  BY <1>2, LineEdges
<1>4. /\ s.tick = 0 /\ s.line = k /\ s.dots = b.dots + 1
      /\ s.lines = b.lines + (IF b.tick + 1 = mode.aend THEN 1 ELSE 0)
      /\ s.starts = b.starts + (IF ~Blank(b.line, range) /\ Blank(k, range) THEN 1 ELSE 0)
      /\ s.ends = b.ends + (IF Blank(b.line, range) /\ ~Blank(k, range) THEN 1 ELSE 0)
  BY <1>3 DEF BeamStep
<1> HIDE DEF s
<1>5. c.tick + (t + 1) = (u + 1) * mode.htotal + 0
  <2>1. c.tick + t = u * mode.htotal + b.tick
    BY DEF WalkedSo
  <2>2. /\ (u + 1) * mode.htotal = u * mode.htotal + 1 * mode.htotal
        /\ u * mode.htotal \in Nat /\ 1 * mode.htotal = mode.htotal
    BY <1>1, TimesSum
  <2> DEFINE U == u * mode.htotal
             V == (u + 1) * mode.htotal
  <2>3. /\ c.tick + t = U + b.tick /\ V = U + mode.htotal /\ U \in Nat
        /\ b.tick + 1 = mode.htotal /\ b.tick \in Nat
    BY <1>1, <1>2, <2>1, <2>2
  <2> HIDE DEF U, V
  <2>4. c.tick + (t + 1) = V + 0
    BY <1>1, <2>3
  <2> QED
    BY <2>4 DEF V
<1>6. k \in 0..(mode.vtotal - 1) /\ b.line + 1 = x * mode.vtotal + k /\ x \in 0..1
  BY <1>1, <1>2 DEF NextLine
<1>7. /\ W \in Nat /\ (W = 0 \/ W >= mode.vtotal) /\ c.line + u = W + b.line
      /\ (w + x) * mode.vtotal = W + x * mode.vtotal
  <2>1. c.line + u = W + b.line
    BY DEF WalkedSo
  <2>2. W \in Nat /\ (w + x) * mode.vtotal = W + x * mode.vtotal
    BY <1>1, <1>6
  <2>3. w = 0 => W = 0
    BY <1>1
  <2>4. w # 0 => W >= mode.vtotal
    BY <1>1
  <2> QED
    BY <2>1, <2>2, <2>3, <2>4
<1> HIDE DEF W
<1>8. c.line + (u + 1) = (w + x) * mode.vtotal + k
  <2> DEFINE X == x * mode.vtotal
             Y == (w + x) * mode.vtotal
  <2>1. /\ Y = W + X /\ b.line + 1 = X + k /\ X \in Nat
        /\ W \in Nat /\ c.line + u = W + b.line /\ k \in Nat
    BY <1>1, <1>6, <1>7
  <2>3. b.line \in Nat
    BY <1>1, <1>2
  <2> HIDE DEF X, Y, k, x
  <2>2. c.line + (u + 1) = Y + k
    BY <1>1, <2>1, <2>3
  <2> QED
    BY <2>2 DEF Y
<1>9. s.dots = c.dotfrac + (t + 1)
  <2>1. b.dots = c.dotfrac + t
    BY DEF WalkedSo
  <2> QED
    BY <1>1, <1>4, <2>1
<1>10. s.lines = (u + 1 + Shown(0, mode)) - Shown(c.tick, mode)
  <2>1. b.lines = (u + Shown(b.tick, mode)) - Shown(c.tick, mode)
    BY DEF WalkedSo
  <2>2. Shown(c.tick, mode) \in 0..1
    BY DEF Shown
  <2>3. Shown(b.tick, mode) = 1 /\ Shown(0, mode) = 0 /\ b.tick + 1 # mode.aend
    BY <1>1, <1>2 DEF Shown
  <2> QED
    BY <1>4, <2>1, <2>2, <2>3
<1>11. s.starts \in Nat /\ s.ends \in Nat
  BY <1>2, <1>4
<1>12. ASSUME Proper(range)
       PROVE  s.starts = (w + x + Past(k, range)) - Past(c.line, range)
  <2>1. b.starts = (w + Past(b.line, range)) - Past(c.line, range)
    BY <1>12 DEF WalkedSo
  <2>2. s.starts = b.starts + (IF b.line + 1 = range.end THEN 1 ELSE 0)
    BY <1>2, <1>4, <1>12, LineEdges
  <2>3. Past(c.line, range) \in 0..1
    BY DEF Past
  <2>4. x + Past(k, range) = Past(b.line, range) + (IF b.line + 1 = range.end THEN 1 ELSE 0)
    <3>1. range.end \in Nat /\ range.end > 0 /\ range.end <= mode.vtotal
      BY <1>12, RangeFacts DEF Proper
    <3> QED
      BY <1>1, <1>2, <3>1 DEF Past, NextLine
  <2>5. Past(b.line, range) \in 0..1 /\ Past(k, range) \in 0..1
    BY DEF Past
  <2> QED
    BY <1>6, <2>1, <2>2, <2>3, <2>4, <2>5
<1>13. WalkedSo(s, u + 1, w + x, t + 1, c, mode, range)
  <2>1. 0 \in 0..(mode.htotal - 1)
    BY <1>1
  <2> QED
    BY <1>4, <1>5, <1>6, <1>8, <1>9, <1>10, <1>11, <1>12, <2>1 DEF WalkedSo
<1>14. EdgeSo(s, u + 1, c, mode, range)
  <2>1. /\ ~Blank(b.line, range) /\ Blank(k, range) =>
             /\ u + 1 >= LinesToEdge(c, mode, range, FALSE) /\ range.start < range.end
             /\ c.line >= range.start => u + 1 >= LinesToEdge(c, mode, range, TRUE)
        /\ Blank(b.line, range) /\ ~Blank(k, range) /\ c.line >= range.start =>
             u + 1 >= LinesToEdge(c, mode, range, TRUE)
    BY <1>2, <1>7, LineReached
  <2>2. /\ LinesToEdge(c, mode, range, FALSE) \in Int /\ LinesToEdge(c, mode, range, TRUE) \in Int
    BY <1>1, RangeFacts DEF LinesToEdge
  <2>3. /\ b.starts > 0 => u >= LinesToEdge(c, mode, range, FALSE) /\ range.start < range.end
        /\ b.starts + b.ends > 0 /\ c.line >= range.start => u >= LinesToEdge(c, mode, range, TRUE)
    BY DEF EdgeSo
  <2> DEFINE E == LinesToEdge(c, mode, range, FALSE)
             G == LinesToEdge(c, mode, range, TRUE)
  <2>6. /\ u + 1 >= E /\ range.start < range.end =>
             u + 1 >= LinesToEdge(c, mode, range, FALSE) /\ range.start < range.end
        /\ u + 1 >= G => u + 1 >= LinesToEdge(c, mode, range, TRUE)
    OBVIOUS
  <2>7. E \in Int /\ G \in Int
    BY <2>2
  <2>8. /\ b.starts > 0 => u >= E /\ range.start < range.end
        /\ b.starts + b.ends > 0 /\ c.line >= range.start => u >= G
    BY <2>3
  <2> HIDE DEF k, E, G
  <2>4. ASSUME s.starts > 0
        PROVE  u + 1 >= LinesToEdge(c, mode, range, FALSE) /\ range.start < range.end
    <3>1. CASE ~Blank(b.line, range) /\ Blank(k, range)
      BY <2>1, <3>1
    <3>2. CASE ~(~Blank(b.line, range) /\ Blank(k, range))
      <4>2. (IF ~Blank(b.line, range) /\ Blank(k, range) THEN 1 ELSE 0) = 0
        BY <3>2, Zenon
      <4>0. s.starts = b.starts + 0
        BY <1>4, <4>2, Zenon
      <4>1. b.starts > 0
        BY <1>2, <2>4, <4>0
      <4>3. u + 1 >= E /\ range.start < range.end
        BY <2>7, <2>8, <4>1
      <4> QED
        BY <2>6, <4>3
    <3> QED
      BY <3>1, <3>2
  <2>5. ASSUME s.starts + s.ends > 0, c.line >= range.start
        PROVE  u + 1 >= LinesToEdge(c, mode, range, TRUE)
    <3>1. CASE \/ ~Blank(b.line, range) /\ Blank(k, range)
               \/ Blank(b.line, range) /\ ~Blank(k, range)
      BY <2>1, <2>5, <3>1
    <3>2. CASE ~(\/ ~Blank(b.line, range) /\ Blank(k, range)
                 \/ Blank(b.line, range) /\ ~Blank(k, range))
      <4>2. (IF ~Blank(b.line, range) /\ Blank(k, range) THEN 1 ELSE 0) = 0
        BY <3>2, Zenon
      <4>3. (IF Blank(b.line, range) /\ ~Blank(k, range) THEN 1 ELSE 0) = 0
        BY <3>2, Zenon
      <4>0. s.starts = b.starts + 0 /\ s.ends = b.ends + 0
        BY <1>4, <4>2, <4>3, Zenon
      <4>1. b.starts + b.ends > 0
        BY <1>2, <2>5, <4>0
      <4>4. u + 1 >= G
        BY <2>5, <2>7, <2>8, <4>1
      <4> QED
        BY <2>6, <4>4
    <3> QED
      BY <3>1, <3>2
  <2> QED
    BY <2>4, <2>5 DEF EdgeSo
<1>15. u + 1 \in Nat /\ w + x \in Nat
  BY <1>6
<1> QED
  BY <1>13, <1>14, <1>15 DEF Walked, s

(* A video tick.                                                           *)
LEMMA StepWalks ==
  ASSUME mode \in Display, range \in Ranges, NEW c \in Crtcs(mode), NEW t \in Nat, NEW b,
         Walked(b, t, c, mode, range)
  PROVE  Walked(BeamStep(b), t + 1, c, mode, range)
<1>1. PICK u \in Nat, w \in Nat :
        WalkedSo(b, u, w, t, c, mode, range) /\ EdgeSo(b, u, c, mode, range)
  BY DEF Walked
<1>2. CASE b.tick + 1 = mode.htotal
  BY <1>1, <1>2, LineWalks
<1>3. CASE b.tick + 1 # mode.htotal
  <2>1. WalkedSo(BeamStep(b), u, w, t + 1, c, mode, range) /\ EdgeSo(BeamStep(b), u, c, mode, range)
    BY <1>1, <1>3, TickWalks
  <2> QED
    BY <2>1 DEF Walked
<1> QED
  BY <1>2, <1>3

Walks(m) == [tick : 0..(m.htotal - 1), line : 0..(m.vtotal - 1), dots : Nat, lines : Int,
             starts : Nat, ends : Nat]

(* A beam on the raster stays on it.                                       *)
LEMMA StepInWalks ==
  ASSUME mode \in Display, NEW b \in Walks(mode)
  PROVE  BeamStep(b) \in Walks(mode)
<1>1. mode.htotal \in Nat \ {0} /\ mode.vtotal \in Nat \ {0}
  BY ModeFacts
<1>2. /\ b.tick \in 0..(mode.htotal - 1) /\ b.line \in 0..(mode.vtotal - 1)
      /\ b.dots \in Nat /\ b.lines \in Int /\ b.starts \in Nat /\ b.ends \in Nat
  BY DEF Walks
<1>3. (b.line + 1) % mode.vtotal \in 0..(mode.vtotal - 1)
  BY <1>1, <1>2
<1> DEFINE last == b.tick + 1 = mode.htotal
           next == IF last THEN (b.line + 1) % mode.vtotal ELSE b.line
<1>4. (IF last THEN 0 ELSE b.tick + 1) \in 0..(mode.htotal - 1)
  BY <1>1, <1>2
<1>5. next \in 0..(mode.vtotal - 1)
  BY <1>2, <1>3
<1>6. /\ b.dots + 1 \in Nat
      /\ b.lines + (IF b.tick + 1 = mode.aend THEN 1 ELSE 0) \in Int
  BY <1>2
<1>7. ASSUME NEW P \in BOOLEAN, NEW n \in Nat PROVE n + (IF P THEN 1 ELSE 0) \in Nat
  BY <1>7
<1>8. /\ (~Blank(b.line, range) /\ Blank(next, range)) \in BOOLEAN
      /\ (Blank(b.line, range) /\ ~Blank(next, range)) \in BOOLEAN
  OBVIOUS
<1>9. /\ b.starts + (IF ~Blank(b.line, range) /\ Blank(next, range) THEN 1 ELSE 0) \in Nat
      /\ b.ends + (IF Blank(b.line, range) /\ ~Blank(next, range) THEN 1 ELSE 0) \in Nat
  <2> HIDE DEF next
  <2> QED
    BY <1>2, <1>7, <1>8, Zenon
<1> DEFINE s == [tick  |-> IF last THEN 0 ELSE b.tick + 1,
                 line  |-> next,
                 dots  |-> b.dots + 1,
                 lines |-> b.lines + (IF b.tick + 1 = mode.aend THEN 1 ELSE 0),
                 starts |-> b.starts + (IF ~Blank(b.line, range) /\ Blank(next, range) THEN 1 ELSE 0),
                 ends  |-> b.ends + (IF Blank(b.line, range) /\ ~Blank(next, range) THEN 1 ELSE 0)]
<1>10. BeamStep(b) = s
  BY DEF BeamStep
<1>11. s \in Walks(mode)
  <2> HIDE DEF next, last
  <2> QED
    BY <1>4, <1>5, <1>6, <1>9, Zenon DEF Walks
<1> QED
  BY <1>10, <1>11

SysWalks(m) == [frac : 0..(Den - 1), beam : Walks(m)]

(* s is n system ticks on from c.                                          *)
SysWalked(s, n, c, m, r) ==
  /\ s.frac \in 0..(Den - 1)
  /\ \E t \in Nat : n * Mul + c.frac = t * Den + s.frac /\ Walked(s.beam, t, c, m, r)

(* Between one and two video ticks are in a system tick.                   *)
LEMMA TicksInStep ==
  ASSUME NEW f \in 0..(Den - 1)
  PROVE  /\ (Mul + f) \div Den \in 1..2 /\ (Mul + f) % Den \in 0..(Den - 1)
         /\ Mul + f = ((Mul + f) \div Den) * Den + ((Mul + f) % Den)
<1>1. Den \in Nat \ {0} /\ Mul \in Nat /\ Den < Mul /\ Mul < 2 * Den /\ Mul + f \in Nat
  BY RateAssumption
<1>2. /\ (Mul + f) \div Den \in Nat /\ (Mul + f) % Den \in 0..(Den - 1)
      /\ Mul + f = ((Mul + f) \div Den) * Den + ((Mul + f) % Den)
  BY <1>1, Division
<1> DEFINE q == (Mul + f) \div Den
           e == (Mul + f) % Den
<1>3. q \in Nat /\ e \in 0..(Den - 1) /\ Mul + f = q * Den + e
  BY <1>2
<1> HIDE DEF q, e
<1>4. q # 0
  BY <1>1, <1>3
<1>5. ~(q >= 3)
  <2> SUFFICES ASSUME q >= 3 PROVE FALSE
    OBVIOUS
  <2>1. 3 * Den <= q * Den
    BY <1>1, <1>3, TimesOrder
  <2>2. q * Den \in Nat
    BY <1>1, <1>3
  <2> QED
    BY <1>1, <1>3, <2>1, <2>2
<1>6. q \in 1..2
  BY <1>3, <1>4, <1>5
<1> QED
  BY <1>2, <1>6 DEF q

(* A system tick.                                                          *)
LEMMA SysStepWalks ==
  ASSUME mode \in Display, range \in Ranges, NEW c \in Crtcs(mode), NEW n \in Nat,
         NEW s \in SysWalks(mode)
  PROVE  /\ SysStep(s) \in SysWalks(mode)
         /\ SysWalked(s, n, c, mode, range) => SysWalked(SysStep(s), n + 1, c, mode, range)
<1> DEFINE q == (Mul + s.frac) \div Den
           e == (Mul + s.frac) % Den
           z == IF q = 1 THEN BeamStep(s.beam) ELSE BeamStep(BeamStep(s.beam))
<1>1. s.frac \in 0..(Den - 1) /\ s.beam \in Walks(mode)
  BY DEF SysWalks
<1>2. q \in 1..2 /\ e \in 0..(Den - 1) /\ Mul + s.frac = q * Den + e
  BY <1>1, TicksInStep
<1>3. SysStep(s) = [frac |-> e, beam |-> z]
  BY DEF SysStep
<1> HIDE DEF q, e
<1>4. z \in Walks(mode)
  BY <1>1, StepInWalks
<1>5. ASSUME SysWalked(s, n, c, mode, range)
      PROVE  \E t \in Nat : (n + 1) * Mul + c.frac = t * Den + e /\ Walked(z, t, c, mode, range)
  <2>1. PICK t \in Nat : n * Mul + c.frac = t * Den + s.frac /\ Walked(s.beam, t, c, mode, range)
    BY <1>5 DEF SysWalked
  <2>2. Walked(z, t + q, c, mode, range)
    <3>1. Walked(BeamStep(s.beam), t + 1, c, mode, range)
      BY <2>1, StepWalks
    <3>2. Walked(BeamStep(BeamStep(s.beam)), (t + 1) + 1, c, mode, range)
      BY <3>1, StepWalks
    <3>3. CASE q = 1
      BY <3>1, <3>3
    <3>4. CASE q = 2
      <4>1. t + q = (t + 1) + 1
        BY <3>4
      <4> QED
        BY <3>2, <3>4, <4>1
    <3> QED
      BY <1>2, <3>3, <3>4
  <2>3. (n + 1) * Mul + c.frac = (t + q) * Den + e
    <3>1. Mul \in Nat /\ Den \in Nat /\ q \in Nat /\ e \in Nat /\ c.frac \in Nat /\ s.frac \in Nat
      BY <1>1, <1>2, RateAssumption DEF Crtcs
    <3> DEFINE A == n * Mul
               B == t * Den
               C == q * Den
               M == (n + 1) * Mul
               D == (t + q) * Den
    <3>2. /\ M = A + 1 * Mul /\ A \in Nat /\ D = B + C /\ B \in Nat /\ C \in Nat
      BY <3>1, TimesSum
    <3>3. A + c.frac = B + s.frac /\ Mul + s.frac = C + e
      BY <1>2, <2>1
    <3> HIDE DEF A, B, C, M, D
    <3>4. M + c.frac = D + e
      BY <3>1, <3>2, <3>3
    <3> QED
      BY <3>4 DEF M, D
  <2> QED
    BY <1>2, <2>2, <2>3
<1> HIDE DEF z
<1> QED
  BY <1>2, <1>3, <1>4, <1>5 DEF SysWalks, SysWalked

(* The beam before its first tick.                                         *)
Start(c) == [tick |-> c.tick, line |-> c.line, dots |-> c.dotfrac, lines |-> 0, starts |-> 0,
             ends |-> 0]

(* It has passed nothing.                                                  *)
LEMMA StartWalked ==
  ASSUME NEW m \in Display, NEW r \in Ranges, NEW c \in Crtcs(m)
  PROVE  Start(c) \in Walks(m) /\ Walked(Start(c), 0, c, m, r)
<1>1. /\ c.tick \in 0..(m.htotal - 1) /\ c.line \in 0..(m.vtotal - 1) /\ c.dotfrac \in Nat
      /\ m.htotal \in Nat /\ m.vtotal \in Nat
  BY ModeFacts DEF Crtcs
<1> DEFINE b == Start(c)
<1>2. /\ b.tick = c.tick /\ b.line = c.line /\ b.dots = c.dotfrac
      /\ b.lines = 0 /\ b.starts = 0 /\ b.ends = 0
  BY DEF Start
<1>3. b \in Walks(m)
  BY <1>1 DEF Start, Walks
<1> HIDE DEF b
<1>4. WalkedSo(b, 0, 0, 0, c, m, r)
  <2>1. c.tick + 0 = 0 * m.htotal + c.tick /\ c.line + 0 = 0 * m.vtotal + c.line
    BY <1>1
  <2>2. 0 = (0 + Shown(c.tick, m)) - Shown(c.tick, m) /\ 0 = (0 + Past(c.line, r)) - Past(c.line, r)
    BY DEF Shown, Past
  <2>3. c.dotfrac = c.dotfrac + 0 /\ 0 \in Nat
    BY <1>1
  <2> QED
    BY <1>1, <1>2, <2>1, <2>2, <2>3 DEF WalkedSo
<1>5. EdgeSo(b, 0, c, m, r)
  BY <1>2 DEF EdgeSo
<1>6. Walked(b, 0, c, m, r)
  BY <1>4, <1>5 DEF Walked
<1> QED
  BY <1>3, <1>6 DEF b

(* Beam has walked the video ticks that sys_to_crtc_ticks gives.           *)
LEMMA BeamIs ==
  ASSUME mode \in Display, range \in Ranges, crtc \in Crtcs(mode), since \in Nat
  PROVE  Walked(Beam, SysToCrtc(since, crtc.frac), crtc, mode, range)
<1> DEFINE b == [frac |-> crtc.frac, beam |-> Start(crtc)]
           F == [s \in SysWalks(mode) |-> SysStep(s)]
<1>1. b \in SysWalks(mode)
  <2>1. crtc.frac \in 0..(Den - 1)
    BY DEF Crtcs
  <2> QED
    BY <2>1, StartWalked DEF SysWalks
<1>2. F \in [SysWalks(mode) -> SysWalks(mode)]
  <2>1. ASSUME NEW s \in SysWalks(mode) PROVE SysStep(s) \in SysWalks(mode)
    <3>1. 0 \in Nat /\ crtc \in Crtcs(mode)
      OBVIOUS
    <3> QED
      BY <3>1, SysStepWalks
  <2> QED
    BY <2>1
<1>3. PICK h \in [0..since -> SysWalks(mode)] : Goes(h, b, F, since)
  <2> HIDE DEF b, F
  <2> QED
    BY <1>1, <1>2, LoopGoes
<1>4. h = [k \in 0..since |-> IF k = 0 THEN b ELSE SysStep(h[k - 1])]
  <2>1. ASSUME NEW k \in 0..since
        PROVE  h[k] = IF k = 0 THEN b ELSE SysStep(h[k - 1])
    <3>1. CASE k = 0
      BY <1>3, <3>1 DEF Goes
    <3>2. CASE k # 0
      <4>1. k \in 1..since /\ k - 1 \in 0..since
        BY <3>2
      <4>2. h[k - 1] \in SysWalks(mode) /\ h[k] = F[h[k - 1]]
        BY <1>3, <4>1 DEF Goes
      <4> QED
        BY <3>2, <4>2
    <3> QED
      BY <3>1, <3>2
  <2>2. h = [k \in 0..since |-> h[k]]
    OBVIOUS
  <2> HIDE DEF b, F
  <2> QED
    BY <2>1, <2>2, Zenon
<1> DEFINE f == CHOOSE f : f = [k \in 0..since |-> IF k = 0 THEN b ELSE SysStep(f[k - 1])]
<1>5. Beam = f[since].beam
  BY DEF Beam, Start
<1>6. f = [k \in 0..since |-> IF k = 0 THEN b ELSE SysStep(f[k - 1])]
  <2> HIDE DEF b
  <2> QED
    BY <1>4
<1>7. b.frac = crtc.frac /\ b.beam = Start(crtc)
  OBVIOUS
<1> HIDE DEF f, F, b
<1> DEFINE G == {k \in 0..since : f[k] \in SysWalks(mode) /\ SysWalked(f[k], k, crtc, mode, range)}
<1>8. 0 \in G
  <2>1. 0 \in 0..since /\ f[0] = b
    BY <1>6
  <2>2. SysWalked(b, 0, crtc, mode, range)
    <3>1. 0 * Mul + crtc.frac = 0 * Den + crtc.frac /\ crtc.frac \in 0..(Den - 1)
      BY RateAssumption DEF Crtcs
    <3>2. Walked(Start(crtc), 0, crtc, mode, range)
      BY StartWalked
    <3> QED
      BY <1>7, <3>1, <3>2 DEF SysWalked
  <2> QED
    BY <1>1, <2>1, <2>2
<1>9. ASSUME NEW k \in 1..since, k - 1 \in G PROVE k \in G
  <2>1. k \in 0..since /\ k - 1 \in Nat /\ (k - 1) + 1 = k
    OBVIOUS
  <2>2. f[k] = SysStep(f[k - 1])
    BY <1>6, <2>1
  <2>3. f[k - 1] \in SysWalks(mode) /\ SysWalked(f[k - 1], k - 1, crtc, mode, range)
    BY <1>9
  <2>4. SysStep(f[k - 1]) \in SysWalks(mode) /\ SysWalked(SysStep(f[k - 1]), (k - 1) + 1, crtc, mode, range)
    BY <2>1, <2>3, SysStepWalks
  <2> QED
    BY <2>1, <2>2, <2>4
<1>10. since \in G
  <2>1. since \in 0..since
    OBVIOUS
  <2> HIDE DEF G
  <2> QED
    BY <1>8, <1>9, <2>1, UpTo
<1>11. PICK t \in Nat : /\ since * Mul + crtc.frac = t * Den + f[since].frac
                        /\ Walked(f[since].beam, t, crtc, mode, range)
  BY <1>10 DEF SysWalked
<1>12. SysToCrtc(since, crtc.frac) = t
  <2>1. f[since].frac \in 0..(Den - 1) /\ Den \in Nat \ {0}
    BY <1>10, RateAssumption DEF SysWalked
  <2> QED
    BY <1>11, <2>1, Quotient DEF SysToCrtc
<1> QED
  BY <1>5, <1>11, <1>12

-----------------------------------------------------------------------------
(* The event.                                                              *)

(* What gpu_crtc_tick_event does over so many ticks.                       *)
LEMMA AdvanceIs ==
  ASSUME NEW m \in Display, NEW r \in Ranges, NEW c \in Crtcs(m), NEW d, NEW n \in Nat
  PROVE  LET e == Advance(c, m, r, d, n)
             t == SysToCrtc(n, c.frac)
         IN \E u, w \in Nat :
              /\ t \in Nat /\ e.crtc \in Crtcs(m)
              /\ c.tick + t = u * m.htotal + e.crtc.tick
              /\ c.line + u = w * m.vtotal + e.crtc.line
              /\ e.lines = (u - Shown(c.tick, m)) + Shown(e.crtc.tick, m)
              /\ d.ext => /\ e.dots = (c.dotfrac + t) \div m.divider
                          /\ e.crtc.dotfrac = (c.dotfrac + t) % m.divider
              /\ ~d.ext => e.dots = 0
              /\ e.dots \in Nat
              /\ Proper(r) /\ c.vblank = Blank(c.line, r) =>
                   e.edges = (w + Past(e.crtc.line, r)) - Past(c.line, r)
<1> DEFINE t == SysToCrtc(n, c.frac)
           k == (c.tick + t) % m.htotal
           u == (c.tick + t) \div m.htotal
           h == DrawAll([line |-> c.line, due |-> u, vblank |-> c.vblank, edges |-> 0], m, r)
           x == c.dotfrac + t
           e == Advance(c, m, r, d, n)
<1>1. /\ m.htotal \in Nat \ {0} /\ m.vtotal \in Nat \ {0} /\ m.divider \in Nat \ {0}
      /\ c.tick \in 0..(m.htotal - 1) /\ c.line \in 0..(m.vtotal - 1) /\ c.frac \in 0..(Den - 1)
      /\ c.dotfrac \in Nat /\ c.vblank \in BOOLEAN
  BY ModeFacts DEF Crtcs
<1>2. t \in Nat /\ FracAfter(n, c.frac) \in 0..(Den - 1)
  <2>1. Den \in Nat \ {0} /\ n * Mul + c.frac \in Nat
    BY <1>1, RateAssumption
  <2> QED
    BY <2>1, Division DEF SysToCrtc, FracAfter
<1>3. /\ e.crtc = [line |-> h.line, tick |-> k, frac |-> FracAfter(n, c.frac),
                   dotfrac |-> IF d.ext THEN x % m.divider ELSE c.dotfrac, vblank |-> h.vblank]
      /\ e.dots = IF d.ext THEN x \div m.divider ELSE 0
      /\ e.lines = Hblanks(c, m, k, u) /\ e.edges = h.edges
  BY DEF Advance
<1> HIDE DEF t
<1>4. /\ u \in Nat /\ k \in 0..(m.htotal - 1) /\ c.tick + t = u * m.htotal + k
      /\ x \in Nat /\ x \div m.divider \in Nat /\ x % m.divider \in Nat
  <2>1. c.tick + t \in Nat /\ x \in Nat
    BY <1>1, <1>2
  <2>2. u \in Nat /\ k \in 0..(m.htotal - 1) /\ c.tick + t = (u * m.htotal) + k
    BY <1>1, <2>1, Division
  <2>3. x \div m.divider \in Nat /\ x % m.divider \in 0..(m.divider - 1)
    <3> HIDE DEF x
    <3> QED
      BY <1>1, <2>1, Division
  <2>4. x % m.divider \in Nat
    <3> HIDE DEF x
    <3> QED
      BY <1>1, <2>3
  <2> HIDE DEF k, u, x
  <2> QED
    BY <2>1, <2>2, <2>3, <2>4
<1> HIDE DEF k, u, x, e
<1>5. h \in Beams(m) /\ h.due = 0 /\ \E w \in Nat : DrawnSo(h, w, c.line, c.vblank, u, m, r)
  BY <1>1, <1>4, AllDrawn
<1> HIDE DEF h
<1>6. PICK w \in Nat : DrawnSo(h, w, c.line, c.vblank, u, m, r)
  BY <1>5
<1>7. h.line \in 0..(m.vtotal - 1) /\ h.vblank \in BOOLEAN
  BY <1>5 DEF Beams
<1>8. e.crtc \in Crtcs(m)
  BY <1>1, <1>2, <1>3, <1>4, <1>7 DEF Crtcs
<1>9. e.crtc.tick = k /\ e.crtc.line = h.line
  BY <1>3
<1>10. c.line + u = w * m.vtotal + h.line
  BY <1>4, <1>5, <1>6 DEF DrawnSo
<1>11. e.lines = (u - Shown(c.tick, m)) + Shown(k, m)
  BY <1>3 DEF Hblanks, Shown
<1>12. /\ d.ext => e.dots = x \div m.divider /\ e.crtc.dotfrac = x % m.divider
       /\ ~d.ext => e.dots = 0
       /\ e.dots \in Nat
  BY <1>3, <1>4
<1>13. Proper(r) /\ c.vblank = Blank(c.line, r) => e.edges = (w + Past(h.line, r)) - Past(c.line, r)
  BY <1>3, <1>6 DEF DrawnSo
<1> QED
  BY <1>2, <1>4, <1>8, <1>9, <1>10, <1>11, <1>12, <1>13 DEF e, t, x

-----------------------------------------------------------------------------
(* The beam moved in bulk is the beam.                                     *)

(* BulkIsExact and VblankEachFrame hold wherever the beam is.              *)
LEMMA BeamExact ==
  ASSUME mode \in Display, range \in Ranges, crtc \in Crtcs(mode), since \in Nat
  PROVE  BulkIsExact /\ VblankEachFrame
<1> DEFINE t == SysToCrtc(since, crtc.frac)
           e == Now
           b == Beam
<1>1. /\ mode.htotal \in Nat \ {0} /\ mode.vtotal \in Nat \ {0} /\ mode.divider \in Nat \ {0}
      /\ crtc.tick \in Nat /\ crtc.line \in Nat /\ crtc.dotfrac \in Nat
  BY ModeFacts DEF Crtcs
<1>2. PICK u \in Nat, w \in Nat :
        /\ t \in Nat /\ e.crtc \in Crtcs(mode)
        /\ crtc.tick + t = u * mode.htotal + e.crtc.tick
        /\ crtc.line + u = w * mode.vtotal + e.crtc.line
        /\ e.lines = (u - Shown(crtc.tick, mode)) + Shown(e.crtc.tick, mode)
        /\ dot.ext => /\ e.dots = (crtc.dotfrac + t) \div mode.divider
                      /\ e.crtc.dotfrac = (crtc.dotfrac + t) % mode.divider
        /\ Proper(range) /\ crtc.vblank = Blank(crtc.line, range) =>
             e.edges = (w + Past(e.crtc.line, range)) - Past(crtc.line, range)
  BY AdvanceIs DEF Now
<1>3. PICK v \in Nat, z \in Nat : WalkedSo(b, v, z, t, crtc, mode, range)
  BY BeamIs DEF Walked
<1> HIDE DEF t, e, b
<1>4. /\ b.tick \in 0..(mode.htotal - 1) /\ b.line \in 0..(mode.vtotal - 1)
      /\ crtc.tick + t = v * mode.htotal + b.tick
      /\ crtc.line + v = z * mode.vtotal + b.line
      /\ b.dots = crtc.dotfrac + t
      /\ b.lines = (v + Shown(b.tick, mode)) - Shown(crtc.tick, mode)
      /\ Proper(range) => b.starts = (z + Past(b.line, range)) - Past(crtc.line, range)
  BY <1>3 DEF WalkedSo
<1>5. e.crtc.tick \in 0..(mode.htotal - 1) /\ e.crtc.line \in 0..(mode.vtotal - 1)
  BY <1>2 DEF Crtcs
<1>6. u = v /\ e.crtc.tick = b.tick
  <2>0. b.tick \in 0..(mode.htotal - 1)
    BY <1>4
  <2>1. (u * mode.htotal + e.crtc.tick) \div mode.htotal = u
    BY <1>1, <1>5, Quotient
  <2>2. (u * mode.htotal + e.crtc.tick) % mode.htotal = e.crtc.tick
    BY <1>1, <1>5, Quotient
  <2>3. (v * mode.htotal + b.tick) \div mode.htotal = v
    BY <1>1, <2>0, Quotient
  <2>4. (v * mode.htotal + b.tick) % mode.htotal = b.tick
    BY <1>1, <2>0, Quotient
  <2>5. u * mode.htotal + e.crtc.tick = v * mode.htotal + b.tick
    BY <1>2, <1>4, Zenon
  <2> QED
    BY <2>1, <2>2, <2>3, <2>4, <2>5, Zenon
<1>7. w = z /\ e.crtc.line = b.line
  <2>0. b.line \in 0..(mode.vtotal - 1)
    BY <1>4
  <2>1. (w * mode.vtotal + e.crtc.line) \div mode.vtotal = w
    BY <1>1, <1>5, Quotient
  <2>2. (w * mode.vtotal + e.crtc.line) % mode.vtotal = e.crtc.line
    BY <1>1, <1>5, Quotient
  <2>3. (z * mode.vtotal + b.line) \div mode.vtotal = z
    BY <1>1, <2>0, Quotient
  <2>4. (z * mode.vtotal + b.line) % mode.vtotal = b.line
    BY <1>1, <2>0, Quotient
  <2>5. w * mode.vtotal + e.crtc.line = z * mode.vtotal + b.line
    BY <1>2, <1>4, <1>6, Zenon
  <2> QED
    BY <2>1, <2>2, <2>3, <2>4, <2>5, Zenon
<1>8. e.lines = b.lines
  <2>1. Shown(b.tick, mode) \in 0..1 /\ Shown(crtc.tick, mode) \in 0..1
    BY DEF Shown
  <2> QED
    BY <1>2, <1>4, <1>6, <2>1
<1>9. BulkIsExact
  <2>1. dot.ext => e.dots = b.dots \div mode.divider /\ e.crtc.dotfrac = b.dots % mode.divider
    BY <1>2, <1>4
  <2>2. <<e.crtc.line, e.crtc.tick>> = <<b.line, b.tick>>
    BY <1>6, <1>7
  <2> QED
    BY <1>8, <2>1, <2>2 DEF BulkIsExact, e, b
<1>10. VblankEachFrame
  <2>1. ASSUME 0 < range.start /\ range.start < range.end /\ ~Stale PROVE e.edges = b.starts
    <3>1. Proper(range) /\ crtc.vblank = Blank(crtc.line, range)
      BY <2>1 DEF Proper, Stale
    <3> QED
      BY <1>2, <1>4, <1>7, <3>1
  <2> QED
    BY <2>1 DEF VblankEachFrame, e, b
<1> QED
  BY <1>9, <1>10

-----------------------------------------------------------------------------
(* The invariant: the beam is on the raster, and the event is put where    *)
(* gpu_update_crtc_tick_event put it for the timers as they were then.     *)

DotTimers  == [ext : BOOLEAN, until : Nat \union {Never}, period : (Nat \ {0}) \union {Never}]
LineTimers == [ext : BOOLEAN, sync : BOOLEAN, until : Nat \union {Never},
               period : (Nat \ {0}) \union {Never}]

Good(s, m, r) ==
  /\ s.crtc \in Crtcs(m) /\ s.dot \in DotTimers /\ s.line \in LineTimers
  /\ s.armed \in DotTimers \X LineTimers
  /\ s.since \in Nat /\ s.left \in Int /\ s.left >= -MaxOverrun
  /\ s.since + s.left = EventTicks(s.crtc, m, r, s.armed[1], s.armed[2])

BeamInv == mode \in Display /\ range \in Ranges /\ Good(Here, mode, range)

(* What n does to a timer leaves it a timer (timers_add_ticks).            *)
LEMMA CountKeeps ==
  ASSUME NEW n \in Nat
  PROVE  /\ \A d \in DotTimers : Count(d, n) \in DotTimers
         /\ \A l \in LineTimers : Count(l, n) \in LineTimers
<1>1. ASSUME NEW u \in Nat, NEW p \in Nat \ {0}, u <= n
      PROVE  p - ((n - u) % p) \in Nat
  <2>1. n - u \in Nat
    BY <1>1
  <2>2. (n - u) % p \in 0..(p - 1)
    BY <2>1, Division
  <2> QED
    BY <2>2
<1>2. ASSUME NEW d \in DotTimers PROVE Count(d, n) \in DotTimers
  <2>1. d.until \in Nat \union {Never} /\ d.period \in (Nat \ {0}) \union {Never}
    BY DEF DotTimers
  <2>2. CASE ~d.ext \/ d.until \in {Off, Never}
    <3>1. Count(d, n) = d
      BY <2>2 DEF Count, Off, Never
    <3> QED
      BY <3>1
  <2>3. CASE d.ext /\ d.until \notin {Off, Never} /\ d.until > n
    <3>1. Count(d, n) = [d EXCEPT !.until = @ - n]
      BY <2>3 DEF Count
    <3>2. d.until - n \in Nat
      BY <2>1, <2>3 DEF Never
    <3> QED
      BY <3>1, <3>2 DEF DotTimers
  <2>4. CASE d.ext /\ d.until \notin {Off, Never} /\ ~(d.until > n)
    <3>1. Count(d, n) = [d EXCEPT !.until = IF d.period = Never THEN Never
                                            ELSE d.period - ((n - @) % d.period)]
      BY <2>4 DEF Count
    <3>2. d.until \in Nat /\ d.until <= n
      BY <2>1, <2>4
    <3>3. d.period # Never => d.period - ((n - d.until) % d.period) \in Nat
      BY <1>1, <2>1, <3>2
    <3> QED
      BY <3>1, <3>3 DEF DotTimers
  <2> QED
    BY <2>2, <2>3, <2>4
<1>3. ASSUME NEW l \in LineTimers PROVE Count(l, n) \in LineTimers
  <2>1. l.until \in Nat \union {Never} /\ l.period \in (Nat \ {0}) \union {Never}
    BY DEF LineTimers
  <2>2. CASE ~l.ext \/ l.until \in {Off, Never}
    <3>1. Count(l, n) = l
      BY <2>2 DEF Count, Off, Never
    <3> QED
      BY <3>1
  <2>3. CASE l.ext /\ l.until \notin {Off, Never} /\ l.until > n
    <3>1. Count(l, n) = [l EXCEPT !.until = @ - n]
      BY <2>3 DEF Count
    <3>2. l.until - n \in Nat
      BY <2>1, <2>3 DEF Never
    <3> QED
      BY <3>1, <3>2 DEF LineTimers
  <2>4. CASE l.ext /\ l.until \notin {Off, Never} /\ ~(l.until > n)
    <3>1. Count(l, n) = [l EXCEPT !.until = IF l.period = Never THEN Never
                                            ELSE l.period - ((n - @) % l.period)]
      BY <2>4 DEF Count
    <3>2. l.until \in Nat /\ l.until <= n
      BY <2>1, <2>4
    <3>3. l.period # Never => l.period - ((n - l.until) % l.period) \in Nat
      BY <1>1, <2>1, <3>2
    <3> QED
      BY <3>1, <3>3 DEF LineTimers
  <2> QED
    BY <2>2, <2>3, <2>4
<1> QED
  BY <1>2, <1>3

(* The event is at the next line to come at the latest, and at the beam    *)
(* only for dots.                                                          *)
LEMMA EventFacts ==
  ASSUME NEW m \in Display, NEW r \in Ranges, NEW c \in Crtcs(m), NEW d \in DotTimers,
         NEW l \in LineTimers
  PROVE  /\ LinesUntilEvent(c, m, r, l) \in Nat \ {0} /\ TicksOfLines(c, m, r, l) \in Nat \ {0}
         /\ LinesUntilEvent(c, m, r, l) <= LinesToEdge(c, m, r, l.sync)
         /\ TicksUntilEvent(c, m, r, d, l) \in Nat
         /\ TicksUntilEvent(c, m, r, d, l) <= TicksOfLines(c, m, r, l)
         /\ TicksOfDots(c, m, d) \in Int
         /\ TicksUntilEvent(c, m, r, d, l) = 0 => DotsComeFirst(m, d) /\ TicksOfDots(c, m, d) <= 0
         /\ EventTicks(c, m, r, d, l) \in Nat
<1> DEFINE L == LinesUntilEvent(c, m, r, l)
           T == TicksOfLines(c, m, r, l)
           D == TicksOfDots(c, m, d)
           E == TicksUntilEvent(c, m, r, d, l)
<1>1. /\ m.htotal \in Nat \ {0} /\ m.vtotal \in Nat \ {0} /\ m.divider \in Nat \ {0}
      /\ c.tick \in 0..(m.htotal - 1) /\ c.line \in 0..(m.vtotal - 1) /\ c.frac \in 0..(Den - 1)
      /\ c.dotfrac \in Nat
      /\ r.start \in Nat /\ r.end \in Nat /\ r.start <= m.vtotal /\ r.end <= m.vtotal
  BY ModeFacts, RangeFacts DEF Crtcs
<1>2. LinesToEdge(c, m, r, l.sync) \in Nat \ {0}
  BY <1>1 DEF LinesToEdge
<1>3. L \in Nat \ {0} /\ L <= LinesToEdge(c, m, r, l.sync)
  <2>1. l.until \notin {Off, Never} => l.until \in Nat \ {0}
    BY DEF LineTimers, Off
  <2> QED
    BY <1>2, <2>1 DEF LinesUntilEvent, Lower
<1>4. T \in Nat \ {0}
  <2>1. T = (L * m.htotal) - c.tick
    BY DEF TicksOfLines
  <2>2. 1 * m.htotal <= L * m.htotal /\ L * m.htotal \in Nat /\ 1 * m.htotal = m.htotal
    BY <1>1, <1>3, TimesOrder
  <2> DEFINE P == L * m.htotal
  <2> HIDE DEF P, T
  <2>3. P \in Nat /\ m.htotal <= P /\ T = P - c.tick
    BY <2>1, <2>2 DEF P
  <2> QED
    BY <1>1, <2>3
<1>5. D \in Int
  <2>1. d.until \in Int
    BY DEF DotTimers, Never
  <2>2. d.until * m.divider \in Int /\ -m.divider \in Int
    BY <1>1, <2>1
  <2> QED
    BY <1>1, <2>2 DEF TicksOfDots
<1>6. E = IF DotsComeFirst(m, d) THEN Lower(T, IF D > 0 THEN D ELSE 0) ELSE T
  BY DEF TicksUntilEvent
<1> HIDE DEF L, T, D, E
<1>7. E \in Nat /\ E <= T /\ (E = 0 => DotsComeFirst(m, d) /\ D <= 0)
  <2>1. CASE DotsComeFirst(m, d)
    <3>1. E = Lower(T, IF D > 0 THEN D ELSE 0)
      BY <1>6, <2>1
    <3> QED
      BY <1>4, <1>5, <2>1, <3>1 DEF Lower
  <2>2. CASE ~DotsComeFirst(m, d)
    BY <1>4, <1>6, <2>2
  <2> QED
    BY <2>1, <2>2
<1>8. EventTicks(c, m, r, d, l) \in Nat
  <2>1. Mul \in Nat \ {0} /\ Den \in Nat
    BY RateAssumption
  <2>2. E * Den \in Nat
    BY <1>7, <2>1
  <2> DEFINE A == E * Den + c.frac + Mul - 1
  <2>3. A \in Nat
    BY <1>1, <2>1, <2>2
  <2>4. EventTicks(c, m, r, d, l) = A \div Mul
    BY DEF EventTicks, CrtcToSys, E
  <2> HIDE DEF A
  <2> QED
    BY <2>1, <2>3, <2>4, Division
<1> QED
  BY <1>3, <1>4, <1>5, <1>7, <1>8 DEF L, T, D, E

(* The event counts the lines of its timer upwards.                        *)
LEMMA LinesCounted ==
  ASSUME NEW m \in Display, NEW u \in Nat, NEW x \in 0..(m.htotal - 1), NEW y \in 0..(m.htotal - 1),
         NEW t \in Nat, x + t = u * m.htotal + y
  PROVE  (u - Shown(x, m)) + Shown(y, m) \in Nat
<1>1. m.htotal \in Nat /\ m.aend \in Nat
  BY ModeFacts
<1>2. CASE u = 0
  <2>1. x + t = 0 * m.htotal + y /\ 0 * m.htotal = 0
    BY <1>1, <1>2
  <2>2. x <= y
    BY <1>1, <2>1
  <2> QED
    BY <1>1, <1>2, <2>2 DEF Shown
<1>3. CASE u # 0
  BY <1>3 DEF Shown
<1> QED
  BY <1>2, <1>3

(* The event leaves the beam on the raster and puts itself after it.       *)
LEMMA RanGood ==
  ASSUME mode \in Display, range \in Ranges, Good(Here, mode, range),
         NEW ticks \in Nat, NEW late \in Nat, late <= MaxOverrun
  PROVE  Good(Ran(ticks, late), mode, range) /\ Ran(ticks, late).since = late
<1> DEFINE e == Advance(crtc, mode, range, dot, ticks)
           d == Count(dot, e.dots)
           l == Count(line, e.lines)
           s == Ran(ticks, late)
           n == EventTicks(e.crtc, mode, range, d, l)
<1>1. crtc \in Crtcs(mode) /\ dot \in DotTimers /\ line \in LineTimers
  BY DEF Good, Here
<1>2. e.crtc \in Crtcs(mode) /\ e.dots \in Nat /\ e.lines \in Nat
  <2> DEFINE t == SysToCrtc(ticks, crtc.frac)
  <2>1. PICK u \in Nat, w \in Nat :
          /\ t \in Nat /\ e.crtc \in Crtcs(mode)
          /\ crtc.tick + t = u * mode.htotal + e.crtc.tick
          /\ crtc.line + u = w * mode.vtotal + e.crtc.line
          /\ e.lines = (u - Shown(crtc.tick, mode)) + Shown(e.crtc.tick, mode)
          /\ e.dots \in Nat
    BY <1>1, AdvanceIs
  <2> HIDE DEF e, t
  <2>2. crtc.tick \in 0..(mode.htotal - 1) /\ e.crtc.tick \in 0..(mode.htotal - 1)
    BY <1>1, <2>1 DEF Crtcs
  <2>3. (u - Shown(crtc.tick, mode)) + Shown(e.crtc.tick, mode) \in Nat
    BY <2>1, <2>2, LinesCounted
  <2> QED
    BY <2>1, <2>3
<1>3. s = [crtc |-> e.crtc, dot |-> d, line |-> l, since |-> late, left |-> n - late, armed |-> <<d, l>>]
  BY DEF Ran
<1> HIDE DEF e, s
<1>4. d \in DotTimers /\ l \in LineTimers
  BY <1>1, <1>2, CountKeeps
<1> HIDE DEF d, l
<1>5. n \in Nat
  BY <1>2, <1>4, EventFacts
<1>6. /\ s.crtc = e.crtc /\ s.dot = d /\ s.line = l /\ s.since = late /\ s.left = n - late
      /\ s.armed = <<d, l>>
  BY <1>3
<1>7. s.armed \in DotTimers \X LineTimers /\ s.armed[1] = d /\ s.armed[2] = l
  BY <1>4, <1>6
<1>8. n = EventTicks(s.crtc, mode, range, s.armed[1], s.armed[2])
  BY <1>6, <1>7
<1> HIDE DEF n
<1>9. n - late >= -MaxOverrun /\ n - late \in Int /\ late + (n - late) = n
  BY <1>5, BoundAssumption
<1>10. s.left \in Int /\ s.left >= -MaxOverrun /\ s.since + s.left = n
  BY <1>6, <1>9
<1> QED
  BY <1>2, <1>4, <1>6, <1>7, <1>8, <1>10 DEF Good, s

(* gpu_synchronize_crtc.                                                   *)
LEMMA SyncedGood ==
  ASSUME BeamInv
  PROVE  Good(Synced, mode, range) /\ Synced.since = 0
<1>1. mode \in Display /\ range \in Ranges /\ Good(Here, mode, range)
  BY DEF BeamInv
<1>2. CASE since = 0
  BY <1>1, <1>2 DEF Synced, Here
<1>3. CASE since # 0
  <2>1. since \in Nat /\ 0 \in Nat /\ 0 <= MaxOverrun
    BY <1>1, BoundAssumption DEF Good, Here
  <2>2. Synced = Ran(since, 0)
    BY <1>3 DEF Synced
  <2> QED
    BY <1>1, <2>1, <2>2, RanGood
<1> QED
  BY <1>2, <1>3

(* On other sizes the beam is put on their raster.                         *)
LEMMA FittedIn ==
  ASSUME NEW m \in Display, NEW k \in Display, NEW c \in Crtcs(k)
  PROVE  Fitted(c, m) \in Crtcs(m)
<1>1. /\ c.tick \in Nat /\ c.line \in Nat /\ m.htotal \in Nat \ {0} /\ m.vtotal \in Nat \ {0}
  BY ModeFacts DEF Crtcs
<1> DEFINE x == c.tick % m.htotal
           y == c.line % m.vtotal
<1>2. x \in 0..(m.htotal - 1) /\ y \in 0..(m.vtotal - 1)
  BY <1>1, Division
<1>3. Fitted(c, m) = [c EXCEPT !.tick = x, !.line = y]
  BY DEF Fitted
<1> HIDE DEF x, y
<1> QED
  BY <1>2, <1>3 DEF Crtcs

(* gpu_update_crtc_config.                                                 *)
LEMMA ConfiguredGood ==
  ASSUME NEW m \in Display, NEW r \in Ranges, NEW k \in Display, NEW q \in Ranges, NEW s,
         Good(s, k, q), s.since = 0,
         s = [crtc |-> s.crtc, dot |-> s.dot, line |-> s.line, since |-> s.since,
              left |-> s.left, armed |-> s.armed]
  PROVE  Good(Configured(s, m, r), m, r)
<1> DEFINE c == Fitted(s.crtc, m)
           n == EventTicks(c, m, r, s.dot, s.line)
           z == Configured(s, m, r)
<1>1. c \in Crtcs(m)
  BY FittedIn DEF Good
<1>2. s.dot \in DotTimers /\ s.line \in LineTimers
  BY DEF Good
<1>3. z = [s EXCEPT !.crtc = c, !.left = n, !.armed = <<s.dot, s.line>>]
  BY DEF Configured
<1> HIDE DEF c, z
<1>4. n \in Nat
  BY <1>1, <1>2, EventFacts
<1>5. /\ z.crtc = c /\ z.dot = s.dot /\ z.line = s.line /\ z.since = 0 /\ z.left = n
      /\ z.armed = <<s.dot, s.line>>
  BY <1>3
<1>6. z.armed \in DotTimers \X LineTimers /\ z.armed[1] = s.dot /\ z.armed[2] = s.line
  BY <1>2, <1>5
<1>7. n = EventTicks(z.crtc, m, r, z.armed[1], z.armed[2])
  BY <1>5, <1>6
<1> HIDE DEF n
<1>8. z.left \in Int /\ z.left >= -MaxOverrun /\ z.since + z.left = n
  BY <1>4, <1>5, BoundAssumption
<1> QED
  BY <1>1, <1>2, <1>5, <1>6, <1>7, <1>8 DEF Good, z

(* The settings of the timers are timers.                                  *)
LEMMA SettingsAreTimers == Dots \subseteq DotTimers /\ Lines \subseteq LineTimers
BY TimerAssumption DEF DotTimers, LineTimers

(* gpu_reset.                                                              *)
LEMMA InitBeam == CrtcInit => BeamInv
<1> SUFFICES ASSUME CrtcInit PROVE BeamInv
  OBVIOUS
<1>1. /\ crtc  = [line |-> 0, tick |-> 0, frac |-> 0, dotfrac |-> 0, vblank |-> FALSE]
      /\ mode  = DefaultDisplay /\ range = DefaultRange /\ dot \in Dots /\ line \in Lines
      /\ since = 0 /\ left = EventTicks(crtc, mode, range, dot, line) /\ armed = <<dot, line>>
  BY DEF CrtcInit
<1>2. mode \in Display /\ range \in Ranges
  BY <1>1, DisplayAssumption
<1>3. crtc \in Crtcs(mode)
  <2>1. mode.htotal \in Nat \ {0} /\ mode.vtotal \in Nat \ {0} /\ Den \in Nat \ {0}
    BY <1>2, ModeFacts, RateAssumption
  <2>2. 0 \in 0..(mode.htotal - 1) /\ 0 \in 0..(mode.vtotal - 1) /\ 0 \in 0..(Den - 1)
    BY <2>1
  <2> QED
    BY <1>1, <2>2 DEF Crtcs
<1>4. dot \in DotTimers /\ line \in LineTimers
  BY <1>1, SettingsAreTimers
<1>5. left \in Nat
  BY <1>1, <1>2, <1>3, <1>4, EventFacts
<1>6. armed[1] = dot /\ armed[2] = line /\ armed \in DotTimers \X LineTimers
  BY <1>1, <1>4
<1>7. left >= -MaxOverrun /\ since + left = left
  BY <1>1, <1>5, BoundAssumption
<1>8. left = EventTicks(crtc, mode, range, armed[1], armed[2]) /\ since \in Nat
  BY <1>1, <1>6
<1>9. /\ Here.crtc = crtc /\ Here.dot = dot /\ Here.line = line /\ Here.since = since
      /\ Here.left = left /\ Here.armed = armed
  BY DEF Here
<1> HIDE DEF CrtcInit
<1>10. Good(Here, mode, range)
  BY <1>3, <1>4, <1>5, <1>6, <1>7, <1>8, <1>9 DEF Good
<1> QED
  BY <1>2, <1>10 DEF BeamInv

(* What the variables become is good if it is.                             *)
LEMMA BecomeGood ==
  ASSUME NEW s, Become(s), mode' \in Display, range' \in Ranges, Good(s, mode', range')
  PROVE  BeamInv'
<1>1. /\ crtc' = s.crtc /\ dot' = s.dot /\ line' = s.line
      /\ since' = s.since /\ left' = s.left /\ armed' = s.armed
  BY DEF Become
<1>2. /\ Here'.crtc = s.crtc /\ Here'.dot = s.dot /\ Here'.line = s.line
      /\ Here'.since = s.since /\ Here'.left = s.left /\ Here'.armed = s.armed
  BY <1>1 DEF Here
<1>3. Good(Here', mode', range')
  BY <1>2 DEF Good
<1>4. Good(Here, mode, range)'
  BY <1>3 DEF Good
<1> QED
  BY <1>4 DEF BeamInv

(* The clock goes on.                                                      *)
LEMMA ElapseGood == BeamInv /\ CrtcElapse => BeamInv'
<1> SUFFICES ASSUME BeamInv, CrtcElapse PROVE BeamInv'
  OBVIOUS
<1>1. PICK n \in {1} \union {left + late : late \in 1..MaxOverrun} : since' = since + n /\ left' = left - n
  BY DEF CrtcElapse
<1>2. left > 0 /\ UNCHANGED <<crtc, mode, range, dot, line, armed>>
  BY DEF CrtcElapse
<1>3. /\ mode \in Display /\ range \in Ranges /\ crtc \in Crtcs(mode) /\ dot \in DotTimers
      /\ line \in LineTimers /\ armed \in DotTimers \X LineTimers
      /\ since \in Nat /\ left \in Int
      /\ since + left = EventTicks(crtc, mode, range, armed[1], armed[2])
  BY DEF BeamInv, Good, Here
<1>4. since' \in Nat /\ left' \in Int /\ left' >= -MaxOverrun /\ since' + left' = since + left
  BY <1>1, <1>2, <1>3, BoundAssumption
<1> DEFINE s == [crtc |-> crtc, dot |-> dot, line |-> line, since |-> since', left |-> left',
                 armed |-> armed]
<1>5. Good(s, mode, range)
  BY <1>3, <1>4 DEF Good
<1>6. Become(s)
  BY <1>2 DEF Become
<1>7. mode' = mode /\ range' = range
  BY <1>2
<1> HIDE DEF s
<1> QED
  BY <1>3, <1>5, <1>6, <1>7, BecomeGood

(* A GP1 command that changes sizes.                                       *)
LEMMA ReconfigureGood ==
  ASSUME BeamInv, NEW m \in Display, NEW r \in Ranges, Reconfigure(m, r)
  PROVE  BeamInv'
<1>1. Become(Configured(Synced, m, r)) /\ mode' = m /\ range' = r
  BY DEF Reconfigure
<1>2. mode \in Display /\ range \in Ranges /\ Good(Synced, mode, range) /\ Synced.since = 0
  BY SyncedGood DEF BeamInv
<1> DEFINE s == Synced
<1>3. s = [crtc |-> s.crtc, dot |-> s.dot, line |-> s.line, since |-> s.since,
           left |-> s.left, armed |-> s.armed]
  <2>1. CASE since = 0
    BY <2>1 DEF Synced, Here
  <2>2. CASE since # 0
    BY <2>2 DEF Synced, Ran
  <2> QED
    BY <2>1, <2>2
<1> HIDE DEF s
<1>4. Good(s, mode, range) /\ s.since = 0
  BY <1>2 DEF s
<1>5. Good(Configured(s, m, r), m, r)
  BY <1>2, <1>3, <1>4, ConfiguredGood
<1> QED
  BY <1>1, <1>5, BecomeGood DEF s

(* A register of a timer is written: the event stays where it is.          *)
LEMMA WrittenGood ==
  ASSUME NEW s, NEW m, NEW r, Good(s, m, r),
         s = [crtc |-> s.crtc, dot |-> s.dot, line |-> s.line, since |-> s.since,
              left |-> s.left, armed |-> s.armed]
  PROVE  /\ \A d \in DotTimers : Good([s EXCEPT !.dot = d], m, r)
         /\ \A l \in LineTimers : Good([s EXCEPT !.line = l], m, r)
<1>1. ASSUME NEW d \in DotTimers PROVE Good([s EXCEPT !.dot = d], m, r)
  <2> DEFINE z == [s EXCEPT !.dot = d]
  <2>1. /\ z.crtc = s.crtc /\ z.dot = d /\ z.line = s.line /\ z.since = s.since
        /\ z.left = s.left /\ z.armed = s.armed
    OBVIOUS
  <2> HIDE DEF z
  <2>2. Good(z, m, r)
    BY <2>1 DEF Good
  <2> QED
    BY <2>2 DEF z
<1>2. ASSUME NEW l \in LineTimers PROVE Good([s EXCEPT !.line = l], m, r)
  <2> DEFINE z == [s EXCEPT !.line = l]
  <2>1. /\ z.crtc = s.crtc /\ z.dot = s.dot /\ z.line = l /\ z.since = s.since
        /\ z.left = s.left /\ z.armed = s.armed
    OBVIOUS
  <2> HIDE DEF z
  <2>2. Good(z, m, r)
    BY <2>1 DEF Good
  <2> QED
    BY <2>2 DEF z
<1> QED
  BY <1>1, <1>2

(* Every step keeps the invariant.                                         *)
LEMMA NextBeam == BeamInv /\ [CrtcNext]_crtc_vars => BeamInv'
<1> SUFFICES ASSUME BeamInv, [CrtcNext]_crtc_vars PROVE BeamInv'
  OBVIOUS
<1>0. mode \in Display /\ range \in Ranges /\ Good(Here, mode, range)
  BY DEF BeamInv
<1>s. /\ \A d \in DotTimers : Good([Synced EXCEPT !.dot = d], mode, range)
      /\ \A l \in LineTimers : Good([Synced EXCEPT !.line = l], mode, range)
  <2> DEFINE s == Synced
  <2>1. s = [crtc |-> s.crtc, dot |-> s.dot, line |-> s.line, since |-> s.since,
             left |-> s.left, armed |-> s.armed]
    <3>1. CASE since = 0
      BY <3>1 DEF Synced, Here
    <3>2. CASE since # 0
      BY <3>2 DEF Synced, Ran
    <3> QED
      BY <3>1, <3>2
  <2>2. Good(s, mode, range)
    BY SyncedGood
  <2> HIDE DEF s
  <2>3. /\ \A d \in DotTimers : Good([s EXCEPT !.dot = d], mode, range)
        /\ \A l \in LineTimers : Good([s EXCEPT !.line = l], mode, range)
    BY <2>1, <2>2, WrittenGood
  <2> QED
    BY <2>3 DEF s
<1>h. /\ \A d \in DotTimers : Good([Here EXCEPT !.dot = d], mode, range)
      /\ \A l \in LineTimers : Good([Here EXCEPT !.line = l], mode, range)
  <2> DEFINE s == Here
  <2>1. s = [crtc |-> s.crtc, dot |-> s.dot, line |-> s.line, since |-> s.since,
             left |-> s.left, armed |-> s.armed]
    BY DEF Here
  <2> HIDE DEF s
  <2>2. Good(s, mode, range)
    BY <1>0 DEF s
  <2>3. /\ \A d \in DotTimers : Good([s EXCEPT !.dot = d], mode, range)
        /\ \A l \in LineTimers : Good([s EXCEPT !.line = l], mode, range)
    BY <2>1, <2>2, WrittenGood
  <2> QED
    BY <2>3 DEF s
<1>1. CASE CrtcElapse
  BY <1>1, ElapseGood
<1>2. CASE CrtcEvent
  <2>1. left <= 0 /\ Become(Ran(since + left, -left)) /\ mode' = mode /\ range' = range
    BY <1>2 DEF CrtcEvent
  <2>2. since + left \in Nat
    <3>1. /\ since + left = EventTicks(crtc, mode, range, armed[1], armed[2])
          /\ crtc \in Crtcs(mode) /\ armed \in DotTimers \X LineTimers
      BY <1>0 DEF Good, Here
    <3>2. armed[1] \in DotTimers /\ armed[2] \in LineTimers
      BY <3>1
    <3> QED
      BY <1>0, <3>1, <3>2, EventFacts
  <2>3. -left \in Nat /\ -left <= MaxOverrun
    BY <1>0, <2>1, BoundAssumption DEF Good, Here
  <2>4. Good(Ran(since + left, -left), mode, range)
    BY <1>0, <2>2, <2>3, RanGood
  <2> QED
    BY <1>0, <2>1, <2>4, BecomeGood
<1>3. CASE Synchronize
  <2>1. Become(Synced) /\ mode' = mode /\ range' = range
    BY <1>3 DEF Synchronize
  <2> QED
    BY <1>0, <2>1, SyncedGood, BecomeGood
<1>4. CASE CrtcSetDisplayMode
  <2>1. PICK m \in Display : Reconfigure(m, range)
    BY <1>4 DEF CrtcSetDisplayMode
  <2> QED
    BY <1>0, <2>1, ReconfigureGood
<1>5. CASE SetVerticalRange
  <2>1. PICK r \in Ranges : Reconfigure(mode, r)
    BY <1>5 DEF SetVerticalRange
  <2> QED
    BY <1>0, <2>1, ReconfigureGood
<1>6. CASE CrtcSoftReset
  BY <1>6, DisplayAssumption, ReconfigureGood DEF CrtcSoftReset
<1>7. CASE WriteDotTimer
  <2>1. PICK d \in Dots : \/ Become([Synced EXCEPT !.dot = d])
                          \/ Become([Here EXCEPT !.dot = d])
    BY <1>7 DEF WriteDotTimer
  <2>2. mode' = mode /\ range' = range /\ d \in DotTimers
    BY <1>7, SettingsAreTimers DEF WriteDotTimer
  <2> QED
    BY <1>0, <1>s, <1>h, <2>1, <2>2, BecomeGood
<1>8. CASE WriteLineTimer
  <2>1. PICK l \in Lines : \/ Become([Synced EXCEPT !.line = l])
                           \/ Become([Here EXCEPT !.line = l])
    BY <1>8 DEF WriteLineTimer
  <2>2. mode' = mode /\ range' = range /\ l \in LineTimers
    BY <1>8, SettingsAreTimers DEF WriteLineTimer
  <2> QED
    BY <1>0, <1>s, <1>h, <2>1, <2>2, BecomeGood
<1>9. CASE UNCHANGED crtc_vars
  <2>1. Become(Here) /\ mode' = mode /\ range' = range
    BY <1>9 DEF crtc_vars, Become, Here
  <2> QED
    BY <1>0, <2>1, BecomeGood
<1> QED
  BY <1>1, <1>2, <1>3, <1>4, <1>5, <1>6, <1>7, <1>8, <1>9 DEF CrtcNext

(* The beam is on the raster and the event in its place.                   *)
THEOREM BeamInvariance == CrtcSpec => []BeamInv
<1>1. CrtcInit => BeamInv
  BY InitBeam
<1>2. BeamInv /\ [CrtcNext]_crtc_vars => BeamInv'
  BY NextBeam
<1> QED
  BY <1>1, <1>2, PTL DEF CrtcSpec

-----------------------------------------------------------------------------
(* The event is in time.                                                   *)

(* Two quotients add up to the quotient of the sum, or one less.           *)
LEMMA QuotientSum ==
  ASSUME NEW a \in Nat, NEW b \in Nat, NEW d \in Nat \ {0}
  PROVE  (a + b) \div d <= 1 + a \div d + b \div d
<1> DEFINE p == a \div d
           q == b \div d
           x == a % d
           y == b % d
<1>1. /\ p \in Nat /\ x \in 0..(d - 1) /\ a = (p * d) + x
      /\ q \in Nat /\ y \in 0..(d - 1) /\ b = (q * d) + y
  BY Division
<1> HIDE DEF p, q, x, y
<1>2. (p + q) * d = p * d + q * d /\ p * d \in Nat /\ q * d \in Nat
  BY <1>1, TimesSum
<1> DEFINE z == IF x + y >= d THEN 1 ELSE 0
           w == IF x + y >= d THEN (x + y) - d ELSE x + y
<1>3. z \in 0..1 /\ w \in 0..(d - 1) /\ x + y = (z * d) + w /\ z * d \in Nat
  <2>1. CASE x + y >= d
    <3>1. z = 1 /\ w = (x + y) - d /\ 1 * d = d
      BY <2>1
    <3>2. w \in 0..(d - 1) /\ x + y = d + w
      BY <1>1, <2>1, <3>1
    <3> QED
      BY <3>1, <3>2
  <2>2. CASE ~(x + y >= d)
    <3>1. z = 0 /\ w = x + y /\ 0 * d = 0
      BY <2>2
    <3>2. w \in 0..(d - 1) /\ x + y = 0 + w
      BY <1>1, <2>2, <3>1
    <3> QED
      BY <3>1, <3>2
  <2> QED
    BY <2>1, <2>2
<1> HIDE DEF z, w
<1>4. ((p + q) + z) * d = (p + q) * d + z * d /\ (p + q) + z \in Nat
  BY <1>1, <1>3, TimesSum
<1>5. a + b = (((p + q) + z) * d) + w
  <2> DEFINE P == p * d
             Q == q * d
             Z == z * d
             S == (p + q) * d
             R == ((p + q) + z) * d
  <2>1. /\ P \in Nat /\ Q \in Nat /\ Z \in Nat /\ S = P + Q /\ R = S + Z
        /\ a = P + x /\ b = Q + y /\ x + y = Z + w /\ x \in Nat /\ y \in Nat /\ w \in Nat
    BY <1>1, <1>2, <1>3, <1>4
  <2> HIDE DEF P, Q, Z, S, R
  <2>2. a + b = R + w
    BY <2>1
  <2> QED
    BY <2>2 DEF R
<1>6. (a + b) \div d = (p + q) + z
  <2> DEFINE R == (p + q) + z
  <2>1. R \in Nat /\ w \in 0..(d - 1) /\ a + b = R * d + w
    BY <1>3, <1>4, <1>5
  <2> HIDE DEF R
  <2>2. (R * d + w) \div d = R
    BY <2>1, Quotient
  <2> QED
    BY <2>1, <2>2 DEF R
<1>7. (p + q) + z <= 1 + p + q
  BY <1>1, <1>3
<1> QED
  BY <1>6, <1>7 DEF p, q

(* The event comes when the beam has walked so far, or soon after; x video *)
(* ticks before it is there, that much earlier.                            *)
LEMMA Arrives ==
  ASSUME BeamInv, NEW x \in Nat,
         TicksUntilEvent(crtc, mode, range, armed[1], armed[2]) <= SysToCrtc(since, crtc.frac) + x
  PROVE  left <= CrtcToSys(x, 0) + Slack
<1> DEFINE u == TicksUntilEvent(crtc, mode, range, armed[1], armed[2])
           t == SysToCrtc(since, crtc.frac)
           f == crtc.frac
           S == since * Mul
           T == t * Den
           U == u * Den
           X == x * Den
           n == EventTicks(crtc, mode, range, armed[1], armed[2])
<1>1. /\ mode \in Display /\ range \in Ranges /\ crtc \in Crtcs(mode)
      /\ armed \in DotTimers \X LineTimers /\ since \in Nat /\ left \in Int /\ since + left = n
  BY DEF BeamInv, Good, Here
<1>2. Mul \in Nat \ {0} /\ Den \in Nat \ {0} /\ f \in 0..(Den - 1) /\ S \in Nat /\ X \in Nat
  BY <1>1, RateAssumption DEF Crtcs
<1>3. u \in Nat /\ n \in Nat
  <2>1. armed[1] \in DotTimers /\ armed[2] \in LineTimers
    BY <1>1
  <2> QED
    BY <1>1, <2>1, EventFacts
<1>4. t \in Nat /\ T \in Nat /\ T <= S + f
  <2>1. S + f \in Nat /\ t = (S + f) \div Den
    BY <1>2 DEF SysToCrtc
  <2> HIDE DEF S, f, t
  <2>2. t \in Nat /\ (S + f) % Den \in 0..(Den - 1) /\ S + f = (t * Den) + ((S + f) % Den)
    BY <1>2, <2>1, Division
  <2>3. t * Den \in Nat
    BY <1>2, <2>2
  <2> DEFINE r == (S + f) % Den
             V == t * Den
  <2>4. r \in Nat /\ V \in Nat /\ S + f = V + r /\ S + f \in Nat
    BY <1>2, <2>1, <2>2, <2>3
  <2> HIDE DEF r, V
  <2>5. V <= S + f
    BY <2>4
  <2> QED
    BY <2>2, <2>3, <2>5 DEF V
<1>5. U \in Nat /\ U <= T + X
  <2>1. u <= t + x
    OBVIOUS
  <2> HIDE DEF u, t
  <2>2. u * Den <= (t + x) * Den /\ (t + x) * Den = t * Den + x * Den /\ u * Den \in Nat
    BY <1>2, <1>3, <1>4, <2>1, TimesOrder, TimesSum
  <2> QED
    BY <2>2
<1>6. n = (U + f + Mul - 1) \div Mul
  BY DEF EventTicks, CrtcToSys
<1> DEFINE a == 2 * (Den - 1)
           b == X + Mul - 1
<1>7. a \in Nat /\ b \in Nat /\ CrtcToSys(x, 0) = b \div Mul /\ Slack = 1 + a \div Mul
  BY <1>2 DEF CrtcToSys, Slack
<1> HIDE DEF n, S, T, U, X, u, t, f
<1>8. U + f + Mul - 1 \in Nat /\ U + f + Mul - 1 <= S + (a + b) /\ S + (a + b) \in Nat
  BY <1>2, <1>4, <1>5
<1>9. n <= (S + (a + b)) \div Mul
  <2> HIDE DEF a, b
  <2> DEFINE A == U + f + Mul - 1
             B == S + (a + b)
  <2>1. A \in Nat /\ B \in Nat /\ A <= B /\ n = A \div Mul
    BY <1>6, <1>8
  <2> HIDE DEF A, B
  <2>2. n <= B \div Mul
    BY <1>2, <2>1, QuotientOrder
  <2> QED
    BY <2>2 DEF B
<1> HIDE DEF a, b
<1>10. (S + (a + b)) \div Mul = since + (a + b) \div Mul
  <2>1. since \in Nat /\ a + b \in Nat
    BY <1>1, <1>7
  <2>2. (since * Mul + (a + b)) \div Mul = since + (a + b) \div Mul
    <3> DEFINE c == a + b
    <3>1. c \in Nat
      BY <2>1
    <3> HIDE DEF c
    <3>2. (since * Mul + c) \div Mul = since + c \div Mul
      BY <1>2, <2>1, <3>1, QuotientPlus
    <3> QED
      BY <3>2 DEF c
  <2> QED
    BY <2>2 DEF S
<1>11. (a + b) \div Mul <= 1 + a \div Mul + b \div Mul
  BY <1>2, <1>7, QuotientSum
<1> DEFINE p == a \div Mul
           q == b \div Mul
           y == (a + b) \div Mul
<1>12. p \in Nat /\ q \in Nat /\ y \in Nat
  <2>1. a + b \in Nat
    BY <1>7
  <2> QED
    BY <1>2, <1>7, <2>1, Division
<1>13. n <= since + y /\ y <= 1 + p + q
  BY <1>9, <1>10, <1>11
<1>14. CrtcToSys(x, 0) = q /\ Slack = 1 + p
  BY <1>7
<1> HIDE DEF p, q, y
<1>15. left <= q + (1 + p)
  <2>1. since \in Nat /\ left \in Int /\ since + left = n
    BY <1>1 DEF n
  <2> QED
    BY <1>3, <1>12, <1>13, <2>1
<1> QED
  BY <1>14, <1>15

(* With no ticks to go it is late by Slack at most.                        *)
LEMMA ArrivesNow ==
  ASSUME BeamInv,
         TicksUntilEvent(crtc, mode, range, armed[1], armed[2]) <= SysToCrtc(since, crtc.frac)
  PROVE  left <= Slack
<1> DEFINE t == SysToCrtc(since, crtc.frac)
<1>1. t \in Nat
  <2>1. /\ mode \in Display /\ range \in Ranges /\ crtc \in Crtcs(mode) /\ since \in Nat
    BY DEF BeamInv, Good, Here
  <2> QED
    BY <2>1, AdvanceIs
<1>2. t = t + 0
  <2> HIDE DEF t
  <2> QED
    BY <1>1
<1>3. left <= CrtcToSys(0, 0) + Slack
  <2>1. TicksUntilEvent(crtc, mode, range, armed[1], armed[2]) <= SysToCrtc(since, crtc.frac) + 0
    BY <1>2
  <2> QED
    BY <2>1, Arrives
<1>4. CrtcToSys(0, 0) = 0
  <2>1. Mul \in Nat \ {0} /\ Den \in Nat
    BY RateAssumption
  <2>2. 0 * Den + 0 + Mul - 1 = 0 * Mul + (Mul - 1) /\ Mul - 1 \in 0..(Mul - 1)
    BY <2>1
  <2>3. (0 * Mul + (Mul - 1)) \div Mul = 0
    BY <2>1, <2>2, Quotient
  <2> QED
    BY <2>2, <2>3 DEF CrtcToSys
<1>5. Slack \in Int
  <2>1. 2 * (Den - 1) \in Nat /\ Mul \in Nat \ {0}
    BY RateAssumption
  <2> DEFINE a == 2 * (Den - 1)
  <2>2. Slack = 1 + a \div Mul /\ a \in Nat
    BY <2>1 DEF Slack
  <2> HIDE DEF a
  <2> QED
    BY <2>1, <2>2, Division
<1> QED
  BY <1>3, <1>4, <1>5

(* The event asks for its own time only where EventAdvances says.          *)
LEMMA AdvancesSo == BeamInv => EventAdvances
<1> SUFFICES ASSUME BeamInv, since = 0, left = 0
             PROVE  /\ crtc.frac = 0 /\ armed[1].ext
                    /\ \/ armed[1].until = Never /\ mode.divider % 2 = 0
                       \/ crtc.dotfrac >= mode.divider
  BY DEF EventAdvances
<1> DEFINE d == armed[1]
           l == armed[2]
           u == TicksUntilEvent(crtc, mode, range, d, l)
           f == crtc.frac
<1>1. /\ mode \in Display /\ range \in Ranges /\ crtc \in Crtcs(mode)
      /\ armed \in DotTimers \X LineTimers /\ since + left = EventTicks(crtc, mode, range, d, l)
  BY DEF BeamInv, Good, Here
<1>2. d \in DotTimers /\ l \in LineTimers
  BY <1>1
<1> HIDE DEF d, l
<1>3. /\ u \in Nat /\ TicksOfDots(crtc, mode, d) \in Int
      /\ u = 0 => DotsComeFirst(mode, d) /\ TicksOfDots(crtc, mode, d) <= 0
  BY <1>1, <1>2, EventFacts
<1>4. Mul \in Nat \ {0} /\ Den \in Nat \ {0} /\ f \in Nat
  BY <1>1, RateAssumption DEF Crtcs
<1>5. (u * Den + f + Mul - 1) \div Mul = 0
  BY <1>1 DEF EventTicks, CrtcToSys
<1>6. u * Den + f = 0
  <2> DEFINE P == u * Den
             A == P + f + Mul - 1
  <2>1. P \in Nat
    BY <1>3, <1>4
  <2>2. A \div Mul = 0 /\ A \in Nat /\ A = P + f + Mul - 1
    BY <1>4, <1>5, <2>1
  <2> HIDE DEF A, P, f
  <2>3. A % Mul \in 0..(Mul - 1) /\ A = ((A \div Mul) * Mul) + (A % Mul)
    BY <1>4, <2>2, Division
  <2>4. A < Mul
    BY <1>4, <2>2, <2>3
  <2>5. P + f = 0
    BY <1>4, <2>1, <2>2, <2>4
  <2> QED
    BY <2>5 DEF P
<1>7. u = 0 /\ f = 0
  <2> HIDE DEF u, f
  <2>1. u # 0 => 1 * Den <= u * Den /\ u * Den \in Nat /\ 1 * Den = Den
    BY <1>3, <1>4, TimesOrder
  <2>2. u = 0
    BY <1>4, <1>6, <2>1
  <2>3. 0 * Den = 0
    BY <1>4
  <2> QED
    BY <1>4, <1>6, <2>2, <2>3
<1>8. d.ext /\ d.until # Off /\ (d.until = Never => mode.divider % 2 = 0)
  BY <1>3, <1>7 DEF DotsComeFirst
<1>9. ASSUME d.until # Never PROVE crtc.dotfrac >= mode.divider
  <2>1. d.until \in Nat \ {0} /\ mode.divider \in Nat \ {0} /\ crtc.dotfrac \in Nat
    BY <1>1, <1>2, <1>8, <1>9, ModeFacts DEF DotTimers, Off, Crtcs
  <2>2. d.until * mode.divider - crtc.dotfrac <= 0
    BY <1>3, <1>7, <1>9 DEF TicksOfDots
  <2>3. 1 * mode.divider <= d.until * mode.divider /\ 1 * mode.divider = mode.divider
        /\ d.until * mode.divider \in Nat
    BY <2>1, TimesOrder
  <2> QED
    BY <2>1, <2>2, <2>3
<1> QED
  BY <1>7, <1>8, <1>9 DEF d

(* The variables are in range.                                             *)
LEMMA BeamTypes == BeamInv => CrtcTypeOK
<1> SUFFICES ASSUME BeamInv PROVE CrtcTypeOK
  OBVIOUS
<1>1. /\ mode \in Display /\ range \in Ranges /\ crtc \in Crtcs(mode) /\ dot \in DotTimers
      /\ line \in LineTimers /\ since \in Nat /\ left \in Int /\ left >= -MaxOverrun
  BY DEF BeamInv, Good, Here
<1>2. /\ crtc.line \in 0..(mode.vtotal - 1) /\ crtc.tick \in 0..(mode.htotal - 1)
      /\ crtc.frac \in 0..(Den - 1) /\ crtc.dotfrac \in Nat /\ crtc.vblank \in BOOLEAN
  BY <1>1 DEF Crtcs
<1>3. dot.until \in Nat \union {Never} /\ line.until \in Nat \union {Never}
  BY <1>1 DEF DotTimers, LineTimers
<1> QED
  BY <1>1, <1>2, <1>3 DEF CrtcTypeOK

(* Whenever the event runs, early, in time or late, it finds the beam      *)
(* where a beam moved tick by tick would be, has given the timers the dots *)
(* and lines passed, and raised the vertical blank once a frame            *)
(* (gpu_crtc_tick_event).                                                  *)
THEOREM BulkIsTheBeam == CrtcSpec => []BeamIsExact
<1>1. BeamInv => BeamIsExact
  <2> SUFFICES ASSUME BeamInv PROVE BeamIsExact
    OBVIOUS
  <2>1. mode \in Display /\ range \in Ranges /\ crtc \in Crtcs(mode) /\ since \in Nat
    BY DEF BeamInv, Good, Here
  <2>2. BulkIsExact /\ VblankEachFrame
    BY <2>1, BeamExact
  <2> QED
    BY <2>2, AdvancesSo, BeamTypes DEF BeamIsExact
<1> QED
  BY <1>1, BeamInvariance, PTL

(* The tick on which the beam is after u lines.                            *)
LEMMA TicksOf ==
  ASSUME NEW h \in Nat \ {0}, NEW u \in Nat, NEW v \in Nat, NEW x \in Nat, NEW t \in Nat, NEW y \in Nat,
         x + t = u * h + y, v <= u
  PROVE  v * h - x <= t
<1>1. v * h <= u * h /\ v * h \in Nat /\ u * h \in Nat
  BY TimesOrder
<1> DEFINE V == v * h
           U == u * h
<1>2. V \in Nat /\ U \in Nat /\ V <= U /\ x + t = U + y
  BY <1>1
<1> HIDE DEF U, V
<1>3. V - x <= t
  BY <1>2
<1> QED
  BY <1>3 DEF V

(* The event is at an edge of the blank when the beam has passed one.      *)
LEMMA EdgeOnTime ==
  ASSUME BeamInv, NEW u \in Nat, NEW y \in Nat,
         crtc.tick + SysToCrtc(since, crtc.frac) = u * mode.htotal + y,
         u >= LinesToEdge(crtc, mode, range, armed[2].sync)
  PROVE  left <= Slack
<1> DEFINE d == armed[1]
           l == armed[2]
           t == SysToCrtc(since, crtc.frac)
           L == LinesUntilEvent(crtc, mode, range, l)
           T == TicksOfLines(crtc, mode, range, l)
           E == TicksUntilEvent(crtc, mode, range, d, l)
           G == LinesToEdge(crtc, mode, range, l.sync)
<1>1. /\ mode \in Display /\ range \in Ranges /\ crtc \in Crtcs(mode) /\ since \in Nat
      /\ armed \in DotTimers \X LineTimers
  BY DEF BeamInv, Good, Here
<1>2. d \in DotTimers /\ l \in LineTimers
  BY <1>1
<1>3. t \in Nat
  BY <1>1, AdvanceIs
<1>4. mode.htotal \in Nat \ {0} /\ crtc.tick \in Nat /\ crtc.line \in 0..(mode.vtotal - 1)
      /\ mode.vtotal \in Nat /\ range.start \in Nat /\ range.end \in Nat
  BY <1>1, ModeFacts, RangeFacts DEF Crtcs
<1>5. G \in Int
  BY <1>4 DEF LinesToEdge
<1>6. L \in Nat \ {0} /\ T \in Nat /\ E \in Nat /\ E <= T /\ L <= G
  <2> HIDE DEF d, l
  <2> QED
    BY <1>1, <1>2, EventFacts
<1>7. T = L * mode.htotal - crtc.tick
  BY DEF TicksOfLines
<1>8. u >= G /\ crtc.tick + t = u * mode.htotal + y
  OBVIOUS
<1> HIDE DEF L, T, E, G, t, d, l
<1>9. L \in Nat /\ L <= u
  BY <1>5, <1>6, <1>8
<1>10. L * mode.htotal - crtc.tick <= t
  BY <1>3, <1>4, <1>8, <1>9, TicksOf
<1>11. E <= t
  BY <1>3, <1>6, <1>7, <1>10
<1> QED
  BY <1>11, ArrivesNow DEF E, t, d, l

(* The event comes for every edge of the blank, and for the interrupts of  *)
(* the timers.                                                             *)
LEMMA BeamOnTime == BeamInv => EdgesAreOnTime
<1> SUFFICES ASSUME BeamInv PROVE EdgesAreOnTime
  OBVIOUS
<1> DEFINE t == SysToCrtc(since, crtc.frac)
           b == Beam
           d == armed[1]
           l == armed[2]
<1>1. /\ mode \in Display /\ range \in Ranges /\ crtc \in Crtcs(mode) /\ since \in Nat
      /\ armed \in DotTimers \X LineTimers
  BY DEF BeamInv, Good, Here
<1>2. d \in DotTimers /\ l \in LineTimers
  BY <1>1
<1>3. /\ mode.htotal \in Nat \ {0} /\ mode.vtotal \in Nat \ {0} /\ mode.divider \in Nat \ {0}
      /\ crtc.tick \in 0..(mode.htotal - 1) /\ crtc.line \in 0..(mode.vtotal - 1)
      /\ crtc.dotfrac \in Nat /\ range.start \in Nat /\ range.end \in Nat /\ t \in Nat
  <2>1. t \in Nat
    BY <1>1, AdvanceIs
  <2> QED
    BY <1>1, <2>1, ModeFacts, RangeFacts DEF Crtcs
<1>4. PICK u \in Nat, w \in Nat :
        WalkedSo(b, u, w, t, crtc, mode, range) /\ EdgeSo(b, u, crtc, mode, range)
  BY <1>1, BeamIs DEF Walked
<1> HIDE DEF b
<1>5. /\ b.tick \in 0..(mode.htotal - 1) /\ crtc.tick + t = u * mode.htotal + b.tick
      /\ b.dots = crtc.dotfrac + t
      /\ b.lines = (u + Shown(b.tick, mode)) - Shown(crtc.tick, mode)
      /\ b.starts \in Nat /\ b.ends \in Nat
  BY <1>4 DEF WalkedSo
<1>6. /\ b.starts > 0 => u >= LinesToEdge(crtc, mode, range, FALSE) /\ range.start < range.end
      /\ b.starts + b.ends > 0 /\ crtc.line >= range.start =>
           u >= LinesToEdge(crtc, mode, range, TRUE)
  BY <1>4 DEF EdgeSo
<1>7. l.sync \in BOOLEAN
  BY <1>2 DEF LineTimers
<1>8. b.tick \in Nat
  BY <1>5
<1>9. ASSUME b.starts > 0 PROVE left <= Slack
  <2>1. u >= LinesToEdge(crtc, mode, range, FALSE) /\ range.start < range.end
    BY <1>6, <1>9
  <2>2. u >= LinesToEdge(crtc, mode, range, TRUE)
    BY <1>3, <2>1 DEF LinesToEdge
  <2>3. u >= LinesToEdge(crtc, mode, range, armed[2].sync)
    <3>1. CASE l.sync = TRUE
      BY <2>2, <3>1
    <3>2. CASE l.sync = FALSE
      BY <2>1, <3>2
    <3> QED
      BY <1>7, <3>1, <3>2
  <2> QED
    BY <1>5, <1>8, <2>3, EdgeOnTime
<1>10. ASSUME AsArmed, line.sync, crtc.line >= range.start, b.starts + b.ends > 0
       PROVE  left <= Slack
  <2>1. u >= LinesToEdge(crtc, mode, range, TRUE)
    BY <1>6, <1>10
  <2>2. armed[2].sync = TRUE
    <3>1. l = line
      BY <1>10 DEF AsArmed
    <3>2. l.sync
      BY <1>10, <3>1
    <3> QED
      BY <1>7, <3>2
  <2> QED
    BY <1>5, <1>8, <2>1, <2>2, EdgeOnTime
<1>11. VblankIsOnTime
  BY <1>9 DEF VblankIsOnTime, b
<1>12. GateIsOnTime
  BY <1>10 DEF GateIsOnTime, b
<1>13. ASSUME AsArmed, dot.ext, dot.until > 0, b.dots >= dot.until * mode.divider
       PROVE  left <= Slack
  <2> DEFINE D == TicksOfDots(crtc, mode, d)
             T == TicksOfLines(crtc, mode, range, l)
             E == TicksUntilEvent(crtc, mode, range, d, l)
  <2>1. d = dot
    BY <1>13 DEF AsArmed
  <2>2. d.ext /\ d.until # Off /\ d.until # Never /\ d.until \in Nat
    BY <1>2, <1>13, <2>1 DEF DotTimers, Off, Never
  <2>3. DotsComeFirst(mode, d) /\ D = d.until * mode.divider - crtc.dotfrac
    BY <2>2 DEF DotsComeFirst, TicksOfDots
  <2>4. E = Lower(T, IF D > 0 THEN D ELSE 0)
    BY <2>3 DEF TicksUntilEvent
  <2>5. T \in Nat /\ E \in Nat /\ D \in Int
    <3> HIDE DEF d, l
    <3> QED
      BY <1>1, <1>2, EventFacts
  <2>6. D <= t
    <3> DEFINE P == d.until * mode.divider
    <3>1. P \in Nat /\ crtc.dotfrac + t >= P /\ D = P - crtc.dotfrac
      BY <1>3, <1>5, <1>13, <2>1, <2>2, <2>3
    <3> HIDE DEF P, D, t
    <3> QED
      BY <1>3, <3>1
  <2> HIDE DEF D, T, E, t
  <2>7. E <= t
    BY <1>3, <2>4, <2>5, <2>6 DEF Lower
  <2> QED
    BY <2>7, ArrivesNow DEF E, t
<1>14. ASSUME AsArmed, line.ext, line.until > 0, b.lines >= line.until
       PROVE  left <= LineTicks + Slack
  <2> DEFINE h == mode.htotal
             L == LinesUntilEvent(crtc, mode, range, l)
             T == TicksOfLines(crtc, mode, range, l)
             E == TicksUntilEvent(crtc, mode, range, d, l)
  <2>1. l = line
    BY <1>14 DEF AsArmed
  <2>2. l.ext /\ l.until \notin {Off, Never} /\ l.until \in Nat
    BY <1>2, <1>14, <2>1 DEF LineTimers, Off, Never
  <2>3. L = Lower(l.until, LinesToEdge(crtc, mode, range, l.sync))
    BY <2>2 DEF LinesUntilEvent
  <2>4. L \in Nat \ {0} /\ T \in Nat /\ E \in Nat /\ E <= T
    <3> HIDE DEF d, l
    <3> QED
      BY <1>1, <1>2, EventFacts
  <2>5. L <= l.until
    <3>1. LinesToEdge(crtc, mode, range, l.sync) \in Int
      BY <1>3 DEF LinesToEdge
    <3> QED
      BY <2>2, <2>3, <3>1 DEF Lower
  <2>6. L - 1 \in Nat /\ L - 1 <= u
    <3>1. Shown(b.tick, mode) \in 0..1 /\ Shown(crtc.tick, mode) \in 0..1
      BY DEF Shown
    <3>2. (u + Shown(b.tick, mode)) - Shown(crtc.tick, mode) >= l.until
      BY <1>5, <1>14, <2>1
    <3> HIDE DEF L, l
    <3> QED
      BY <2>2, <2>4, <2>5, <3>1, <3>2
  <2>7. T = L * h - crtc.tick
    BY DEF TicksOfLines
  <2> HIDE DEF L, T, E, t, l, d
  <2>8. (L - 1) * h - crtc.tick <= t
    <3> DEFINE v == L - 1
    <3>1. v \in Nat /\ v <= u /\ crtc.tick + t = u * h + b.tick /\ crtc.tick \in Nat
      BY <1>3, <1>5, <2>6
    <3> HIDE DEF v
    <3>2. v * h - crtc.tick <= t
      BY <1>3, <1>8, <3>1, TicksOf
    <3> QED
      BY <3>2 DEF v
  <2>9. E <= t + h
    <3> DEFINE v == L - 1
               P == v * h
               Q == L * h
    <3>1. v \in Nat /\ L = v + 1
      BY <2>4, <2>6
    <3>2. Q = P + h /\ P \in Nat
      <4> HIDE DEF v
      <4>1. (v + 1) * h = v * h + 1 * h /\ v * h \in Nat /\ 1 * h = h
        BY <1>3, <3>1, TimesSum
      <4> QED
        BY <3>1, <4>1
    <3>3. T = Q - crtc.tick /\ P - crtc.tick <= t
      BY <2>7, <2>8
    <3> HIDE DEF P, Q, v
    <3> QED
      BY <1>3, <2>4, <3>2, <3>3
  <2>10. h \in Nat
    BY <1>3
  <2>11. left <= CrtcToSys(h, 0) + Slack
    <3> HIDE DEF h
    <3> QED
      BY <2>9, <2>10, Arrives DEF E, t, l, d
  <2> QED
    BY <2>11 DEF LineTicks
<1>15. InterruptsAreDue
  BY <1>13, <1>14 DEF InterruptsAreDue, b
<1> QED
  BY <1>11, <1>12, <1>15 DEF EdgesAreOnTime

(* No interrupt waits for a register access: the event comes when the beam *)
(* comes into the vertical blank, at both its ends with timer 1            *)
(* synchronised, and when a timer's dots or lines have been counted        *)
(* (gpu_update_crtc_tick_event).                                           *)
THEOREM NoEdgeWaits == CrtcSpec => []EdgesAreOnTime
BY BeamInvariance, BeamOnTime, PTL

=============================================================================
