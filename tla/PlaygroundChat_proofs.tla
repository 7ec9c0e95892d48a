------------------------- MODULE PlaygroundChat_proofs -------------------------
(***************************************************************************)
(* Theorems about PlaygroundChat, for any number of requests, chunks and   *)
(* messages and a queue of any length: types, that an answer shows what    *)
(* its own request said, in order (ShowsOwnText), all of it when a stream  *)
(* without stutter is done (WholeWhenDone), and that an idle page shows no *)
(* answer as under way (NothingStuck).                                     *)
(*                                                                         *)
(* The queue is reasoned about one updater at a time: running a queue with *)
(* one more updater is running that updater on the result (RunAllAppend).  *)
(* This rests on the least-number principle for sets of naturals.          *)
(***************************************************************************)
EXTENDS PlaygroundChat, TLAPS, WellFoundedInduction, SequenceTheorems

--------------------------------------------------------------------------------
(* Running a queue. *)

\* A set of numbers closed under successor holds every number.
LEMMA Inductive ==
    ASSUME NEW T, T \subseteq Nat, 0 \in T, \A n \in T : n + 1 \in T
    PROVE  T = Nat
<1>1. SUFFICES ASSUME Nat \ T # {} PROVE FALSE BY <1>1
<1>2. PICK x \in Nat \ T : \A y \in Nat \ T : ~(<<y, x>> \in OpToRel(<, Nat))
  BY <1>1, WFMin, NatLessThanWellFounded
<1>3. x # 0 OBVIOUS
<1>4. x - 1 \in Nat /\ x = (x - 1) + 1 BY <1>3
<1>5. x - 1 \in Nat \ T BY <1>4
<1>6. <<x - 1, x>> \in OpToRel(<, Nat) BY <1>4 DEF OpToRel
<1> QED BY <1>2, <1>5, <1>6

\* The conversations after 0 to k updaters of a queue.
Stages(us, ms, now, k, a) ==
    k \in Nat /\ a = [n \in 0 .. k |-> IF n = 0 THEN ms ELSE Run(us[n], a[n - 1], now)]

\* Stage p is followed by stage n.
Follows(p, n, k) == p \in 0 .. k /\ n \in 1 .. k /\ n = p + 1

\* The first stage is the conversation itself.
LEMMA FirstStage ==
    ASSUME NEW us, NEW ms, NEW now, NEW k, NEW a, Stages(us, ms, now, k, a)
    PROVE  a[0] = ms
<1>1. k \in Nat /\ a = [n \in 0 .. k |-> IF n = 0 THEN ms ELSE Run(us[n], a[n - 1], now)] BY Zenon DEF Stages
<1>2. 0 \in 0 .. k BY <1>1
<1> QED BY <1>1, <1>2, Zenon

\* Each stage is made of the one before it.
LEMMA NextStage ==
    ASSUME NEW us, NEW ms, NEW now, NEW k, NEW a, Stages(us, ms, now, k, a), NEW p, NEW n, Follows(p, n, k)
    PROVE  a[n] = Run(us[n], a[p], now)
<1>1. k \in Nat /\ a = [i \in 0 .. k |-> IF i = 0 THEN ms ELSE Run(us[i], a[i - 1], now)] BY Zenon DEF Stages
<1>2. n \in 0 .. k /\ n # 0 /\ n - 1 = p BY <1>1 DEF Follows
<1>3. a[n] = Run(us[n], a[n - 1], now) BY <1>1, <1>2, Zenon
<1> QED BY <1>2, <1>3

\* Every queue can be run.
LEMMA StagesExist ==
    ASSUME NEW us, NEW ms, NEW now
    PROVE  \A k \in Nat : \E a : Stages(us, ms, now, k, a)
<1> DEFINE T == {k \in Nat : \E a : Stages(us, ms, now, k, a)}
<1>1. 0 \in T
  <2> DEFINE a == [n \in 0 .. 0 |-> ms]
  <2>1. a = [n \in 0 .. 0 |-> IF n = 0 THEN ms ELSE Run(us[n], a[n - 1], now)] OBVIOUS
  <2>2. Stages(us, ms, now, 0, a) BY <2>1 DEF Stages
  <2> QED BY <2>2
<1>2. ASSUME NEW k \in T PROVE k + 1 \in T
  <2>1. PICK a : Stages(us, ms, now, k, a) BY <1>2
  <2>2. a[0] = ms BY <2>1, FirstStage
  <2> DEFINE b == [n \in 0 .. k + 1 |-> IF n = k + 1 THEN Run(us[n], a[k], now) ELSE a[n]]
             F(n) == IF n = 0 THEN ms ELSE Run(us[n], b[n - 1], now)
  <2>3. ASSUME NEW n \in 0 .. k + 1 PROVE b[n] = F(n)
    <3>1. k \in Nat /\ n \in Nat BY <1>2
    <3>2. CASE n = 0 BY <2>2, <3>1, <3>2
    <3>3. CASE n \in 1 .. k
      <4>1. n - 1 \in 0 .. k + 1 /\ n - 1 # k + 1 /\ n # k + 1 /\ n # 0 BY <3>1, <3>3
      <4>2. b[n] = a[n] /\ b[n - 1] = a[n - 1] BY <4>1
      <4>3. Follows(n - 1, n, k) BY <3>1, <3>3 DEF Follows
      <4>4. a[n] = Run(us[n], a[n - 1], now) BY <2>1, <4>3, NextStage
      <4> QED BY <4>1, <4>2, <4>4
    <3>4. CASE n = k + 1
      <4>1. n - 1 = k /\ k \in 0 .. k + 1 /\ k # k + 1 /\ n # 0 BY <3>1, <3>4
      <4>2. b[k] = a[k] /\ b[n] = Run(us[n], a[k], now) BY <3>4, <4>1
      <4> QED BY <4>1, <4>2
    <3> QED BY <3>1, <3>2, <3>3, <3>4
  <2>4. b = [n \in 0 .. k + 1 |-> F(n)] BY <2>3
  <2>5. Stages(us, ms, now, k + 1, b) BY <2>4 DEF Stages
  <2>6. k + 1 \in Nat BY <1>2
  <2> QED BY <2>5, <2>6
<1>3. T = Nat BY <1>1, <1>2, Inductive
<1> QED BY <1>3

\* Queue vs of length l continues queue us of length k.
Longer(us, k, vs, l) == k \in Nat /\ l \in Nat /\ k <= l /\ \A n \in 1 .. k : us[n] = vs[n]

\* A longer queue begins with the same stages.
LEMMA StagesAgree ==
    ASSUME NEW us, NEW vs, NEW ms, NEW now, NEW k, NEW l, NEW a, NEW b, Longer(us, k, vs, l),
           Stages(us, ms, now, k, a), Stages(vs, ms, now, l, b)
    PROVE  a[k] = b[k]
<1> DEFINE T == {n \in Nat : n <= k => a[n] = b[n]}
<1>1. k \in Nat /\ l \in Nat /\ k <= l /\ \A n \in 1 .. k : us[n] = vs[n] BY DEF Longer
<1>2. 0 \in T
  <2>1. a[0] = ms /\ b[0] = ms BY FirstStage
  <2> QED BY <2>1
<1>3. ASSUME NEW n \in T PROVE n + 1 \in T
  <2>1. CASE n + 1 <= k
    <3>1. PICK m \in Nat : m = n + 1 OBVIOUS
    <3>2. Follows(n, m, k) /\ Follows(n, m, l) /\ m \in 1 .. k /\ n <= k BY <1>1, <2>1, <3>1 DEF Follows
    <3>3. a[m] = Run(us[m], a[n], now) BY <3>2, NextStage
    <3>4. b[m] = Run(vs[m], b[n], now) BY <3>2, NextStage
    <3>5. us[m] = vs[m] /\ a[n] = b[n] BY <1>1, <3>2
    <3> QED BY <3>1, <3>3, <3>4, <3>5
  <2>2. CASE ~(n + 1 <= k) BY <2>2
  <2> QED BY <2>1, <2>2
<1>4. T = Nat BY <1>2, <1>3, Inductive
<1> QED BY <1>1, <1>4

\* Running a queue ends at its last stage.
LEMMA RunAllStages ==
    ASSUME NEW us, NEW ms, NEW now, Len(us) \in Nat
    PROVE  \E a : Stages(us, ms, now, Len(us), a) /\ RunAll(us, ms, now) = a[Len(us)]
<1>1. RunAll(us, ms, now) = (CHOOSE a : Stages(us, ms, now, Len(us), a))[Len(us)] BY DEF RunAll, Stages
<1>2. \E a : Stages(us, ms, now, Len(us), a) BY StagesExist
<1> QED BY <1>1, <1>2

\* An empty queue changes nothing.
LEMMA RunAllEmpty ==
    ASSUME NEW ms, NEW now
    PROVE  RunAll(<<>>, ms, now) = ms
<1>1. Len(<<>>) = 0 OBVIOUS
<1>2. PICK a : Stages(<<>>, ms, now, 0, a) /\ RunAll(<<>>, ms, now) = a[0] BY <1>1, RunAllStages
<1>3. a[0] = ms BY <1>2, FirstStage
<1> QED BY <1>2, <1>3

\* An updater at the end of the queue runs on what the others leave.
LEMMA RunAllAppend ==
    ASSUME NEW S, NEW us \in Seq(S), NEW u \in S, NEW ms, NEW now
    PROVE  RunAll(Append(us, u), ms, now) = Run(u, RunAll(us, ms, now), now)
<1> DEFINE vs == Append(us, u)
           k == Len(us)
           l == Len(vs)
<1>1. k \in Nat /\ l \in Nat /\ vs[l] = u /\ Longer(us, k, vs, l) BY DEF Longer
<1>2. Follows(k, l, l) BY DEF Follows
<1>3. PICK a : Stages(us, ms, now, k, a) /\ RunAll(us, ms, now) = a[k] BY <1>1, RunAllStages
<1>4. PICK b : Stages(vs, ms, now, l, b) /\ RunAll(vs, ms, now) = b[l] BY <1>1, RunAllStages
<1> HIDE DEF vs, k, l
<1>5. a[k] = b[k] BY <1>1, <1>3, <1>4, StagesAgree
<1>6. b[l] = Run(vs[l], b[k], now) BY <1>2, <1>4, NextStage
<1>7. RunAll(vs, ms, now) = Run(u, RunAll(us, ms, now), now) BY <1>1, <1>3, <1>4, <1>5, <1>6
<1> QED BY <1>7 DEF vs
\* One or two updaters after a queue.
LEMMA RunAllOne ==
    ASSUME NEW S, NEW us \in Seq(S), NEW u, NEW ms, NEW now
    PROVE  RunAll(us \o <<u>>, ms, now) = Run(u, RunAll(us, ms, now), now)
<1> DEFINE T == S \cup {u}
<1>1. us \in Seq(T) /\ u \in T BY SeqMonotonic
<1> HIDE DEF T
<1>2. us \o <<u>> = Append(us, u) BY <1>1, AppendIsConcat
<1>3. RunAll(Append(us, u), ms, now) = Run(u, RunAll(us, ms, now), now) BY <1>1, RunAllAppend
<1> QED BY <1>2, <1>3

\* Two updaters are one after the other.
LEMMA ConcatPair ==
    ASSUME NEW S, NEW us \in Seq(S), NEW u \in S, NEW v \in S
    PROVE  <<u>> \o <<v>> = <<u, v>> /\ us \o <<u, v>> = (us \o <<u>>) \o <<v>>
<1>1. \A w : w = <<u>> \o <<v>> => w \in Seq(S) /\ Len(w) = 2 /\ w[1] = u /\ w[2] = v OBVIOUS
<1>2. \A w : w = <<u, v>> => w \in Seq(S) /\ Len(w) = 2 /\ w[1] = u /\ w[2] = v OBVIOUS
<1>3. PICK x : x = <<u>> \o <<v>> OBVIOUS
<1>4. PICK y : y = <<u, v>> OBVIOUS
<1>5. x \in Seq(S) /\ Len(x) = 2 /\ x[1] = u /\ x[2] = v BY <1>1, <1>3
<1>6. y \in Seq(S) /\ Len(y) = 2 /\ y[1] = u /\ y[2] = v BY <1>2, <1>4
<1>7. \A i \in 1 .. 2 : x[i] = y[i] BY <1>5, <1>6
<1>8. x = y BY <1>5, <1>6, <1>7, SeqEqual
<1>9. <<u>> \in Seq(S) /\ <<v>> \in Seq(S) OBVIOUS
<1>10. us \o (<<u>> \o <<v>>) = (us \o <<u>>) \o <<v>> BY <1>9, ConcatAssociative
<1> QED BY <1>3, <1>4, <1>8, <1>10

LEMMA RunAllTwo ==
    ASSUME NEW S, NEW us \in Seq(S), NEW u, NEW v, NEW ms, NEW now
    PROVE  RunAll(us \o <<u, v>>, ms, now) = Run(v, Run(u, RunAll(us, ms, now), now), now)
<1> DEFINE T == S \cup {u, v}
<1>1. us \in Seq(T) /\ u \in T /\ v \in T
  <2>1. S \subseteq T OBVIOUS
  <2>2. us \in Seq(T) BY <2>1, SeqMonotonic
  <2> QED BY <2>2
<1> HIDE DEF T
<1>2. us \o <<u, v>> = (us \o <<u>>) \o <<v>> BY <1>1, ConcatPair
<1>3. us \o <<u>> \in Seq(T)
  <2>1. <<u>> \in Seq(T) BY <1>1
  <2> QED BY <1>1, <2>1, ConcatProperties
<1>4. PICK ws \in Seq(T) : ws = us \o <<u>> BY <1>3
<1>5. RunAll(ws \o <<v>>, ms, now) = Run(v, RunAll(ws, ms, now), now) BY RunAllOne
<1>6. RunAll(us \o <<u>>, ms, now) = Run(u, RunAll(us, ms, now), now) BY <1>1, RunAllOne
<1> QED BY <1>2, <1>4, <1>5, <1>6

\* One updater alone.
LEMMA RunAllAlone ==
    ASSUME NEW u, NEW ms, NEW now
    PROVE  RunAll(<<u>>, ms, now) = Run(u, ms, now)
<1> DEFINE none == <<>>
           T == {u}
<1>1. none \in Seq(T) /\ RunAll(none, ms, now) = ms BY RunAllEmpty
<1>2. none \o <<u>> = <<u>>
  <2>1. <<u>> \in Seq(T) OBVIOUS
  <2> QED BY <2>1, ConcatEmptySeq
<1> HIDE DEF none, T
<1>3. RunAll(none \o <<u>>, ms, now) = Run(u, ms, now) BY <1>1, RunAllOne
<1> QED BY <1>2, <1>3
--------------------------------------------------------------------------------
(* Texts. *)

Pieces == Gens \X (Nat \ {0})

\* p is the text of pieces a + 1 to b of request g.
IsPart(p, g, a, b) ==
    /\ g \in Gens /\ a \in Nat /\ b \in Nat /\ a <= b
    /\ p \in Seq(Pieces) /\ Len(p) = b - a
    /\ \A i \in 1 .. Len(p) : p[i] = <<g, a + i>>

\* Numbers in order.
Ordered(a, b) == a \in Nat /\ b \in Nat /\ a <= b

\* Part is what it says.
LEMMA PartIsPart ==
    ASSUME NEW g \in Gens, NEW a, NEW b, Ordered(a, b)
    PROVE  IsPart(Part(g, a, b), g, a, b)
<1>1. a \in Nat /\ b \in Nat /\ a <= b /\ b - a \in Nat BY DEF Ordered
<1>2. \A i \in 1 .. b - a : <<g, a + i>> \in Pieces BY <1>1 DEF Pieces
<1>3. Part(g, a, b) \in Seq(Pieces) BY <1>1, <1>2, IsASeq DEF Part
<1>4. Len(Part(g, a, b)) = b - a BY <1>1, <1>2, <1>3 DEF Part
<1>5. \A i \in 1 .. b - a : Part(g, a, b)[i] = <<g, a + i>> BY DEF Part
<1> QED BY <1>1, <1>3, <1>4, <1>5 DEF IsPart

\* There is only one text of the same pieces.
LEMMA PartUnique ==
    ASSUME NEW p, NEW q, NEW g, NEW a, NEW b, IsPart(p, g, a, b), IsPart(q, g, a, b)
    PROVE  p = q
<1>1. p \in Seq(Pieces) /\ q \in Seq(Pieces) /\ Len(p) = Len(q) BY DEF IsPart
<1>2. \A i \in 1 .. Len(p) : p[i] = q[i] BY DEF IsPart
<1> QED BY <1>1, <1>2, SeqEqual

\* Adjoining parts.
LEMMA PartJoin ==
    ASSUME NEW p, NEW q, NEW g, NEW a, NEW b, NEW c, IsPart(p, g, a, b), IsPart(q, g, b, c)
    PROVE  IsPart(p \o q, g, a, c)
<1>1. /\ g \in Gens /\ a \in Nat /\ b \in Nat /\ c \in Nat /\ a <= b /\ b <= c
      /\ p \in Seq(Pieces) /\ q \in Seq(Pieces) /\ Len(p) = b - a /\ Len(q) = c - b
      /\ \A i \in 1 .. Len(p) : p[i] = <<g, a + i>>
      /\ \A i \in 1 .. Len(q) : q[i] = <<g, b + i>>
  BY DEF IsPart
<1>2. /\ p \o q \in Seq(Pieces) /\ Len(p \o q) = Len(p) + Len(q)
      /\ \A i \in 1 .. Len(p) + Len(q) : (p \o q)[i] = IF i <= Len(p) THEN p[i] ELSE q[i - Len(p)]
  BY <1>1, ConcatProperties
<1>3. Len(p \o q) = c - a BY <1>1, <1>2
<1>4. ASSUME NEW i \in 1 .. c - a PROVE (p \o q)[i] = <<g, a + i>>
  <2>1. i \in 1 .. Len(p) + Len(q) BY <1>1
  <2>2. CASE i <= Len(p)
    <3>1. (p \o q)[i] = p[i] /\ i \in 1 .. Len(p) BY <1>1, <1>2, <2>1, <2>2
    <3> QED BY <1>1, <3>1
  <2>3. CASE ~(i <= Len(p))
    <3>1. PICK j : j = i - Len(p) OBVIOUS
    <3>2. j \in 1 .. Len(q) /\ b + j = a + i BY <1>1, <2>3, <3>1
    <3>3. (p \o q)[i] = q[j] BY <1>2, <2>1, <2>3, <3>1
    <3> QED BY <1>1, <3>2, <3>3
  <2> QED BY <2>2, <2>3
<1>5. a <= c BY <1>1
<1> DEFINE r == p \o q
<1>6. r \in Seq(Pieces) /\ Len(r) = c - a /\ \A i \in 1 .. c - a : r[i] = <<g, a + i>> BY <1>2, <1>3, <1>4
<1> HIDE DEF r
<1>7. IsPart(r, g, a, c) BY <1>1, <1>5, <1>6 DEF IsPart
<1> QED BY <1>7 DEF r

\* What is left of a part after its beginning.
LEMMA PartRest ==
    ASSUME NEW p, NEW g, NEW n, NEW k, IsPart(p, g, 0, n), Ordered(k, n)
    PROVE  IsPart(SubSeq(p, k + 1, Len(p)), g, k, n)
<1>1. /\ g \in Gens /\ n \in Nat /\ k \in Nat /\ k <= n /\ p \in Seq(Pieces) /\ Len(p) = n
      /\ \A i \in 1 .. n : p[i] = <<g, i>>
  BY DEF IsPart, Ordered
<1>2. \A i \in k + 1 .. n : p[i] \in Pieces BY <1>1
<1> DEFINE q == SubSeq(p, k + 1, n)
<1>3. q \in Seq(Pieces) /\ Len(q) = (IF k + 1 <= n THEN n - (k + 1) + 1 ELSE 0)
      /\ \A i \in 1 .. n - (k + 1) + 1 : q[i] = p[k + 1 + i - 1]
  BY <1>1, <1>2, SubSeqProperties
<1> HIDE DEF q
<1>4. Len(q) = n - k BY <1>1, <1>3
<1>5. ASSUME NEW i \in 1 .. n - k PROVE q[i] = <<g, k + i>>
  <2>1. PICK j : j = k + i OBVIOUS
  <2>2. i \in 1 .. n - (k + 1) + 1 /\ k + 1 + i - 1 = j /\ j \in 1 .. n BY <1>1, <2>1
  <2> QED BY <1>1, <1>3, <2>1, <2>2
<1>6. IsPart(q, g, k, n) BY <1>1, <1>3, <1>4, <1>5 DEF IsPart
<1> QED BY <1>1, <1>6 DEF q

\* The first pieces of a text.
LEMMA FirstPieces ==
    ASSUME NEW S, NEW p \in Seq(S), NEW k, Ordered(k, Len(p))
    PROVE  /\ SubSeq(p, 1, k) \in Seq(S) /\ Len(SubSeq(p, 1, k)) = k
           /\ \A i \in 1 .. k : SubSeq(p, 1, k)[i] = p[i]
<1>1. k \in Nat /\ k <= Len(p) /\ Len(p) \in Nat BY DEF Ordered
<1>2. \A i \in 1 .. k : p[i] \in S BY <1>1
<1>3. /\ SubSeq(p, 1, k) \in Seq(S) /\ Len(SubSeq(p, 1, k)) = (IF 1 <= k THEN k - 1 + 1 ELSE 0)
      /\ \A i \in 1 .. k - 1 + 1 : SubSeq(p, 1, k)[i] = p[1 + i - 1]
  BY <1>1, <1>2, SubSeqProperties
<1>4. Len(SubSeq(p, 1, k)) = k BY <1>1, <1>3
<1>5. ASSUME NEW i \in 1 .. k PROVE SubSeq(p, 1, k)[i] = p[i]
  <2>1. i \in 1 .. k - 1 + 1 /\ 1 + i - 1 = i BY <1>1
  <2> QED BY <1>3, <2>1
<1> QED BY <1>3, <1>4, <1>5

\* A text begins with its own beginning.
LEMMA PartBegins ==
    ASSUME NEW p, NEW r, NEW g, NEW k, NEW n, IsPart(p, g, 0, k), IsPart(r, g, 0, n), k <= n
    PROVE  Begins(p, r)
<1>1. /\ p \in Seq(Pieces) /\ r \in Seq(Pieces) /\ Len(p) = k /\ Len(r) = n
      /\ k \in Nat /\ n \in Nat
      /\ \A i \in 1 .. k : p[i] = <<g, i>>
      /\ \A i \in 1 .. n : r[i] = <<g, i>>
  BY DEF IsPart
<1>2. DOMAIN p = 1 .. k BY <1>1
<1>3. ASSUME NEW i \in DOMAIN p PROVE Letter(p[i]) = Letter(r[i])
  <2>1. i \in 1 .. k /\ i \in 1 .. n BY <1>1, <1>2
  <2>2. p[i] = r[i] BY <1>1, <2>1
  <2> QED BY <2>2
<1>4. Len(p) <= Len(r) BY <1>1
<1> QED BY <1>3, <1>4 DEF Begins

\* A text is empty when it has no pieces.
LEMMA PartEmpty ==
    ASSUME NEW p, NEW g, NEW a, NEW b, IsPart(p, g, a, b)
    PROVE  p = <<>> <=> a = b
<1>1. p \in Seq(Pieces) /\ Len(p) = b - a /\ a \in Nat /\ b \in Nat BY DEF IsPart
<1>2. p = <<>> <=> Len(p) = 0 BY <1>1
<1> QED BY <1>1, <1>2

\* Where chunks end is numbered.
LEMMA CutsNat ==
    ASSUME NEW g \in Gens
    PROVE  Cuts(g) \subseteq Nat
<1>1. Ends[g] \subseteq 1 .. MaxLetters BY ChatConstants
<1> QED BY <1>1 DEF Cuts

\* No text between two cuts of an exact delta answer begins the one after it.
LEMMA ExactMeans ==
    ASSUME NEW g \in Gens, Exact(g), g \notin Cumulative,
           NEW a \in Cuts(g), NEW b \in Cuts(g), NEW e \in Cuts(g), a < b, b < e
    PROVE  ~Begins(Part(g, a, b), Part(g, b, e))
BY Zenon DEF Exact, Stutters

\* The message's text, and a flushed chunk that continues it, make the whole.
LEMMA AppendableWhole ==
    ASSUME NEW g \in Gens, Exact(g), NEW k \in Cuts(g), NEW n \in Cuts(g), k < n
    PROVE  Part(g, 0, k) \o Appendable(Part(g, 0, k), Delivered(g, k, n)) = Part(g, 0, n)
<1> DEFINE p == Part(g, 0, k)
           r == Part(g, 0, n)
           q == Part(g, k, n)
           chunk == Delivered(g, k, n)
<1>1. k \in Nat /\ n \in Nat /\ k # n /\ Ordered(0, k) /\ Ordered(0, n) /\ Ordered(k, n) BY CutsNat DEF Ordered
<1>2. IsPart(p, g, 0, k) /\ IsPart(r, g, 0, n) /\ IsPart(q, g, k, n) BY <1>1, PartIsPart
<1>3. chunk = IF g \in Cumulative THEN r ELSE q BY DEF Delivered
<1>4. p \o q = r
  <2> HIDE DEF p, q, r
  <2>1. IsPart(p \o q, g, 0, n) BY <1>2, PartJoin
  <2> QED BY <1>2, <2>1, PartUnique
<1>5. k # 0 /\ g \notin Cumulative => ~Begins(p, q)
  <2>1. SUFFICES ASSUME k # 0, g \notin Cumulative PROVE ~Begins(p, q) OBVIOUS
  <2>2. 0 \in Cuts(g) /\ 0 < k BY <1>1, <2>1 DEF Cuts
  <2> QED BY <2>1, <2>2, ExactMeans
<1> HIDE DEF p, q, r, chunk
<1>6. CASE k = 0
  <2>1. p = <<>> BY <1>2, <1>6, PartEmpty
  <2>2. q = r BY <1>2, <1>6, PartUnique
  <2>3. Appendable(p, chunk) = q BY <1>3, <2>1, <2>2 DEF Appendable
  <2>4. p \o Appendable(p, chunk) = r BY <1>4, <2>3
  <2> QED BY <2>4 DEF p, r, chunk
<1>7. CASE k # 0
  <2>1. p # <<>> /\ Len(p) = k
    <3>1. p # <<>> BY <1>2, <1>7, PartEmpty
    <3>2. Len(p) = k BY <1>1, <1>2 DEF IsPart
    <3> QED BY <3>1, <3>2
  <2>2. CASE g \notin Cumulative
    <3>1. Appendable(p, chunk) = q BY <1>3, <1>5, <1>7, <2>2 DEF Appendable
    <3>2. p \o Appendable(p, chunk) = r BY <1>4, <3>1
    <3> QED BY <3>2 DEF p, r, chunk
  <2>3. CASE g \in Cumulative
    <3>1. k <= n BY <1>1
    <3>2. Begins(p, r) BY <1>2, <3>1, PartBegins
    <3>3. Appendable(p, chunk) = SubSeq(r, k + 1, Len(r)) BY <1>3, <2>1, <2>3, <3>2 DEF Appendable
    <3>4. IsPart(SubSeq(r, k + 1, Len(r)), g, k, n) BY <1>1, <1>2, PartRest
    <3>5. SubSeq(r, k + 1, Len(r)) = q BY <1>2, <3>4, PartUnique
    <3>6. p \o Appendable(p, chunk) = r BY <1>4, <3>3, <3>5
    <3> QED BY <3>6 DEF p, r, chunk
  <2> QED BY <2>2, <2>3
<1> QED BY <1>6, <1>7

\* What is pending, merged with the next chunk, is pending up to the end of that chunk.
LEMMA MergeWhole ==
    ASSUME NEW g \in Gens, Exact(g), NEW k \in Cuts(g), NEW n \in Cuts(g), NEW e \in Cuts(g), k <= n, n < e
    PROVE  Merge(IF k = n THEN <<>> ELSE Delivered(g, k, n), Delivered(g, n, e)) = Delivered(g, k, e)
<1> DEFINE p == Part(g, k, n)
           q == Part(g, n, e)
           r == Part(g, k, e)
           x == Part(g, 0, n)
           y == Part(g, 0, e)
           cur == IF k = n THEN <<>> ELSE Delivered(g, k, n)
           next == Delivered(g, n, e)
<1>1. /\ k \in Nat /\ n \in Nat /\ e \in Nat /\ n <= e
      /\ Ordered(k, n) /\ Ordered(n, e) /\ Ordered(k, e) /\ Ordered(0, n) /\ Ordered(0, e)
  BY CutsNat DEF Ordered
<1>2. IsPart(p, g, k, n) /\ IsPart(q, g, n, e) /\ IsPart(r, g, k, e) BY <1>1, PartIsPart
<1>3. IsPart(x, g, 0, n) /\ IsPart(y, g, 0, e) BY <1>1, PartIsPart
<1>4. k # n /\ g \notin Cumulative => ~Begins(p, q)
  <2>1. SUFFICES ASSUME k # n, g \notin Cumulative PROVE ~Begins(p, q) OBVIOUS
  <2>2. k < n BY <1>1, <2>1
  <2> QED BY <2>1, <2>2, ExactMeans
<1>5. /\ cur = IF k = n THEN <<>> ELSE IF g \in Cumulative THEN x ELSE p
      /\ next = IF g \in Cumulative THEN y ELSE q
      /\ Delivered(g, k, e) = IF g \in Cumulative THEN y ELSE r
  BY DEF Delivered
<1> HIDE DEF p, q, r, x, y, cur, next
<1>6. \A t \in Seq(Pieces) : <<>> \o t = t BY ConcatEmptySeq
<1>7. q \in Seq(Pieces) /\ y \in Seq(Pieces) BY <1>2, <1>3 DEF IsPart
<1>8. Merge(cur, next) = Delivered(g, k, e)
  <2>1. CASE k = n
    <3>1. k = n => q = r BY <1>2, PartUnique
    <3> QED BY <1>5, <1>6, <1>7, <2>1, <3>1 DEF Merge
  <2>2. CASE k # n /\ g \in Cumulative
    <3>1. Begins(x, y) BY <1>1, <1>3, PartBegins
    <3>2. Merge(x, y) = y BY <1>6, <1>7, <3>1 DEF Merge
    <3> QED BY <1>5, <2>2, <3>2
  <2>3. CASE k # n /\ g \notin Cumulative
    <3>1. IsPart(p \o q, g, k, e) BY <1>2, PartJoin
    <3>2. p \o q = r BY <1>2, <3>1, PartUnique
    <3>3. Merge(p, q) = r BY <1>4, <2>3, <3>2 DEF Merge
    <3> QED BY <1>5, <2>3, <3>3
  <2> QED BY <2>1, <2>2, <2>3
<1> QED BY <1>8 DEF cur, next

\* Texts stay texts.
LEMMA TextTypes ==
    ASSUME NEW cur \in Texts, NEW chunk \in Texts
    PROVE  /\ cur \o Appendable(cur, chunk) \in Texts
           /\ Merge(cur, chunk) \in Texts
           /\ chunk # <<>> => Merge(cur, chunk) # <<>>
           /\ Merge(<<>>, chunk) = chunk
<1>1. Texts = Seq(Pieces) BY DEF Texts, Pieces
<1>2. cur \o chunk \in Texts /\ Len(cur \o chunk) = Len(cur) + Len(chunk) BY <1>1, ConcatProperties
<1>3. Appendable(cur, chunk) \in Texts
  <2>1. CASE cur = <<>> \/ ~Begins(cur, chunk) BY <2>1 DEF Appendable
  <2>2. CASE ~(cur = <<>> \/ ~Begins(cur, chunk))
    <3>1. Appendable(cur, chunk) = SubSeq(chunk, Len(cur) + 1, Len(chunk)) BY <2>2 DEF Appendable
    <3>2. Len(cur) \in Nat /\ Len(chunk) \in Nat BY <1>1
    <3>3. \A i \in Len(cur) + 1 .. Len(chunk) : chunk[i] \in Pieces BY <1>1, <3>2
    <3>4. SubSeq(chunk, Len(cur) + 1, Len(chunk)) \in Seq(Pieces) BY <3>2, <3>3, SubSeqProperties
    <3> QED BY <1>1, <3>1, <3>4
  <2> QED BY <2>1, <2>2
<1>4. cur \o Appendable(cur, chunk) \in Texts BY <1>1, <1>3, ConcatProperties
<1>5. Merge(cur, chunk) \in Texts BY <1>2 DEF Merge
<1>6. chunk # <<>> => Merge(cur, chunk) # <<>>
  <2>1. SUFFICES ASSUME chunk # <<>> PROVE Merge(cur, chunk) # <<>> OBVIOUS
  <2>2. Len(chunk) \in Nat /\ Len(chunk) # 0 /\ Len(cur) \in Nat BY <1>1, <2>1
  <2>3. cur \o chunk # <<>> BY <1>2, <2>2
  <2> QED BY <2>1, <2>3 DEF Merge
<1>7. Merge(<<>>, chunk) = chunk BY <1>1, ConcatEmptySeq DEF Merge
<1> QED BY <1>4, <1>5, <1>6, <1>7

\* Letters in order within wider limits.
LEMMA InOrderWider ==
    ASSUME NEW t \in Texts, NEW g, NEW a \in Nat, NEW b \in Nat, NEW c \in Nat, NEW d \in Nat,
           InOrder(t, g, a, b), c <= a, b <= d
    PROVE  InOrder(t, g, c, d)
<1>1. DOMAIN t = 1 .. Len(t) /\ \A i \in 1 .. Len(t) : t[i] \in Pieces BY DEF Texts, Pieces
<1>2. ASSUME NEW i \in DOMAIN t PROVE c < t[i][2] /\ t[i][2] <= d
  <2>1. t[i][2] \in Nat BY <1>1 DEF Pieces
  <2>2. a < t[i][2] /\ t[i][2] <= b BY DEF InOrder
  <2> QED BY <2>1, <2>2
<1> QED BY <1>2 DEF InOrder

\* A part is in order.
LEMMA PartInOrder ==
    ASSUME NEW g \in Gens, NEW a, NEW b, Ordered(a, b)
    PROVE  InOrder(Part(g, a, b), g, a, b) /\ Part(g, a, b) \in Texts
<1> DEFINE p == Part(g, a, b)
<1>1. IsPart(p, g, a, b) BY PartIsPart
<1>2. a \in Nat /\ b \in Nat /\ a <= b BY DEF Ordered
<1> HIDE DEF p
<1>3. /\ p \in Seq(Pieces) /\ Len(p) = b - a /\ DOMAIN p = 1 .. b - a
      /\ \A i \in 1 .. b - a : p[i] = <<g, a + i>>
  BY <1>1 DEF IsPart
<1>4. ASSUME NEW i \in DOMAIN p PROVE p[i][1] = g /\ p[i][2] = a + i /\ i \in Nat /\ 1 <= i /\ i <= b - a
  BY <1>2, <1>3
<1>5. \A i \in DOMAIN p : a < p[i][2] /\ p[i][2] <= b BY <1>2, <1>4
<1>6. ASSUME NEW i \in DOMAIN p, NEW j \in DOMAIN p, i < j PROVE p[i][2] < p[j][2]
  <2>1. p[i][2] = a + i /\ p[j][2] = a + j /\ i \in Nat /\ j \in Nat BY <1>4
  <2> QED BY <1>2, <1>6, <2>1
<1>7. InOrder(p, g, a, b) BY <1>4, <1>5, <1>6 DEF InOrder
<1> QED BY <1>3, <1>7 DEF p, Texts, Pieces

\* One text after another.
LEMMA InOrderJoin ==
    ASSUME NEW s \in Texts, NEW t \in Texts, NEW g, NEW a \in Nat, NEW b \in Nat, NEW c \in Nat,
           a <= b, b <= c, InOrder(s, g, a, b), InOrder(t, g, b, c)
    PROVE  InOrder(s \o t, g, a, c)
<1> DEFINE r == s \o t
           k == Len(s)
<1>1. Texts = Seq(Pieces) BY DEF Texts, Pieces
<1>2. /\ r \in Seq(Pieces) /\ Len(r) = Len(s) + Len(t) /\ k \in Nat /\ Len(t) \in Nat
      /\ \A i \in 1 .. Len(s) + Len(t) : r[i] = IF i <= Len(s) THEN s[i] ELSE t[i - Len(s)]
  BY <1>1, ConcatProperties
<1>3. DOMAIN r = 1 .. k + Len(t) /\ DOMAIN s = 1 .. k /\ DOMAIN t = 1 .. Len(t) BY <1>1, <1>2
<1> HIDE DEF r, k
<1>4. /\ \A i \in 1 .. k + Len(t) : r[i] = IF i <= k THEN s[i] ELSE t[i - k]
      /\ \A i \in DOMAIN r : r[i] \in Pieces
  BY <1>2, <1>3 DEF k
<1>5. \A i \in DOMAIN s : s[i][1] = g /\ a < s[i][2] /\ s[i][2] <= b BY DEF InOrder
<1>6. \A i \in DOMAIN t : t[i][1] = g /\ b < t[i][2] /\ t[i][2] <= c BY DEF InOrder
<1>7. \A i, j \in DOMAIN s : i < j => s[i][2] < s[j][2] BY DEF InOrder
<1>8. \A i, j \in DOMAIN t : i < j => t[i][2] < t[j][2] BY DEF InOrder
<1>9. ASSUME NEW i \in DOMAIN r
      PROVE  /\ i <= k => i \in DOMAIN s /\ r[i] = s[i]
             /\ ~(i <= k) => i - k \in DOMAIN t /\ r[i] = t[i - k]
             /\ i \in Nat /\ r[i][2] \in Nat
  <2>1. i \in 1 .. k + Len(t) BY <1>3
  <2>2. i \in Nat /\ r[i][2] \in Nat BY <1>4, <2>1 DEF Pieces
  <2> QED BY <1>2, <1>3, <1>4, <2>1, <2>2
<1>10. ASSUME NEW i \in DOMAIN r PROVE r[i][1] = g /\ a < r[i][2] /\ r[i][2] <= c
  <2>1. r[i][2] \in Nat BY <1>9
  <2>2. CASE i <= k
    <3>1. r[i][1] = g /\ a < r[i][2] /\ r[i][2] <= b BY <1>5, <1>9, <2>2
    <3> QED BY <2>1, <3>1
  <2>3. CASE ~(i <= k)
    <3>1. r[i][1] = g /\ b < r[i][2] /\ r[i][2] <= c BY <1>6, <1>9, <2>3
    <3> QED BY <2>1, <3>1
  <2> QED BY <2>2, <2>3
<1>11. ASSUME NEW i \in DOMAIN r, NEW j \in DOMAIN r, i < j PROVE r[i][2] < r[j][2]
  <2>1. i \in Nat /\ j \in Nat /\ r[i][2] \in Nat /\ r[j][2] \in Nat BY <1>9
  <2>2. CASE j <= k
    <3>1. i <= k BY <1>2, <1>11, <2>1, <2>2
    <3> QED BY <1>7, <1>9, <1>11, <2>2, <3>1
  <2>3. CASE ~(j <= k) /\ i <= k
    <3>1. r[i][2] <= b BY <1>5, <1>9, <2>3
    <3>2. b < r[j][2] BY <1>6, <1>9, <2>3
    <3> QED BY <2>1, <3>1, <3>2
  <2>4. CASE ~(j <= k) /\ ~(i <= k)
    <3>1. PICK x, y : x = i - k /\ y = j - k OBVIOUS
    <3>2. x \in DOMAIN t /\ y \in DOMAIN t /\ r[i] = t[x] /\ r[j] = t[y] BY <1>9, <2>4, <3>1
    <3>3. x < y BY <1>2, <1>11, <2>1, <3>1
    <3> QED BY <1>8, <3>2, <3>3
  <2> QED BY <2>2, <2>3, <2>4
<1>12. InOrder(r, g, a, c) BY <1>10, <1>11, Zenon DEF InOrder
<1> QED BY <1>12 DEF r

\* A stretch of a text.
LEMMA Stretch ==
    ASSUME NEW S, NEW t \in Seq(S), NEW x \in Nat, NEW y \in Nat, 1 <= x, y <= Len(t), x <= y + 1
    PROVE  /\ SubSeq(t, x, y) \in Seq(S) /\ Len(SubSeq(t, x, y)) = y + 1 - x
           /\ \A i \in 1 .. y + 1 - x : SubSeq(t, x, y)[i] = t[x + i - 1]
<1>1. \A i \in x .. y : t[i] \in S OBVIOUS
<1> DEFINE q == SubSeq(t, x, y)
<1>2. q \in Seq(S) /\ Len(q) = (IF x <= y THEN y - x + 1 ELSE 0)
      /\ \A i \in 1 .. y - x + 1 : q[i] = t[x + i - 1]
  BY <1>1, SubSeqProperties
<1> HIDE DEF q
<1>3. Len(q) = y + 1 - x BY <1>2
<1>4. ASSUME NEW i \in 1 .. y + 1 - x PROVE q[i] = t[x + i - 1]
  <2>1. i \in 1 .. y - x + 1 OBVIOUS
  <2> QED BY <1>2, <2>1
<1> QED BY <1>2, <1>3, <1>4 DEF q

\* A stretch of a text in order is in order.
LEMMA InOrderStretch ==
    ASSUME NEW t \in Texts, NEW g, NEW a, NEW b, InOrder(t, g, a, b),
           NEW x \in Nat, NEW y \in Nat, 1 <= x, y <= Len(t), x <= y + 1
    PROVE  InOrder(SubSeq(t, x, y), g, a, b) /\ SubSeq(t, x, y) \in Texts
<1> DEFINE q == SubSeq(t, x, y)
<1>1. t \in Seq(Pieces) /\ DOMAIN t = 1 .. Len(t) /\ Len(t) \in Nat BY DEF Texts, Pieces
<1>2. q \in Seq(Pieces) /\ Len(q) = y + 1 - x /\ \A i \in 1 .. y + 1 - x : q[i] = t[x + i - 1] BY <1>1, Stretch
<1> HIDE DEF q
<1>3. DOMAIN q = 1 .. y + 1 - x BY <1>2
<1>4. ASSUME NEW i \in DOMAIN q PROVE i \in Nat /\ x + i - 1 \in DOMAIN t /\ q[i] = t[x + i - 1]
  BY <1>1, <1>2, <1>3
<1>5. \A i \in DOMAIN t : t[i][1] = g /\ a < t[i][2] /\ t[i][2] <= b BY DEF InOrder
<1>6. \A i, j \in DOMAIN t : i < j => t[i][2] < t[j][2] BY DEF InOrder
<1>7. \A i \in DOMAIN q : q[i][1] = g /\ a < q[i][2] /\ q[i][2] <= b BY <1>4, <1>5
<1>8. ASSUME NEW i \in DOMAIN q, NEW j \in DOMAIN q, i < j PROVE q[i][2] < q[j][2]
  <2>1. PICK l, m : l = x + i - 1 /\ m = x + j - 1 OBVIOUS
  <2>2. l \in DOMAIN t /\ m \in DOMAIN t /\ q[i] = t[l] /\ q[j] = t[m] BY <1>4, <2>1
  <2>3. l < m BY <1>4, <1>8, <2>1
  <2> QED BY <1>6, <2>2, <2>3
<1>9. InOrder(q, g, a, b) BY <1>7, <1>8, Zenon DEF InOrder
<1> QED BY <1>2, <1>9 DEF q, Texts, Pieces

\* What is added to the text on screen, and to what is pending, comes after it.
LEMMA InOrderKept ==
    ASSUME NEW cur \in Texts, NEW chunk \in Texts, NEW g, NEW a \in Nat, NEW b \in Nat, NEW c \in Nat,
           a <= b, b <= c, InOrder(cur, g, a, b), InOrder(chunk, g, b, c)
    PROVE  /\ InOrder(cur \o Appendable(cur, chunk), g, a, c)
           /\ InOrder(Merge(cur, chunk), g, a, c)
<1>1. InOrder(cur \o chunk, g, a, c) BY InOrderJoin
<1>2. InOrder(chunk, g, a, c) BY InOrderWider
<1>3. InOrder(Merge(cur, chunk), g, a, c) BY <1>1, <1>2 DEF Merge
<1>4. Len(cur) \in Nat /\ Len(chunk) \in Nat BY DEF Texts
<1>5. CASE Appendable(cur, chunk) = chunk BY <1>1, <1>3, <1>5
<1>6. CASE Appendable(cur, chunk) # chunk
  <2> DEFINE q == SubSeq(chunk, Len(cur) + 1, Len(chunk))
  <2>1. Begins(cur, chunk) /\ Appendable(cur, chunk) = q BY <1>6 DEF Appendable
  <2>2. Len(cur) <= Len(chunk) BY <2>1 DEF Begins
  <2>3. InOrder(q, g, b, c) /\ q \in Texts
    <3>1. Len(cur) + 1 \in Nat /\ 1 <= Len(cur) + 1 /\ Len(cur) + 1 <= Len(chunk) + 1 BY <1>4, <2>2
    <3> QED BY <1>4, <3>1, InOrderStretch
  <2> HIDE DEF q
  <2>4. InOrder(cur \o q, g, a, c) BY <2>3, InOrderJoin
  <2> QED BY <1>3, <2>1, <2>4
<1> QED BY <1>5, <1>6
--------------------------------------------------------------------------------
(* Updaters. *)

\* The updaters that change an answer.
Answering == [kind : {"chunk", "complete", "stop", "error", "reply"}, g : Gens, txt : Texts]

\* An updated message is a message of the same request.
LEMMA UpdatedType ==
    ASSUME NEW u \in Answering, NEW m \in Messages
    PROVE  /\ Updated(u, m) \in Messages /\ Updated(u, m).from = m.from
           /\ Updated(u, m).g = m.g /\ Updated(u, m).cut = m.cut
<1>1. u.txt \in Texts /\ m.txt \in Texts /\ <<>> \in Texts BY DEF Answering, Messages, Texts
<1>2. m.txt \o Appendable(m.txt, u.txt) \in Texts BY <1>1, TextTypes
<1> DEFINE t == m.txt \o Appendable(m.txt, u.txt)
<1>3. t \in Texts BY <1>2
<1> HIDE DEF t
<1>4. CASE u.kind = "chunk"
  <2>1. Updated(u, m) = Chunked(m, u.txt) BY <1>4 DEF Updated
  <2>2. Chunked(m, u.txt) = IF m.st = "error" THEN m ELSE [m EXCEPT !.txt = t, !.st = "streaming"] BY DEF Chunked, t
  <2>3. CASE m.st = "error" BY <2>1, <2>2, <2>3
  <2>4. CASE m.st # "error"
    <3>1. Updated(u, m) = [m EXCEPT !.txt = t, !.st = "streaming"] BY <2>1, <2>2, <2>4
    <3> QED BY <1>3, <3>1 DEF Messages, Statuses
  <2> QED BY <2>3, <2>4
<1>5. CASE u.kind = "complete"
  <2>1. Updated(u, m) \in {m, Completed(m)} BY <1>5 DEF Updated
  <2> QED BY <2>1 DEF Messages, Statuses, Completed
<1>6. CASE u.kind = "stop"
  <2>1. Updated(u, m) \in {m, Completed(m)} BY <1>6 DEF Updated
  <2> QED BY <2>1 DEF Messages, Statuses, Completed
<1>7. CASE u.kind = "error"
  <2>1. Updated(u, m) = Failed(m) BY <1>7 DEF Updated
  <2> QED BY <1>1, <2>1 DEF Messages, Statuses, Failed
<1>8. CASE u.kind = "reply"
  <2>1. Updated(u, m) = [Completed(m) EXCEPT !.txt = u.txt] BY <1>8 DEF Updated
  <2> QED BY <1>1, <2>1 DEF Messages, Statuses, Completed
<1> QED BY <1>4, <1>5, <1>6, <1>7, <1>8 DEF Answering

\* Only the last message changes.
LEMMA UpdateLastFacts ==
    ASSUME NEW u \in Answering, NEW ms \in Seq(Messages)
    PROVE  /\ UpdateLast(u, ms) \in Seq(Messages) /\ Len(UpdateLast(u, ms)) = Len(ms)
           /\ \A i \in 1 .. Len(ms) : i # Len(ms) => UpdateLast(u, ms)[i] = ms[i]
           /\ ms # <<>> /\ Last(ms).from = "assistant" => Last(UpdateLast(u, ms)) = Updated(u, Last(ms))
           /\ ~(ms # <<>> /\ Last(ms).from = "assistant") => UpdateLast(u, ms) = ms
<1>1. CASE ~(ms # <<>> /\ Last(ms).from = "assistant")
  <2>1. UpdateLast(u, ms) = ms BY <1>1 DEF UpdateLast
  <2> QED BY <1>1, <2>1
<1>2. CASE ms # <<>> /\ Last(ms).from = "assistant"
  <2> DEFINE k == Len(ms)
             m == Updated(u, ms[k])
             ns == [ms EXCEPT ![k] = m]
  <2>1. k \in Nat /\ k \in 1 .. Len(ms) /\ Last(ms) = ms[k] /\ ms[k] \in Messages BY <1>2 DEF Last
  <2>2. m \in Messages BY <2>1, UpdatedType
  <2>3. UpdateLast(u, ms) = ns BY <1>2 DEF UpdateLast
  <2> HIDE DEF m
  <2>4. ns \in Seq(Messages) /\ Len(ns) = Len(ms) /\ \A i \in 1 .. Len(ms) : ns[i] = IF i = k THEN m ELSE ms[i]
    BY <2>1, <2>2, ExceptSeq
  <2>5. Last(ns) = m BY <2>1, <2>4 DEF Last
  <2> HIDE DEF ns, k
  <2>6. m = Updated(u, Last(ms)) BY <2>1 DEF m
  <2> QED BY <1>2, <2>3, <2>4, <2>5, <2>6 DEF k
<1> QED BY <1>1, <1>2

\* Removing a message leaves messages that were there.
LEMMA RemoveByKeyFacts ==
    ASSUME NEW ms \in Seq(Messages), NEW key
    PROVE  /\ RemoveByKey(ms, key) \in Seq(Messages)
           /\ \A j \in 1 .. Len(RemoveByKey(ms, key)) : \E i \in 1 .. Len(ms) : RemoveByKey(ms, key)[j] = ms[i]
<1>1. CASE ~\E i \in DOMAIN ms : SameKey(ms[i], key)
  <2>1. RemoveByKey(ms, key) = ms BY <1>1, Zenon DEF RemoveByKey
  <2> QED BY <2>1
<1>2. CASE \E i \in DOMAIN ms : SameKey(ms[i], key)
  <2> DEFINE k == CHOOSE i \in DOMAIN ms : SameKey(ms[i], key)
             n == Len(ms)
             p == SubSeq(ms, 1, k - 1)
             q == SubSeq(ms, k + 1, n)
  <2>1. k \in DOMAIN ms BY <1>2, Zenon
  <2>2. RemoveByKey(ms, key) = RemoveAt(ms, k) BY <1>2, Zenon DEF RemoveByKey
  <2> HIDE DEF k
  <2>3. n \in Nat /\ k \in 1 .. n /\ \A i \in 1 .. n : ms[i] \in Messages BY <2>1
  <2>4. RemoveByKey(ms, key) = p \o q BY <2>2 DEF RemoveAt
  <2>5. /\ p \in Seq(Messages) /\ Len(p) = k - 1
        /\ \A i \in 1 .. k - 1 : p[i] = ms[i]
    <3>1. PICK l : l = k - 1 OBVIOUS
    <3>2. Ordered(l, Len(ms)) BY <2>3, <3>1 DEF Ordered
    <3>3. SubSeq(ms, 1, l) \in Seq(Messages) /\ Len(SubSeq(ms, 1, l)) = l
          /\ \A i \in 1 .. l : SubSeq(ms, 1, l)[i] = ms[i] BY <3>2, FirstPieces
    <3> QED BY <3>1, <3>3
  <2>6. /\ q \in Seq(Messages) /\ Len(q) = n - k
        /\ \A i \in 1 .. n - k : q[i] = ms[k + i]
    <3>1. \A i \in k + 1 .. n : ms[i] \in Messages BY <2>3
    <3>2. /\ q \in Seq(Messages) /\ Len(q) = (IF k + 1 <= n THEN n - (k + 1) + 1 ELSE 0)
          /\ \A i \in 1 .. n - (k + 1) + 1 : q[i] = ms[k + 1 + i - 1]
      BY <2>3, <3>1, SubSeqProperties
    <3> HIDE DEF q
    <3>3. Len(q) = n - k BY <2>3, <3>2
    <3>4. ASSUME NEW i \in 1 .. n - k PROVE q[i] = ms[k + i]
      <4>1. i \in 1 .. n - (k + 1) + 1 /\ k + 1 + i - 1 = k + i BY <2>3
      <4> QED BY <3>2, <4>1
    <3> QED BY <3>2, <3>3, <3>4
  <2> HIDE DEF p, q
  <2>7. /\ p \o q \in Seq(Messages) /\ Len(p \o q) = Len(p) + Len(q)
        /\ \A i \in 1 .. Len(p) + Len(q) : (p \o q)[i] = IF i <= Len(p) THEN p[i] ELSE q[i - Len(p)]
    BY <2>5, <2>6, ConcatProperties
  <2>8. ASSUME NEW j \in 1 .. Len(p \o q) PROVE \E i \in 1 .. n : (p \o q)[j] = ms[i]
    <3>1. j \in 1 .. Len(p) + Len(q) /\ Len(p) \in Nat /\ Len(q) \in Nat BY <2>5, <2>6, <2>7
    <3>2. CASE j <= Len(p)
      <4>1. (p \o q)[j] = p[j] /\ j \in 1 .. k - 1 /\ j \in 1 .. n BY <2>3, <2>5, <2>7, <3>1, <3>2
      <4> QED BY <2>5, <4>1
    <3>3. CASE ~(j <= Len(p))
      <4>1. PICK l : l = j - Len(p) OBVIOUS
      <4>2. l \in 1 .. n - k /\ k + l \in 1 .. n BY <2>3, <2>5, <2>6, <3>1, <3>3, <4>1
      <4>3. (p \o q)[j] = q[l] BY <2>7, <3>1, <3>3, <4>1
      <4> QED BY <2>6, <4>2, <4>3
    <3> QED BY <3>2, <3>3
  <2> QED BY <2>4, <2>7, <2>8
<1> QED BY <1>1, <1>2
--------------------------------------------------------------------------------
(* Sound conversations. *)

\* No answer of the conversation is pending.
Settled(ms) == \A i \in 1 .. Len(ms) : ~IsPending(ms[i])

\* Sound in terms of positions.
LEMMA SoundMeans ==
    ASSUME NEW ms \in Seq(Messages), NEW heard
    PROVE  Sound(ms, heard) <=> \A i \in 1 .. Len(ms) : OwnText(ms[i], heard) /\ (IsPending(ms[i]) => i = Len(ms))
<1>1. DOMAIN ms = 1 .. Len(ms) OBVIOUS
<1> QED BY <1>1, Zenon DEF Sound

\* An answer of whose request more was heard.
LEMMA OwnGrows ==
    ASSUME NEW m \in Messages, NEW heard \in [Gens -> Texts], NEW more \in [Gens -> Texts],
           OwnText(m, heard), Len(heard[m.g]) <= Len(more[m.g])
    PROVE  OwnText(m, more)
<1> DEFINE n == Len(heard[m.g])
           l == Len(more[m.g])
<1>1. SUFFICES ASSUME m.from = "assistant"
               PROVE  /\ InOrder(m.txt, m.g, 0, l)
                      /\ Exact(m.g) => \E a \in 0 .. l : \E b \in a .. l :
                                          m.txt = Part(m.g, a, b) /\ (m.cut \/ a = 0)
  BY DEF OwnText
<1>2. m.g \in Gens /\ m.txt \in Texts BY DEF Messages
<1>3. n \in Nat /\ l \in Nat /\ n <= l BY <1>2 DEF Texts
<1>4. /\ InOrder(m.txt, m.g, 0, n)
      /\ Exact(m.g) => \E a \in 0 .. n : \E b \in a .. n :
                          m.txt = Part(m.g, a, b) /\ (m.cut \/ a = 0)
  BY <1>1 DEF OwnText
<1> HIDE DEF n, l
<1>5. InOrder(m.txt, m.g, 0, l) BY <1>2, <1>3, <1>4, InOrderWider
<1>6. \A a \in 0 .. n : a \in 0 .. l /\ \A b \in a .. n : b \in a .. l BY <1>3
<1> QED BY <1>4, <1>5, <1>6

\* An answer whose text is a beginning of what was said is its own ...
LEMMA OwnBeginning ==
    ASSUME NEW m \in Messages, NEW heard, NEW n \in Nat, m.txt = Part(m.g, 0, n), n <= Len(heard[m.g]),
           Len(heard[m.g]) \in Nat
    PROVE  OwnText(m, heard)
<1> DEFINE l == Len(heard[m.g])
<1>1. m.g \in Gens /\ Ordered(0, n) BY DEF Messages, Ordered
<1>2. InOrder(m.txt, m.g, 0, n) /\ m.txt \in Texts BY <1>1, PartInOrder
<1>3. l \in Nat /\ n <= l OBVIOUS
<1>4. InOrder(m.txt, m.g, 0, l) BY <1>2, <1>3, InOrderWider
<1>5. 0 \in 0 .. l /\ n \in 0 .. l BY <1>3
<1>6. \E a \in 0 .. l : \E b \in a .. l : m.txt = Part(m.g, a, b) /\ (m.cut \/ a = 0) BY <1>5
<1> QED BY <1>4, <1>6 DEF OwnText

\* ... and so is one whose text is empty, or the text of one that is.
LEMMA OwnEmpty ==
    ASSUME NEW m \in Messages, NEW heard, m.txt = <<>>, Len(heard[m.g]) \in Nat
    PROVE  OwnText(m, heard)
<1>1. m.g \in Gens /\ Ordered(0, 0) BY DEF Messages, Ordered
<1>2. IsPart(Part(m.g, 0, 0), m.g, 0, 0) BY <1>1, PartIsPart
<1>3. m.txt = Part(m.g, 0, 0) BY <1>2, PartEmpty
<1>4. 0 <= Len(heard[m.g]) OBVIOUS
<1> QED BY <1>3, <1>4, OwnBeginning

LEMMA OwnSame ==
    ASSUME NEW m, NEW l, NEW heard, OwnText(m, heard),
           l.from = m.from, l.g = m.g, l.txt = m.txt, l.cut = m.cut
    PROVE  OwnText(l, heard)
BY DEF OwnText

\* The same conversation, in which more was heard.
LEMMA SoundGrows ==
    ASSUME NEW ms \in Seq(Messages), NEW heard \in [Gens -> Texts], NEW more \in [Gens -> Texts],
           Sound(ms, heard), \A g \in Gens : Len(heard[g]) <= Len(more[g])
    PROVE  Sound(ms, more)
<1>1. \A i \in 1 .. Len(ms) : OwnText(ms[i], heard) /\ (IsPending(ms[i]) => i = Len(ms)) BY SoundMeans
<1>2. ASSUME NEW i \in 1 .. Len(ms) PROVE OwnText(ms[i], more)
  <2>1. PICK m \in Messages : m = ms[i] OBVIOUS
  <2>2. m.g \in Gens BY DEF Messages
  <2>3. OwnText(m, more) BY <1>1, <2>1, <2>2, OwnGrows
  <2> QED BY <2>1, <2>3
<1> QED BY <1>1, <1>2, SoundMeans

\* A last message that is its request's own.
LEMMA SoundUpdate ==
    ASSUME NEW ms \in Seq(Messages), NEW ns \in Seq(Messages), NEW heard, Sound(ms, heard),
           Len(ns) = Len(ms), ms # <<>>, \A i \in 1 .. Len(ms) : i # Len(ms) => ns[i] = ms[i],
           OwnText(Last(ns), heard)
    PROVE  Sound(ns, heard)
<1>1. \A i \in 1 .. Len(ms) : OwnText(ms[i], heard) /\ (IsPending(ms[i]) => i = Len(ms)) BY SoundMeans
<1>2. ASSUME NEW i \in 1 .. Len(ns) PROVE OwnText(ns[i], heard) /\ (IsPending(ns[i]) => i = Len(ns))
  <2>1. CASE i = Len(ns) BY <2>1 DEF Last
  <2>2. CASE i # Len(ns)
    <3>1. ns[i] = ms[i] BY <2>2
    <3> QED BY <1>1, <3>1
  <2> QED BY <2>1, <2>2
<1> QED BY <1>2, SoundMeans

\* When the last answer has ended, all have.
LEMMA SoundSettled ==
    ASSUME NEW ms \in Seq(Messages), NEW heard, Sound(ms, heard), ms # <<>> => ~IsPending(Last(ms))
    PROVE  Settled(ms)
<1>1. \A i \in 1 .. Len(ms) : IsPending(ms[i]) => i = Len(ms) BY SoundMeans
<1>2. ASSUME NEW i \in 1 .. Len(ms), IsPending(ms[i]) PROVE FALSE
  <2>1. i = Len(ms) /\ ms # <<>> BY <1>1, <1>2
  <2> QED BY <1>2, <2>1 DEF Last
<1> QED BY <1>2 DEF Settled

\* A selection of the messages of a settled conversation.
LEMMA SoundSelection ==
    ASSUME NEW ms \in Seq(Messages), NEW ns \in Seq(Messages), NEW heard, Sound(ms, heard),
           Settled(ms), \A j \in 1 .. Len(ns) : \E i \in 1 .. Len(ms) : ns[j] = ms[i]
    PROVE  Sound(ns, heard) /\ Settled(ns)
<1>1. \A i \in 1 .. Len(ms) : OwnText(ms[i], heard) BY SoundMeans
<1>2. \A i \in 1 .. Len(ms) : ~IsPending(ms[i]) BY DEF Settled
<1>3. ASSUME NEW j \in 1 .. Len(ns) PROVE OwnText(ns[j], heard) /\ ~IsPending(ns[j])
  <2>1. PICK i \in 1 .. Len(ms) : ns[j] = ms[i] OBVIOUS
  <2> QED BY <1>1, <1>2, <2>1
<1>4. Sound(ns, heard) BY <1>3, SoundMeans
<1> QED BY <1>3, <1>4 DEF Settled

\* A settled conversation and one more message.
LEMMA SoundAppend ==
    ASSUME NEW ms \in Seq(Messages), NEW heard, Sound(ms, heard), Settled(ms),
           NEW m \in Messages, OwnText(m, heard)
    PROVE  /\ ms \o <<m>> \in Seq(Messages) /\ Sound(ms \o <<m>>, heard)
           /\ ms \o <<m>> # <<>> /\ Last(ms \o <<m>>) = m
<1> DEFINE ns == Append(ms, m)
<1>1. ms \o <<m>> = ns BY AppendIsConcat
<1>2. /\ ns \in Seq(Messages) /\ Len(ns) = Len(ms) + 1 /\ Len(ms) \in Nat
      /\ ns[Len(ms) + 1] = m /\ \A i \in 1 .. Len(ms) : ns[i] = ms[i]
  BY AppendProperties
<1> HIDE DEF ns
<1>3. \A i \in 1 .. Len(ms) : OwnText(ms[i], heard) BY SoundMeans
<1>4. \A i \in 1 .. Len(ms) : ~IsPending(ms[i]) BY DEF Settled
<1>5. ASSUME NEW i \in 1 .. Len(ns) PROVE OwnText(ns[i], heard) /\ (IsPending(ns[i]) => i = Len(ns))
  <2>1. CASE i = Len(ns) BY <1>2, <2>1
  <2>2. CASE i # Len(ns)
    <3>1. i \in 1 .. Len(ms) /\ ns[i] = ms[i] BY <1>2, <2>2
    <3> QED BY <1>3, <1>4, <3>1
  <2> QED BY <2>1, <2>2
<1>6. Sound(ns, heard) BY <1>2, <1>5, SoundMeans
<1>7. ns # <<>> /\ Last(ns) = m BY <1>2 DEF Last
<1> QED BY <1>1, <1>2, <1>6, <1>7

--------------------------------------------------------------------------------
(* Queueing updaters. *)

\* The pending text as an updater, and the conversation once it has run.
Chunks == WithText("chunk", gen, pend.txt)
Flown  == IF pend.txt = <<>> THEN Now ELSE Run(Chunks, Now, gen)

\* The queue now leads to fin; what an eager run showed on the way is in mids.
Moved(mids, fin) ==
    /\ Now' = fin
    /\ Later' \in {Later} \cup mids
    /\ latest' \in {latest} \cup mids
    /\ queue' \in Seq(Updaters) /\ saveTimer' \in BOOLEAN

\* An updater runs in its own generation only.
LEMMA RunFacts ==
    ASSUME NEW ms, NEW now
    PROVE  /\ \A x : Run(SetTo(x), ms, now) = x
           /\ \A u \in Answering : Run(u, ms, now) = IF u.g = now THEN UpdateLast(u, ms) ELSE ms
<1>1. ASSUME NEW x PROVE Run(SetTo(x), ms, now) = x BY DEF Run, SetTo
<1>2. ASSUME NEW u \in Answering PROVE Run(u, ms, now) = IF u.g = now THEN UpdateLast(u, ms) ELSE ms
  <2>1. u.kind # "set" /\ u.kind # "remove" BY DEF Answering
  <2> QED BY <2>1 DEF Run, Stale
<1> QED BY <1>1, <1>2

\* A queued updater is typed.
LEMMA UpdaterTypes ==
    /\ \A u \in Answering : u.kind # "stop" => u \in Updaters
    /\ \A ms \in Seq(Messages) : SetTo(ms) \in Updaters
    /\ \A g \in Gens : /\ ForGen("complete", g) \in Answering /\ ForGen("error", g) \in Answering
                       /\ ForGen("stop", g) \in Answering
    /\ \A g \in Gens, t \in Texts : /\ WithText("chunk", g, t) \in Answering
                                    /\ WithText("reply", g, t) \in Answering
<1>1. ASSUME NEW u \in Answering, u.kind # "stop" PROVE u \in Updaters BY <1>1 DEF Answering, Updaters
<1>2. ASSUME NEW ms \in Seq(Messages) PROVE SetTo(ms) \in Updaters BY DEF SetTo, Updaters
<1>3. <<>> \in Texts BY DEF Texts
<1> QED BY <1>1, <1>2, <1>3 DEF ForGen, WithText, Answering

\* An answer's updater leaves a conversation.
LEMMA RunType ==
    ASSUME NEW u \in Answering, NEW ms \in Seq(Messages), NEW now
    PROVE  Run(u, ms, now) \in Seq(Messages)
<1>1. Run(u, ms, now) \in {ms, UpdateLast(u, ms)} BY RunFacts
<1>2. UpdateLast(u, ms) \in Seq(Messages) BY UpdateLastFacts
<1> QED BY <1>1, <1>2

\* One updater of the current generation is queued.
LEMMA EnqueueOne ==
    ASSUME CTypeOK, Now \in Seq(Messages), NEW u \in Answering, u.kind # "stop", u.g = gen,
           Enqueue(<<u>>), UNCHANGED <<msgs, gen>>
    PROVE  Moved({Run(u, Now, gen)}, Run(u, Now, gen))
<1> DEFINE fin == Run(u, Now, gen)
<1>1. queue \in Seq(Updaters) /\ gen \in Nat /\ gen # gen + 1 /\ saveTimer \in BOOLEAN BY DEF CTypeOK
<1>2. u \in Updaters BY UpdaterTypes
<1>3. fin \in Seq(Messages) BY RunType
<1>4. CASE queue' = queue \o <<u>> /\ UNCHANGED <<latest, saveTimer>>
  <2>1. RunAll(queue', msgs, gen) = fin BY <1>1, <1>4, RunAllOne DEF Now
  <2>2. RunAll(queue', msgs, gen + 1) = Run(u, Later, gen + 1) BY <1>1, <1>4, RunAllOne DEF Later
  <2>3. Run(u, Later, gen + 1) = Later BY <1>1, RunFacts
  <2>4. queue' \in Seq(Updaters) BY <1>1, <1>2, <1>4, ConcatProperties
  <2> QED BY <1>1, <1>4, <2>1, <2>2, <2>3, <2>4 DEF Moved, Now, Later
<1>5. CASE /\ queue = <<>> /\ queue' = <<SetTo(Run(u, msgs, gen))>> \o Tail(<<u>>)
           /\ latest' = Run(u, msgs, gen) /\ saveTimer' = TRUE
  <2>1. Now = msgs BY <1>5, RunAllEmpty DEF Now
  <2>2. SetTo(fin) \in Updaters BY <1>3, UpdaterTypes
  <2>3. queue' = <<SetTo(fin)>>
    <3>1. Tail(<<u>>) = <<>> OBVIOUS
    <3>2. <<SetTo(fin)>> \in Seq(Updaters) BY <2>2
    <3> QED BY <1>5, <2>1, <3>1, <3>2, ConcatEmptySeq
  <2>4. RunAll(queue', msgs, gen) = fin
    <3>1. RunAll(queue', msgs, gen) = Run(SetTo(fin), msgs, gen) BY <2>3, RunAllAlone
    <3> QED BY <3>1, RunFacts
  <2>5. RunAll(queue', msgs, gen + 1) = fin
    <3>1. RunAll(queue', msgs, gen + 1) = Run(SetTo(fin), msgs, gen + 1) BY <2>3, RunAllAlone
    <3> QED BY <3>1, RunFacts
  <2>6. queue' \in Seq(Updaters) BY <2>2, <2>3
  <2> QED BY <1>5, <2>1, <2>4, <2>5, <2>6 DEF Moved, Now, Later
<1>6. <<u>> # <<>> /\ Head(<<u>>) = u OBVIOUS
<1> QED BY <1>4, <1>5, <1>6 DEF Enqueue

\* Two updaters of the current generation are queued.
LEMMA EnqueueTwo ==
    ASSUME CTypeOK, Now \in Seq(Messages), NEW u \in Answering, u.kind # "stop", u.g = gen,
           NEW v \in Answering, v.kind # "stop", v.g = gen,
           Enqueue(<<u, v>>), UNCHANGED <<msgs, gen>>
    PROVE  Moved({Run(u, Now, gen)}, Run(v, Run(u, Now, gen), gen))
<1> DEFINE mid == Run(u, Now, gen)
           fin == Run(v, mid, gen)
<1>1. queue \in Seq(Updaters) /\ gen \in Nat /\ gen # gen + 1 /\ saveTimer \in BOOLEAN BY DEF CTypeOK
<1>2. u \in Updaters /\ v \in Updaters BY UpdaterTypes
<1>3. mid \in Seq(Messages) BY RunType
<1>4. CASE queue' = queue \o <<u, v>> /\ UNCHANGED <<latest, saveTimer>>
  <2>1. RunAll(queue', msgs, gen) = fin BY <1>1, <1>4, RunAllTwo DEF Now
  <2>2. RunAll(queue', msgs, gen + 1) = Run(v, Run(u, Later, gen + 1), gen + 1) BY <1>1, <1>4, RunAllTwo DEF Later
  <2>3. Run(v, Run(u, Later, gen + 1), gen + 1) = Later BY <1>1, RunFacts
  <2>4. queue' \in Seq(Updaters)
    <3>1. <<u, v>> \in Seq(Updaters) BY <1>2
    <3> QED BY <1>1, <1>4, <3>1, ConcatProperties
  <2> QED BY <1>1, <1>4, <2>1, <2>2, <2>3, <2>4 DEF Moved, Now, Later
<1>5. CASE /\ queue = <<>> /\ queue' = <<SetTo(Run(u, msgs, gen))>> \o Tail(<<u, v>>)
           /\ latest' = Run(u, msgs, gen) /\ saveTimer' = TRUE
  <2>1. Now = msgs BY <1>5, RunAllEmpty DEF Now
  <2>2. SetTo(mid) \in Updaters BY <1>3, UpdaterTypes
  <2> DEFINE w == SetTo(mid)
  <2>3. <<w>> \in Seq(Updaters) BY <2>2
  <2>4. queue' = <<w>> \o <<v>>
    <3>1. Tail(<<u, v>>) = <<v>> OBVIOUS
    <3> QED BY <1>5, <2>1, <3>1
  <2> HIDE DEF w
  <2>5. ASSUME NEW now PROVE RunAll(queue', msgs, now) = Run(v, Run(w, msgs, now), now)
    <3>1. PICK one \in Seq(Updaters) : one = <<w>> BY <2>3
    <3>2. RunAll(one \o <<v>>, msgs, now) = Run(v, RunAll(one, msgs, now), now) BY RunAllOne
    <3>3. RunAll(one, msgs, now) = Run(w, msgs, now) BY <3>1, RunAllAlone
    <3> QED BY <2>4, <3>1, <3>2, <3>3
  <2>6. /\ RunAll(queue', msgs, gen) = Run(v, Run(w, msgs, gen), gen)
        /\ RunAll(queue', msgs, gen + 1) = Run(v, Run(w, msgs, gen + 1), gen + 1) BY <2>5
  <2>7. Run(w, msgs, gen) = mid /\ Run(w, msgs, gen + 1) = mid BY RunFacts DEF w
  <2>8. Run(v, mid, gen + 1) = mid BY <1>1, RunFacts
  <2>9. queue' \in Seq(Updaters)
    <3>1. <<v>> \in Seq(Updaters) BY <1>2
    <3> QED BY <2>3, <2>4, <3>1, ConcatProperties
  <2> QED BY <1>5, <2>1, <2>6, <2>7, <2>8, <2>9 DEF Moved, Now, Later
<1>6. <<u, v>> # <<>> /\ Head(<<u, v>>) = u OBVIOUS
<1> QED BY <1>4, <1>5, <1>6 DEF Enqueue

--------------------------------------------------------------------------------
(* The text that is pending. *)

\* What is pending is typed, and belongs to a request.
LEMMA ChunksType ==
    ASSUME CTypeOK, CallsInv, Now \in Seq(Messages)
    PROVE  /\ pend.txt # <<>> => /\ requesting /\ gen \in Gens /\ Chunks \in Answering
                                 /\ Chunks.kind = "chunk" /\ Chunks.g = gen /\ Chunks.txt = pend.txt
           /\ Flown \in Seq(Messages)
<1>1. pend.txt \in Texts BY DEF CTypeOK
<1>2. ASSUME pend.txt # <<>> PROVE requesting /\ gen \in Gens BY <1>2 DEF CallsInv
<1>3. ASSUME pend.txt # <<>> PROVE Chunks \in Answering BY <1>1, <1>2, <1>3, UpdaterTypes DEF Chunks
<1>4. Chunks.kind = "chunk" /\ Chunks.g = gen /\ Chunks.txt = pend.txt BY DEF Chunks, WithText
<1>5. Flown \in Seq(Messages) BY <1>3, RunType DEF Flown
<1> QED BY <1>2, <1>3, <1>4, <1>5

\* What was said is a text of its pieces.
LEMMA SaidPart ==
    ASSUME CTypeOK, CallsInv, NEW g \in Gens
    PROVE  Len(said[g]) \in Nat /\ said[g] = Part(g, 0, Len(said[g])) /\ said[g] \in Texts
BY DEF CTypeOK, CallsInv, Texts

\* The last answer, once what is pending has run, holds what was said in order, and
\* all of it unless the upstream stutters.
LEMMA FlownWhole ==
    ASSUME CTypeOK, CallsInv, Now \in Seq(Messages), TextInv, requesting
    PROVE  /\ Flown # <<>> /\ Sound(Flown, said)
           /\ Last(Flown).from = "assistant" /\ Last(Flown).g = gen
           /\ Last(Flown).st \in {"loading", "streaming"}
           /\ InOrder(Last(Flown).txt, gen, 0, Len(said[gen])) /\ Len(said[gen]) \in Cuts(gen)
           /\ Exact(gen) => Last(Flown).txt = Part(gen, 0, Len(said[gen]))
<1> DEFINE m == Last(Now)
           n == Len(said[gen])
<1>1. gen \in Gens /\ Flown \in Seq(Messages) BY ChunksType DEF CallsInv
<1>2. Sound(Now, said) /\ Now # <<>> /\ Continues(m) BY DEF TextInv
<1>3. m \in Messages BY <1>2 DEF Last
<1>4. n \in Nat /\ pend.txt \in Texts BY <1>1, SaidPart DEF CTypeOK
<1>5. m.from = "assistant" /\ m.g = gen /\ m.st \in {"loading", "streaming"} /\ n \in Cuts(gen)
  BY <1>2 DEF Continues
<1>6. PICK k \in Cuts(gen) :
        /\ k <= n
        /\ IF Exact(gen)
           THEN /\ m.txt = Part(gen, 0, k)
                /\ pend.txt = IF k = n THEN <<>> ELSE Delivered(gen, k, n)
           ELSE InOrder(m.txt, gen, 0, k) /\ InOrder(pend.txt, gen, k, n)
  BY <1>2 DEF Continues
<1>7. k \in Nat /\ m.txt \in Texts BY <1>1, <1>3, CutsNat DEF Messages
<1> HIDE DEF n
<1>8. InOrder(m.txt, gen, 0, n)
  <2>1. CASE Exact(gen)
    <3>1. Ordered(0, k) BY <1>7 DEF Ordered
    <3>2. InOrder(m.txt, gen, 0, k) BY <1>1, <1>6, <2>1, <3>1, PartInOrder
    <3> QED BY <1>4, <1>6, <1>7, <3>2, InOrderWider
  <2>2. CASE ~Exact(gen)
    <3>1. InOrder(m.txt, gen, 0, k) BY <1>6, <2>2
    <3> QED BY <1>4, <1>6, <1>7, <3>1, InOrderWider
  <2> QED BY <2>1, <2>2
<1>9. CASE pend.txt = <<>>
  <2>1. Flown = Now BY <1>9 DEF Flown
  <2>2. Exact(gen) => m.txt = Part(gen, 0, n)
    <3>1. SUFFICES ASSUME Exact(gen) PROVE k = n BY <1>6
    <3>2. SUFFICES ASSUME k # n PROVE FALSE OBVIOUS
    <3>3. k < n /\ Ordered(0, n) /\ Ordered(k, n) /\ 0 # n BY <1>4, <1>6, <1>7, <3>2 DEF Ordered
    <3>4. IsPart(Part(gen, k, n), gen, k, n) /\ IsPart(Part(gen, 0, n), gen, 0, n) BY <1>1, <3>3, PartIsPart
    <3>5. Part(gen, k, n) # <<>> BY <3>2, <3>4, PartEmpty
    <3>6. Part(gen, 0, n) # <<>> BY <3>3, <3>4, PartEmpty
    <3>7. Delivered(gen, k, n) # <<>> BY <3>5, <3>6 DEF Delivered
    <3> QED BY <1>6, <1>9, <3>1, <3>2, <3>7
  <2> QED BY <1>2, <1>5, <1>8, <2>1, <2>2 DEF n
<1>10. CASE pend.txt # <<>>
  <2> DEFINE t == m.txt \o Appendable(m.txt, pend.txt)
  <2>1. t \in Texts BY <1>4, <1>7, TextTypes
  <2>2. Exact(gen) => t = Part(gen, 0, n)
    <3>1. SUFFICES ASSUME Exact(gen) PROVE t = Part(gen, 0, n) OBVIOUS
    <3>2. m.txt = Part(gen, 0, k) /\ k # n /\ pend.txt = Delivered(gen, k, n) BY <1>6, <1>10, <3>1
    <3>3. k < n BY <1>4, <1>6, <1>7, <3>2
    <3>4. Part(gen, 0, k) \o Appendable(Part(gen, 0, k), Delivered(gen, k, n)) = Part(gen, 0, n)
      BY <1>1, <1>5, <3>1, <3>3, AppendableWhole DEF n
    <3> QED BY <3>2, <3>4
  <2>3. InOrder(t, gen, 0, n)
    <3>1. CASE Exact(gen)
      <4>1. Ordered(0, n) BY <1>4 DEF Ordered
      <4>2. InOrder(Part(gen, 0, n), gen, 0, n) BY <1>1, <4>1, PartInOrder
      <4>3. t = Part(gen, 0, n) BY <2>2, <3>1
      <4> HIDE DEF t
      <4> QED BY <4>2, <4>3
    <3>2. CASE ~Exact(gen)
      <4>1. InOrder(m.txt, gen, 0, k) /\ InOrder(pend.txt, gen, k, n) BY <1>6, <3>2
      <4>2. 0 <= k /\ 0 \in Nat BY <1>7
      <4> QED BY <1>4, <1>6, <1>7, <4>1, <4>2, InOrderKept
    <3> QED BY <3>1, <3>2
  <2>4. Chunks \in Answering /\ Chunks.kind = "chunk" /\ Chunks.g = gen /\ Chunks.txt = pend.txt BY <1>10, ChunksType
  <2>5. Flown = UpdateLast(Chunks, Now) BY <1>10, <2>4, RunFacts DEF Flown
  <2>6. Updated(Chunks, m) = Chunked(m, pend.txt) BY <2>4 DEF Updated
  <2>7. Chunked(m, pend.txt) = [m EXCEPT !.txt = t, !.st = "streaming"] BY <1>5 DEF Chunked
  <2>8. Last(Flown) = Updated(Chunks, m) BY <1>2, <1>5, <2>4, <2>5, UpdateLastFacts
  <2>9. Last(Flown).from = "assistant" /\ Last(Flown).g = gen /\ Last(Flown).st = "streaming"
        /\ Last(Flown).txt = t
    <3>1. Last(Flown) = [m EXCEPT !.txt = t, !.st = "streaming"] BY <2>6, <2>7, <2>8
    <3> HIDE DEF m, t
    <3> QED BY <1>3, <1>5, <3>1 DEF Messages
  <2> HIDE DEF t
  <2>10. Len(Flown) = Len(Now) /\ \A i \in 1 .. Len(Now) : i # Len(Now) => Flown[i] = Now[i]
    BY <2>4, <2>5, UpdateLastFacts
  <2>11. Flown # <<>> BY <1>1, <1>2, <2>10
  <2>12. OwnText(Last(Flown), said)
    <3>1. 0 \in 0 .. n /\ n \in 0 .. n BY <1>4
    <3>2. Exact(gen) => \E a \in 0 .. n : \E b \in a .. n :
            Last(Flown).txt = Part(gen, a, b) /\ (Last(Flown).cut \/ a = 0)
      BY <2>2, <2>9, <3>1
    <3>3. InOrder(Last(Flown).txt, gen, 0, n) BY <2>3, <2>9
    <3> QED BY <2>9, <3>2, <3>3 DEF OwnText, n
  <2>13. Sound(Flown, said) BY <1>1, <1>2, <2>10, <2>12, SoundUpdate
  <2> QED BY <1>5, <2>2, <2>3, <2>9, <2>11, <2>13 DEF n
<1> QED BY <1>9, <1>10

\* The answer ends: nothing is pending any more.
LEMMA EndsAnswer ==
    ASSUME NEW ms \in Seq(Messages), ms # <<>>, NEW heard \in [Gens -> Texts], Sound(ms, heard),
           Last(ms).from = "assistant", NEW u \in Answering, NEW n \in Nat,
           LET m == Last(ms) IN
           /\ u.kind \in {"complete", "error", "reply"}
           /\ u.kind = "complete" => m.st \in {"loading", "streaming"}
           /\ u.kind = "reply" => u.txt = Part(m.g, 0, n) /\ n <= Len(heard[m.g])
    PROVE  LET ns == UpdateLast(u, ms) IN
           /\ ns \in Seq(Messages) /\ Sound(ns, heard) /\ Settled(ns)
           /\ u.kind = "complete" => Last(ns).txt = Last(ms).txt
<1> DEFINE m == Last(ms)
           ns == UpdateLast(u, ms)
<1>1. /\ ns \in Seq(Messages) /\ Len(ns) = Len(ms) /\ Last(ns) = Updated(u, m)
      /\ \A i \in 1 .. Len(ms) : i # Len(ms) => ns[i] = ms[i]
  BY UpdateLastFacts
<1>2. m \in Messages BY DEF Last
<1>3. OwnText(m, heard) BY SoundMeans DEF Last
<1>4. /\ u.kind \in {"complete", "error", "reply"}
      /\ u.kind = "complete" => m.st \in {"loading", "streaming"}
      /\ u.kind = "reply" => u.txt = Part(m.g, 0, n) /\ n <= Len(heard[m.g])
  OBVIOUS
<1> HIDE DEF ns, m
<1>5. m.g \in Gens /\ Len(heard[m.g]) \in Nat BY <1>2 DEF Messages, Texts
<1>6. Updated(u, m) \in Messages /\ Updated(u, m).g = m.g BY <1>2, UpdatedType
<1>7. /\ ~IsPending(Last(ns)) /\ OwnText(Last(ns), heard)
      /\ u.kind = "complete" => Last(ns).txt = m.txt
  <2>1. CASE u.kind = "complete"
    <3>1. Updated(u, m) = [m EXCEPT !.st = "complete"] BY <1>4, <2>1 DEF Updated, Completed, IsFinal
    <3>2. /\ Last(ns).st = "complete" /\ Last(ns).from = m.from /\ Last(ns).g = m.g
          /\ Last(ns).txt = m.txt /\ Last(ns).cut = m.cut
      BY <1>1, <1>2, <3>1 DEF Messages
    <3>3. OwnText(Last(ns), heard) BY <1>3, <3>2, OwnSame
    <3> QED BY <3>2, <3>3 DEF IsPending
  <2>2. CASE u.kind = "error"
    <3>1. Updated(u, m) = [m EXCEPT !.st = "error", !.txt = <<>>] BY <2>2 DEF Updated, Failed
    <3>2. Last(ns).st = "error" /\ Last(ns).txt = <<>> BY <1>1, <1>2, <3>1 DEF Messages
    <3>4. OwnText(Last(ns), heard)
      <4>1. Last(ns).g = m.g /\ Last(ns) \in Messages BY <1>1, <1>6
      <4> QED BY <1>5, <3>2, <4>1, OwnEmpty
    <3> QED BY <2>2, <3>2, <3>4 DEF IsPending
  <2>3. CASE u.kind = "reply"
    <3>1. Updated(u, m) = [[m EXCEPT !.st = "complete"] EXCEPT !.txt = u.txt] BY <2>3 DEF Updated, Completed
    <3>2. Last(ns).st = "complete" /\ Last(ns).txt = u.txt BY <1>1, <1>2, <3>1 DEF Messages
    <3>3. OwnText(Last(ns), heard) BY <1>1, <1>4, <1>5, <1>6, <2>3, <3>2, OwnBeginning
    <3> QED BY <2>3, <3>2, <3>3 DEF IsPending
  <2> QED BY <1>4, <2>1, <2>2, <2>3
<1>8. Sound(ns, heard) BY <1>1, <1>7, SoundUpdate
<1>9. Settled(ns) BY <1>1, <1>7, <1>8, SoundSettled
<1> QED BY <1>1, <1>7, <1>8, <1>9 DEF ns, m

--------------------------------------------------------------------------------
(* Clicks. *)

\* A click shows conversation x, and nothing is left in the queue.
Shown(x) ==
    /\ msgs' = x /\ latest' = x /\ Now' = x /\ Later' = x
    /\ queue' = <<>> /\ saveTimer' = TRUE /\ stored' = stored

\* What is shown is what the updaters leave.
LEMMA ShowOne ==
    ASSUME queue \in Seq(Updaters), NEW u, NEW now, Show(<<u>>, now)
    PROVE  Shown(Run(u, RunAll(queue, msgs, now), now))
<1> DEFINE x == Run(u, RunAll(queue, msgs, now), now)
<1>1. RunAll(queue \o <<u>>, msgs, now) = x BY RunAllOne
<1> HIDE DEF x
<1>2. /\ msgs' = x /\ queue' = <<>> /\ latest' = x /\ saveTimer' = TRUE /\ stored' = stored BY <1>1 DEF Show
<1>3. Now' = x /\ Later' = x BY <1>2, RunAllEmpty DEF Now, Later
<1> QED BY <1>2, <1>3 DEF Shown, x

LEMMA ShowTwo ==
    ASSUME queue \in Seq(Updaters), NEW u, NEW v, NEW now, Show(<<u, v>>, now)
    PROVE  Shown(Run(v, Run(u, RunAll(queue, msgs, now), now), now))
<1> DEFINE x == Run(v, Run(u, RunAll(queue, msgs, now), now), now)
<1>1. RunAll(queue \o <<u, v>>, msgs, now) = x BY RunAllTwo
<1> HIDE DEF x
<1>2. /\ msgs' = x /\ queue' = <<>> /\ latest' = x /\ saveTimer' = TRUE /\ stored' = stored BY <1>1 DEF Show
<1>3. Now' = x /\ Later' = x BY <1>2, RunAllEmpty DEF Now, Later
<1> QED BY <1>2, <1>3 DEF Shown, x

LEMMA ShowSet ==
    ASSUME queue \in Seq(Updaters), NEW x, NEW now, Show(<<SetTo(x)>>, now)
    PROVE  Shown(x)
<1>1. Shown(Run(SetTo(x), RunAll(queue, msgs, now), now)) BY ShowOne
<1>2. Run(SetTo(x), RunAll(queue, msgs, now), now) = x BY RunFacts
<1> QED BY <1>1, <1>2

\* When nothing is queued the conversation on screen is the one to come.
LEMMA NothingQueued ==
    ASSUME queue = <<>>
    PROVE  Now = msgs /\ Later = msgs
BY RunAllEmpty DEF Now, Later

\* Settled, as TextInv says it.
LEMMA SettledMeans ==
    ASSUME NEW ms \in Seq(Messages)
    PROVE  Settled(ms) <=> \A i \in DOMAIN ms : ~IsPending(ms[i])
<1>1. DOMAIN ms = 1 .. Len(ms) OBVIOUS
<1> QED BY <1>1, Zenon DEF Settled

\* An idle page: what is on screen has ended.
LEMMA Idle ==
    ASSUME ChatInv, ~busy
    PROVE  /\ queue = <<>> /\ ~requesting /\ ~streaming /\ Now = msgs
           /\ ~clobbered => Sound(msgs, said) /\ Settled(msgs)
<1>1. queue = <<>> /\ ~requesting /\ ~streaming BY DEF ChatInv, CallsInv
<1>2. Now = msgs BY <1>1, NothingQueued
<1>3. ASSUME ~clobbered PROVE Sound(msgs, said) /\ Settled(msgs)
  <2>1. TextInv /\ msgs \in Seq(Messages) BY <1>3 DEF ChatInv, CTypeOK
  <2>2. Sound(msgs, said) /\ \A i \in DOMAIN Now : ~IsPending(Now[i]) BY <1>1, <2>1 DEF TextInv
  <2> QED BY <1>2, <2>1, <2>2, SettledMeans
<1> QED BY <1>1, <1>2, <1>3

\* A new answer begins with the empty text.
LEMMA LoadingFacts ==
    ASSUME NEW g \in Gens, NEW heard, Len(heard[g]) \in Nat
    PROVE  /\ Loading(g) \in Messages /\ UserMessage(g) \in Messages
           /\ OwnText(Loading(g), heard) /\ OwnText(UserMessage(g), heard) /\ ~IsPending(UserMessage(g))
<1>1. <<>> \in Texts BY DEF Texts
<1>2. Loading(g) \in Messages /\ UserMessage(g) \in Messages
  BY <1>1 DEF Loading, UserMessage, Messages, Statuses
<1>4. OwnText(Loading(g), heard) BY <1>2, OwnEmpty DEF Loading
<1>5. OwnText(UserMessage(g), heard) /\ ~IsPending(UserMessage(g)) BY DEF UserMessage, OwnText, IsPending
<1> QED BY <1>2, <1>4, <1>5

\* A new request: a conversation that has ended, and its answer.
LEMMA NewRequest ==
    ASSUME ChatInv, NEW s \in BOOLEAN, SendChat(s), clobbered' = clobbered, NEW base \in Seq(Messages),
           ~clobbered => Sound(base, said) /\ Settled(base),
           Shown(base \o <<Loading(gen + 1)>>)
    PROVE  ChatInv'
<1> DEFINE g == gen + 1
           x == base \o <<Loading(g)>>
<1>1. CTypeOK /\ CallsInv /\ (~clobbered => TextInv) BY DEF ChatInv
<1>2. /\ g \in Gens /\ gen' = g /\ gen \in Nat /\ g > gen
      /\ pend' = NoChunks(g) /\ timer' = FALSE /\ ctl' = (IF s THEN g ELSE 0)
      /\ calls' = {c \in calls : c.at # "open"} \cup {[g |-> g, at |-> IF s THEN "headers" ELSE "json"]}
      /\ requesting' = TRUE /\ streaming' = FALSE /\ busy' = TRUE
      /\ said' = said
  <2>1. MaxGen \in Nat BY ChatConstants
  <2>2. gen \in 0 .. MaxGen /\ gen < MaxGen BY <1>1 DEF CTypeOK, SendChat
  <2>3. g \in Gens /\ gen \in Nat /\ g > gen BY <2>1, <2>2 DEF Gens
  <2> QED BY <2>3 DEF SendChat
<1>3. Len(said[g]) \in Nat /\ said[g] = <<>>
  <2>1. Len(said[g]) \in Nat BY <1>1, <1>2, SaidPart
  <2> QED BY <1>1, <1>2, <2>1 DEF CallsInv
<1>4. /\ msgs' = x /\ latest' = x /\ Now' = x /\ Later' = x
      /\ queue' = <<>> /\ saveTimer' = TRUE /\ stored' = stored
  BY DEF Shown
<1>5. Loading(g) \in Messages /\ OwnText(Loading(g), said) BY <1>2, <1>3, LoadingFacts
<1>6. x \in Seq(Messages) BY <1>5
<1>7. pend'.txt = <<>> /\ pend' \in [g : {g}, txt : Texts]
  <2>1. <<>> \in Texts BY DEF Texts
  <2> QED BY <1>2, <2>1 DEF NoChunks
<1> HIDE DEF x, g
<1>8. CTypeOK'
  <2>1. gen' \in 0 .. MaxGen /\ ctl' \in {0, gen'} BY <1>2 DEF Gens
  <2>2. pend' \in [g : {gen'}, txt : Texts] /\ timer' \in BOOLEAN /\ (timer' => pend'.txt # <<>>) BY <1>2, <1>7
  <2>3. /\ msgs' \in Seq(Messages) /\ latest' \in Seq(Messages) /\ stored' \in Seq(Messages)
        /\ queue' \in Seq(Updaters)
    BY <1>1, <1>4, <1>6 DEF CTypeOK
  <2>4. calls' \subseteq [g : Gens, at : {"headers", "open", "json"}] BY <1>1, <1>2 DEF CTypeOK
  <2>5. {requesting', streaming', busy', saveTimer', clobbered'} \subseteq BOOLEAN BY <1>1, <1>2, <1>4 DEF CTypeOK
  <2>6. said' \in [Gens -> Texts] BY <1>1, <1>2 DEF CTypeOK
  <2> QED BY <2>1, <2>2, <2>3, <2>4, <2>5, <2>6 DEF CTypeOK
<1>9. CallsInv'
  <2>1. ASSUME NEW h \in Gens PROVE said'[h] = Part(h, 0, Len(said'[h])) /\ (h > gen' => said'[h] = <<>>)
    <3>1. h > gen' => h > gen BY <1>2 DEF Gens, g
    <3> QED BY <1>1, <1>2, <3>1 DEF CallsInv
  <2>2. \A c \in calls : c.g <= gen /\ c.g # g /\ c.g \in Nat
    <3>1. \A c \in calls : c.g <= gen /\ c.g \in Gens BY <1>1 DEF CallsInv, CTypeOK
    <3> QED BY <1>2, <3>1 DEF Gens
  <2>3. PICK new : new = [g |-> g, at |-> IF s THEN "headers" ELSE "json"] OBVIOUS
  <2>4. \A c \in calls' : c \in calls \/ c = new BY <1>2, <2>3
  <2>5. new.g = g /\ new.at = (IF s THEN "headers" ELSE "json") BY <2>3
  <2>6. \A c, d \in calls : c.g = d.g => c = d BY <1>1 DEF CallsInv
  <2>7. \A c \in calls' : c.g <= gen'
    <3>1. gen <= g /\ g <= g /\ g \in Nat BY <1>2 DEF g
    <3>2. \A c \in calls : c.g <= g BY <1>2, <2>2, <3>1
    <3> QED BY <1>2, <2>4, <2>5, <3>1, <3>2
  <2>8. \A c, d \in calls' : c.g = d.g => c = d BY <2>2, <2>4, <2>5, <2>6
  <2>9. ASSUME NEW c \in calls', c.g = gen'
        PROVE  /\ requesting' /\ (streaming' <=> c.at = "open")
               /\ c.at = "json" => ctl' = 0 /\ said'[gen'] = <<>> /\ pend'.txt = <<>>
    <3>1. c = new BY <1>2, <2>2, <2>4, <2>9
    <3> QED BY <1>2, <1>3, <1>7, <2>5, <3>1
  <2> QED BY <1>2, <2>1, <2>7, <2>8, <2>9 DEF CallsInv
<1>10. ASSUME ~clobbered' PROVE TextInv'
  <2>1. TextInv /\ Sound(stored, said) BY <1>1, <1>10 DEF TextInv
  <2>2. Sound(x, said) /\ x # <<>> /\ Last(x) = Loading(g) BY <1>5, <1>10, SoundAppend DEF x
  <2>3. Continues(Last(Now))'
    <3>1. Loading(g).from = "assistant" /\ Loading(g).g = g /\ Loading(g).st = "loading" /\ Loading(g).txt = <<>>
      BY DEF Loading
    <3>2. Len(<<>>) = 0 /\ 0 \in Cuts(g) /\ 0 <= 0 BY DEF Cuts
    <3>3. <<>> = Part(g, 0, 0)
      <4>1. Ordered(0, 0) BY DEF Ordered
      <4>2. IsPart(Part(g, 0, 0), g, 0, 0) BY <1>2, <4>1, PartIsPart
      <4> QED BY <4>2, PartEmpty
    <3>4. InOrder(<<>>, g, 0, 0) BY DEF InOrder
    <3>5. Last(Now') = Loading(g) /\ gen' = g /\ Len(said'[g]) = 0 /\ pend'.txt = <<>>
      BY <1>2, <1>3, <1>4, <1>7, <2>2, <3>2
    <3> QED BY <3>1, <3>2, <3>3, <3>4, <3>5 DEF Continues
  <2> QED BY <1>2, <1>4, <2>1, <2>2, <2>3 DEF TextInv
<1> QED BY <1>4, <1>6, <1>8, <1>9, <1>10 DEF ChatInv

\* handleSendMessage.
LEMMA SendKeeps ==
    ASSUME ChatInv, NEW s \in BOOLEAN, Send(s)
    PROVE  ChatInv'
<1> DEFINE g == gen + 1
           user == UserMessage(g)
           load == Loading(g)
           base == msgs \o <<user>>
<1>1. CTypeOK /\ CallsInv /\ gen < MaxGen BY DEF ChatInv, Send, SendChat
<1>2. msgs \in Seq(Messages) /\ queue \in Seq(Updaters) /\ g \in Gens
  BY <1>1, ChatConstants DEF CTypeOK, Gens
<1>3. Len(said[g]) \in Nat BY <1>1, <1>2, SaidPart
<1>4. user \in Messages /\ load \in Messages /\ OwnText(user, said) /\ ~IsPending(user)
  BY <1>2, <1>3, LoadingFacts
<1>5. ~busy /\ SendChat(s) /\ clobbered' = clobbered /\ Show(<<SetTo(msgs \o <<user, load>>)>>, g) BY DEF Send
<1> HIDE DEF g, user, load
<1>6. msgs \o <<user, load>> = base \o <<load>>
  <2>1. PICK a \in Messages : a = user BY <1>4
  <2>2. PICK b \in Messages : b = load BY <1>4
  <2>3. msgs \o <<a, b>> = (msgs \o <<a>>) \o <<b>> BY <1>2, ConcatPair
  <2> QED BY <2>1, <2>2, <2>3
<1>7. base \in Seq(Messages) BY <1>2, <1>4, ConcatProperties
<1>8. Shown(msgs \o <<user, load>>) BY <1>2, <1>5, ShowSet
<1>9. Shown(base \o <<load>>) BY <1>6, <1>8
<1>10. ASSUME ~clobbered PROVE Sound(base, said) /\ Settled(base)
  <2>1. Sound(msgs, said) /\ Settled(msgs) BY <1>5, <1>10, Idle
  <2>2. Sound(base, said) /\ Last(base) = user BY <1>2, <1>4, <2>1, SoundAppend
  <2>3. Settled(base) BY <1>4, <1>7, <2>2, SoundSettled
  <2> QED BY <2>2, <2>3
<1> HIDE DEF base
<1> QED BY <1>5, <1>7, <1>9, <1>10, NewRequest DEF load, g

\* createRegeneratedMessages.
LEMMA RegenerateKeeps ==
    ASSUME ChatInv, NEW s \in BOOLEAN, NEW i \in DOMAIN msgs, Regenerate(i, s)
    PROVE  ChatInv'
<1> DEFINE g == gen + 1
           kept == IF msgs[i].from = "user" THEN i ELSE i - 1
           base == SubSeq(msgs, 1, kept)
<1>1. CTypeOK BY DEF ChatInv
<1>2. msgs \in Seq(Messages) /\ queue \in Seq(Updaters) /\ i \in 1 .. Len(msgs) /\ Len(msgs) \in Nat
  BY <1>1 DEF CTypeOK
<1>3. ~busy /\ SendChat(s) /\ clobbered' = clobbered /\ Show(<<SetTo(base \o <<Loading(g)>>)>>, g) BY DEF Regenerate
<1>4. Ordered(kept, Len(msgs)) BY <1>2 DEF Ordered
<1> HIDE DEF kept, g
<1>5. base \in Seq(Messages) /\ Len(base) = kept /\ \A j \in 1 .. kept : base[j] = msgs[j] BY <1>2, <1>4, FirstPieces
<1>6. Shown(base \o <<Loading(g)>>) BY <1>2, <1>3, ShowSet
<1>7. ASSUME ~clobbered PROVE Sound(base, said) /\ Settled(base)
  <2>1. Sound(msgs, said) /\ Settled(msgs) BY <1>3, <1>7, Idle
  <2>2. \A j \in 1 .. Len(base) : \E l \in 1 .. Len(msgs) : base[j] = msgs[l] BY <1>4, <1>5 DEF Ordered
  <2> HIDE DEF base
  <2> QED BY <1>2, <1>5, <2>1, <2>2, SoundSelection
<1> HIDE DEF base
<1> QED BY <1>3, <1>5, <1>6, <1>7, NewRequest DEF g

\* applyEdit with "save and submit".
LEMMA EditSubmitKeeps ==
    ASSUME ChatInv, NEW s \in BOOLEAN, NEW i \in DOMAIN msgs, EditSubmit(i, s)
    PROVE  ChatInv'
<1> DEFINE g == gen + 1
           base == SubSeq(msgs, 1, i)
<1>1. CTypeOK BY DEF ChatInv
<1>2. msgs \in Seq(Messages) /\ queue \in Seq(Updaters) /\ i \in 1 .. Len(msgs) /\ Len(msgs) \in Nat
  BY <1>1 DEF CTypeOK
<1>3. /\ msgs[i].from = "user" /\ SendChat(s) /\ clobbered' = clobbered
      /\ Show(<<SetTo(base \o <<Loading(g)>>)>>, g)
  BY DEF EditSubmit
<1>4. Ordered(i, Len(msgs)) BY <1>2 DEF Ordered
<1> HIDE DEF g
<1>5. base \in Seq(Messages) /\ Len(base) = i /\ \A j \in 1 .. i : base[j] = msgs[j] BY <1>2, <1>4, FirstPieces
<1>6. Shown(base \o <<Loading(g)>>) BY <1>2, <1>3, ShowSet
<1> HIDE DEF base
<1>7. ASSUME ~clobbered PROVE Sound(base, said) /\ Settled(base)
  <2>1. Sound(msgs, said) BY <1>7 DEF ChatInv, TextInv
  <2>2. \A j \in 1 .. Len(msgs) : OwnText(msgs[j], said) /\ (IsPending(msgs[j]) => j = Len(msgs))
    BY <1>2, <2>1, SoundMeans
  <2>3. ASSUME NEW j \in 1 .. Len(base) PROVE OwnText(base[j], said) /\ ~IsPending(base[j])
    <3>1. j \in 1 .. Len(msgs) /\ base[j] = msgs[j] BY <1>2, <1>5
    <3>2. CASE j = i BY <1>3, <2>2, <3>1, <3>2 DEF IsPending
    <3>3. CASE j # i
      <4>1. j # Len(msgs) BY <1>2, <1>5, <3>3
      <4> QED BY <2>2, <3>1, <4>1
    <3> QED BY <3>2, <3>3
  <2>4. Sound(base, said) BY <1>5, <2>3, SoundMeans
  <2> QED BY <2>3, <2>4 DEF Settled
<1> QED BY <1>3, <1>5, <1>6, <1>7, NewRequest DEF g

\* A click on an idle page that changes only the conversation.
LEMMA IdleShown ==
    ASSUME ChatInv, ~busy, NEW x \in Seq(Messages), Shown(x), ~clobbered => Sound(x, said) /\ Settled(x),
           UNCHANGED <<gen, calls, stream, busy, history>>
    PROVE  ChatInv'
<1>1. CTypeOK /\ CallsInv /\ (~clobbered => TextInv) BY DEF ChatInv
<1>2. /\ gen' = gen /\ calls' = calls /\ pend' = pend /\ timer' = timer /\ ctl' = ctl
      /\ requesting' = requesting /\ streaming' = streaming /\ busy' = busy
      /\ said' = said /\ clobbered' = clobbered
  BY DEF stream, history
<1>3. /\ msgs' = x /\ latest' = x /\ Now' = x /\ Later' = x
      /\ queue' = <<>> /\ saveTimer' = TRUE /\ stored' = stored
  BY DEF Shown
<1>4. ~requesting BY Idle
<1>5. CTypeOK' BY <1>1, <1>2, <1>3 DEF CTypeOK
<1>6. CallsInv' BY <1>1, <1>2, <1>3 DEF CallsInv
<1>7. ASSUME ~clobbered' PROVE TextInv'
  <2>1. Sound(stored, said) BY <1>1, <1>2, <1>7 DEF TextInv
  <2>2. Sound(x, said) /\ \A i \in DOMAIN x : ~IsPending(x[i]) BY <1>2, <1>7, SettledMeans
  <2> QED BY <1>2, <1>3, <1>4, <2>1, <2>2 DEF TextInv
<1> QED BY <1>3, <1>5, <1>6, <1>7 DEF ChatInv

\* handleDeleteMessage.
LEMMA DeleteKeeps ==
    ASSUME ChatInv, NEW i \in DOMAIN msgs, Delete(i)
    PROVE  ChatInv'
<1> DEFINE u == [kind |-> "remove", m |-> msgs[i]]
           x == RemoveByKey(msgs, msgs[i])
<1>1. /\ ~busy /\ Show(<<u>>, gen) /\ UNCHANGED <<gen, calls, stream, busy, history>> BY DEF Delete
<1>2. msgs \in Seq(Messages) /\ queue \in Seq(Updaters) BY DEF ChatInv, CTypeOK
<1>3. Run(u, Now, gen) = RemoveByKey(Now, msgs[i]) BY DEF Run
<1>4. /\ x \in Seq(Messages) /\ \A j \in 1 .. Len(x) : \E l \in 1 .. Len(msgs) : x[j] = msgs[l]
  BY <1>2, RemoveByKeyFacts
<1> HIDE DEF u
<1>5. Shown(Run(u, Now, gen)) BY <1>1, <1>2, ShowOne DEF Now
<1>6. Now = msgs /\ (~clobbered => Sound(msgs, said) /\ Settled(msgs)) BY <1>1, Idle
<1>7. Shown(x) BY <1>3, <1>5, <1>6
<1> HIDE DEF x
<1>8. ~clobbered => Sound(x, said) /\ Settled(x) BY <1>2, <1>4, <1>6, SoundSelection
<1> QED BY <1>1, <1>4, <1>7, <1>8, IdleShown

\* handleClearMessages.
LEMMA ClearKeeps ==
    ASSUME ChatInv, Clear
    PROVE  ChatInv'
<1>1. /\ ~busy /\ Show(<<SetTo(<<>>)>>, gen) /\ UNCHANGED <<gen, calls, stream, busy, history>> BY DEF Clear
<1>2. queue \in Seq(Updaters) BY DEF ChatInv, CTypeOK
<1>3. PICK x : x = <<>> OBVIOUS
<1>4. x \in Seq(Messages) /\ Len(x) = 0 BY <1>3
<1>5. Shown(x) BY <1>1, <1>2, <1>3, ShowSet
<1>6. Settled(x) BY <1>4 DEF Settled
<1>7. Sound(x, said)
  <2>1. DOMAIN x = {} BY <1>3
  <2> QED BY <2>1 DEF Sound
<1> QED BY <1>1, <1>4, <1>5, <1>6, <1>7, IdleShown

\* applyEdit with "save".
LEMMA EditSaveKeeps ==
    ASSUME ChatInv, NEW i \in DOMAIN msgs, EditSave(i)
    PROVE  ChatInv'
<1>1. CTypeOK /\ CallsInv BY DEF ChatInv
<1>2. /\ Show(<<SetTo(msgs)>>, gen) /\ clobbered' = TRUE /\ busy' = (requesting \/ streaming)
      /\ gen' = gen /\ calls' = calls /\ pend' = pend /\ timer' = timer /\ ctl' = ctl
      /\ requesting' = requesting /\ streaming' = streaming /\ said' = said
  BY DEF EditSave, stream
<1>3. queue \in Seq(Updaters) /\ msgs \in Seq(Messages) BY <1>1 DEF CTypeOK
<1>4. Shown(msgs) BY <1>2, <1>3, ShowSet
<1>5. /\ msgs' = msgs /\ latest' = msgs /\ Now' = msgs /\ Later' = msgs
      /\ queue' = <<>> /\ saveTimer' = TRUE /\ stored' = stored
  BY <1>4 DEF Shown
<1>6. CTypeOK' BY <1>1, <1>2, <1>5 DEF CTypeOK
<1>7. CallsInv' BY <1>1, <1>2, <1>5 DEF CallsInv
<1> QED BY <1>2, <1>3, <1>5, <1>6, <1>7 DEF ChatInv

\* A new generation without a request.
LEMMA NewGeneration ==
    ASSUME ChatInv, gen < MaxGen, gen' = gen + 1, pend' = NoChunks(gen + 1), timer' = FALSE, ctl' = 0,
           requesting' = FALSE, streaming' = FALSE, busy' = FALSE, calls' \subseteq calls,
           UNCHANGED history, NEW x \in Seq(Messages), msgs' = x, latest' = x, queue' = <<>>,
           Now' = x, Later' = x, stored' \in {stored, x}, saveTimer' \in BOOLEAN,
           ~clobbered => Sound(x, said) /\ Settled(x)
    PROVE  ChatInv'
<1>1. CTypeOK /\ CallsInv /\ (~clobbered => TextInv) BY DEF ChatInv
<1>2. said' = said /\ clobbered' = clobbered BY DEF history
<1>3. gen \in Nat /\ gen' \in 0 .. MaxGen /\ gen' > gen BY <1>1, ChatConstants DEF CTypeOK
<1>4. pend'.txt = <<>> /\ pend' \in [g : {gen'}, txt : Texts]
  <2>1. <<>> \in Texts BY DEF Texts
  <2> QED BY <2>1 DEF NoChunks
<1>5. CTypeOK'
  <2>1. stored' \in Seq(Messages) /\ queue' \in Seq(Updaters) BY <1>1 DEF CTypeOK
  <2>2. calls' \subseteq [g : Gens, at : {"headers", "open", "json"}] BY <1>1 DEF CTypeOK
  <2>3. {requesting', streaming', busy', saveTimer', clobbered'} \subseteq BOOLEAN BY <1>1, <1>2 DEF CTypeOK
  <2>4. said' \in [Gens -> Texts] BY <1>1, <1>2 DEF CTypeOK
  <2> QED BY <1>3, <1>4, <2>1, <2>2, <2>3, <2>4 DEF CTypeOK
<1>6. CallsInv'
  <2>1. ASSUME NEW h \in Gens PROVE said'[h] = Part(h, 0, Len(said'[h])) /\ (h > gen' => said'[h] = <<>>)
    <3>1. h > gen' => h > gen BY <1>3 DEF Gens
    <3> QED BY <1>1, <1>2, <3>1 DEF CallsInv
  <2>2. ASSUME NEW c \in calls' PROVE c.g <= gen' /\ c.g # gen'
    <3>1. c.g <= gen /\ c.g \in Nat BY <1>1 DEF CallsInv, CTypeOK, Gens
    <3> QED BY <1>3, <3>1
  <2>3. \A c, d \in calls' : c.g = d.g => c = d BY <1>1 DEF CallsInv
  <2> QED BY <1>4, <2>1, <2>2, <2>3 DEF CallsInv
<1>7. ASSUME ~clobbered' PROVE TextInv'
  <2>1. Sound(stored, said) BY <1>1, <1>2, <1>7 DEF TextInv
  <2>2. Sound(x, said) /\ \A i \in DOMAIN x : ~IsPending(x[i]) BY <1>2, <1>7, SettledMeans
  <2> QED BY <1>2, <2>1, <2>2 DEF TextInv
<1> QED BY <1>5, <1>6, <1>7 DEF ChatInv

\* What flushStreamUpdates queues in the current generation.
LEMMA FlushFacts ==
    ASSUME CTypeOK
    PROVE  Flush(gen) = IF pend.txt = <<>> THEN <<>> ELSE <<Chunks>>
BY DEF CTypeOK, Flush, Stale, Chunks

\* A stopped answer has ended.
LEMMA StopFacts ==
    ASSUME NEW g \in Gens, NEW ms \in Seq(Messages), NEW heard
    PROVE  LET ns == Run(ForGen("stop", g), ms, g) IN
           ns \in Seq(Messages) /\ (Sound(ms, heard) => Sound(ns, heard) /\ Settled(ns))
<1> DEFINE u == ForGen("stop", g)
           ns == Run(u, ms, g)
           m == Last(ms)
<1>1. u \in Answering /\ u.g = g /\ u.kind = "stop" BY UpdaterTypes DEF ForGen
<1> HIDE DEF u
<1>2. ns = UpdateLast(u, ms) BY <1>1, RunFacts
<1>3. ns \in Seq(Messages) /\ Len(ns) = Len(ms) /\ \A i \in 1 .. Len(ms) : i # Len(ms) => ns[i] = ms[i]
  BY <1>1, <1>2, UpdateLastFacts
<1>4. ASSUME Sound(ms, heard) PROVE Sound(ns, heard) /\ Settled(ns)
  <2>1. CASE ms # <<>> /\ m.from = "assistant"
    <3>1. Last(ns) = Updated(u, m) BY <1>1, <1>2, <2>1, UpdateLastFacts
    <3>2. m \in Messages BY <2>1 DEF Last
    <3>3. OwnText(m, heard) BY <1>4, <2>1, SoundMeans DEF Last
    <3>4. Updated(u, m) = IF IsPending(m) THEN [m EXCEPT !.st = "complete"] ELSE m BY <1>1 DEF Updated, Completed
    <3> HIDE DEF ns, m
    <3>5. ~IsPending(Last(ns)) /\ OwnText(Last(ns), heard)
      <4>1. CASE ~IsPending(m) BY <3>1, <3>3, <3>4, <4>1
      <4>2. CASE IsPending(m)
        <5>1. /\ Last(ns).st = "complete" /\ Last(ns).from = m.from /\ Last(ns).g = m.g
              /\ Last(ns).txt = m.txt /\ Last(ns).cut = m.cut
          BY <3>1, <3>2, <3>4, <4>2 DEF Messages
        <5>2. OwnText(Last(ns), heard) BY <3>3, <5>1, OwnSame
        <5> QED BY <5>1, <5>2 DEF IsPending
      <4> QED BY <4>1, <4>2
    <3>6. Sound(ns, heard) BY <1>3, <1>4, <2>1, <3>5, SoundUpdate
    <3>7. Settled(ns) BY <1>3, <3>5, <3>6, SoundSettled
    <3> QED BY <3>6, <3>7
  <2>2. CASE ~(ms # <<>> /\ m.from = "assistant")
    <3>1. ns = ms BY <1>1, <1>2, <2>2, UpdateLastFacts
    <3>2. ms # <<>> => ~IsPending(Last(ms)) BY <2>2 DEF IsPending
    <3>3. Settled(ms) BY <1>4, <3>2, SoundSettled
    <3> QED BY <1>4, <3>1, <3>3
  <2> QED BY <2>1, <2>2
<1> QED BY <1>3, <1>4 DEF u

\* stopGeneration.
LEMMA StopKeeps ==
    ASSUME ChatInv, Stop
    PROVE  ChatInv'
<1> DEFINE g == gen + 1
           stop == ForGen("stop", g)
<1>1. CTypeOK /\ CallsInv /\ Now \in Seq(Messages) /\ Later \in Seq(Messages) /\ (~clobbered => TextInv) BY DEF ChatInv
<1>2. /\ gen < MaxGen /\ gen' = g /\ pend' = NoChunks(g) /\ timer' = FALSE
      /\ ctl' = 0 /\ streaming' = FALSE /\ requesting' = FALSE /\ busy' = FALSE
      /\ calls' \subseteq calls /\ UNCHANGED history
      /\ \/ Show(Flush(gen) \o <<stop>>, g)
         \/ queue = <<>> /\ Flush(gen) # <<>> /\ Show(<<SetTo(RunAll(Flush(gen), msgs, gen)), stop>>, g)
  BY DEF Stop
<1>3. g \in Gens /\ gen # g BY <1>1, <1>2, ChatConstants DEF CTypeOK, Gens
<1>4. queue \in Seq(Updaters) BY <1>1 DEF CTypeOK
<1>5. Later = RunAll(queue, msgs, g) BY DEF Later
<1>6. stop \in Answering BY <1>3, UpdaterTypes
<1>7. pend.txt # <<>> => requesting /\ Chunks \in Answering /\ Chunks.g = gen BY <1>1, ChunksType
<1>8. Flown \in Seq(Messages) BY <1>1, ChunksType
<1> HIDE DEF g, stop
<1>9. Shown(Run(stop, Later, g)) \/ (pend.txt # <<>> /\ Shown(Run(stop, Flown, g)))
  <2>1. CASE Show(Flush(gen) \o <<stop>>, g)
    <3>1. CASE pend.txt = <<>>
      <4>1. Flush(gen) = <<>> BY <1>1, <3>1, FlushFacts
      <4>2. <<>> \o <<stop>> = <<stop>>
        <5>1. <<stop>> \in Seq({stop}) OBVIOUS
        <5> QED BY <5>1, ConcatEmptySeq
      <4>3. Show(<<stop>>, g) BY <2>1, <4>1, <4>2
      <4> QED BY <1>4, <1>5, <4>3, ShowOne
    <3>2. CASE pend.txt # <<>>
      <4>1. Flush(gen) = <<Chunks>> BY <1>1, <3>2, FlushFacts
      <4>2. <<Chunks>> \o <<stop>> = <<Chunks, stop>>
        <5>1. <<stop>> \in Seq(Answering) BY <1>6
        <5> QED BY <1>6, <1>7, <3>2, <5>1, ConcatPair
      <4>3. Show(<<Chunks, stop>>, g) BY <2>1, <4>1, <4>2
      <4>4. Shown(Run(stop, Run(Chunks, Later, g), g)) BY <1>4, <1>5, <4>3, ShowTwo
      <4>5. Run(Chunks, Later, g) = Later BY <1>3, <1>7, <3>2, RunFacts
      <4> QED BY <4>4, <4>5
    <3> QED BY <3>1, <3>2
  <2>2. CASE queue = <<>> /\ Flush(gen) # <<>> /\ Show(<<SetTo(RunAll(Flush(gen), msgs, gen)), stop>>, g)
    <3>1. pend.txt # <<>> /\ Flush(gen) = <<Chunks>> BY <1>1, <2>2, FlushFacts
    <3>2. RunAll(<<Chunks>>, msgs, gen) = Run(Chunks, msgs, gen) BY RunAllAlone
    <3>3. Now = msgs BY <2>2, NothingQueued
    <3>4. RunAll(Flush(gen), msgs, gen) = Flown BY <3>1, <3>2, <3>3 DEF Flown
    <3>5. Show(<<SetTo(Flown), stop>>, g) BY <2>2, <3>4
    <3>6. Shown(Run(stop, Run(SetTo(Flown), RunAll(queue, msgs, g), g), g)) BY <1>4, <3>5, ShowTwo
    <3>7. Run(SetTo(Flown), RunAll(queue, msgs, g), g) = Flown BY RunFacts
    <3> QED BY <3>1, <3>6, <3>7
  <2> QED BY <1>2, <2>1, <2>2
<1>10. PICK x : Shown(x) /\ x \in Seq(Messages) /\ (~clobbered => Sound(x, said) /\ Settled(x))
  <2>1. CASE Shown(Run(stop, Later, g))
    <3> DEFINE x == Run(stop, Later, g)
    <3>1. x \in Seq(Messages) /\ (Sound(Later, said) => Sound(x, said) /\ Settled(x)) BY <1>1, <1>3, StopFacts DEF stop
    <3>2. ~clobbered => Sound(Later, said) BY <1>1 DEF TextInv
    <3> HIDE DEF x
    <3> QED BY <2>1, <3>1, <3>2 DEF x
  <2>2. CASE pend.txt # <<>> /\ Shown(Run(stop, Flown, g))
    <3> DEFINE x == Run(stop, Flown, g)
    <3>1. x \in Seq(Messages) /\ (Sound(Flown, said) => Sound(x, said) /\ Settled(x)) BY <1>3, <1>8, StopFacts DEF stop
    <3>2. ~clobbered => Sound(Flown, said) BY <1>1, <1>7, <2>2, FlownWhole
    <3> HIDE DEF x
    <3> QED BY <2>2, <3>1, <3>2 DEF x
  <2> QED BY <1>9, <2>1, <2>2
<1>11. /\ msgs' = x /\ latest' = x /\ Now' = x /\ Later' = x
       /\ queue' = <<>> /\ saveTimer' \in BOOLEAN /\ stored' \in {stored, x}
  BY <1>10 DEF Shown
<1> QED BY <1>2, <1>10, <1>11, NewGeneration DEF g

\* Nothing is left pending by a page load.
LEMMA LoadedFacts ==
    ASSUME NEW ms \in Seq(Messages), NEW heard \in [Gens -> Texts]
    PROVE  /\ Loaded(ms) \in Seq(Messages)
           /\ Sound(ms, heard) => Sound(Loaded(ms), heard) /\ Settled(Loaded(ms))
<1> DEFINE normal == [i \in DOMAIN ms |-> IF IsPending(ms[i]) /\ ms[i].txt # <<>> THEN Completed(ms[i]) ELSE ms[i]]
           stuck == {i \in DOMAIN ms : IsPending(normal[i])}
           Fixed(i) == IF i \in stuck /\ \A j \in stuck : j <= i THEN Failed(normal[i]) ELSE normal[i]
           ns == Loaded(ms)
<1>1. Len(ms) \in Nat /\ DOMAIN ms = 1 .. Len(ms) /\ \A i \in 1 .. Len(ms) : ms[i] \in Messages OBVIOUS
<1>2. ns = [i \in 1 .. Len(ms) |-> Fixed(i)] BY <1>1 DEF Loaded
<1>3. <<>> \in Texts BY DEF Texts
<1>4. ASSUME NEW i \in 1 .. Len(ms)
      PROVE  /\ normal[i] \in Messages /\ normal[i].from = ms[i].from /\ normal[i].g = ms[i].g
             /\ normal[i].txt = ms[i].txt /\ normal[i].cut = ms[i].cut
             /\ (IsPending(normal[i]) => IsPending(ms[i]))
  <2>1. PICK m \in Messages : m = ms[i] BY <1>1
  <2>2. normal[i] = IF IsPending(m) /\ m.txt # <<>> THEN [m EXCEPT !.st = "complete"] ELSE m
    BY <1>1, <2>1 DEF Completed
  <2> HIDE DEF normal
  <2> QED BY <2>1, <2>2 DEF Messages, Statuses, IsPending
<1>5. ASSUME NEW m \in Messages
      PROVE  /\ Failed(m) \in Messages /\ Failed(m).from = m.from /\ Failed(m).g = m.g
             /\ Failed(m).txt = <<>> /\ ~IsPending(Failed(m))
  BY <1>3 DEF Failed, Messages, Statuses, IsPending
<1> HIDE DEF normal
<1>6. \A i \in 1 .. Len(ms) : Fixed(i) \in Messages BY <1>4, <1>5
<1>7. ns \in Seq(Messages) /\ Len(ns) = Len(ms) /\ \A i \in 1 .. Len(ms) : ns[i] = Fixed(i)
  <2> HIDE DEF Fixed
  <2>1. ns \in Seq(Messages) BY <1>1, <1>2, <1>6, IsASeq
  <2> HIDE DEF ns
  <2>2. Len(ns) = Len(ms) BY <1>1, <1>2, <2>1
  <2> QED BY <1>2, <2>1, <2>2
<1> HIDE DEF ns
<1>8. ASSUME Sound(ms, heard) PROVE Sound(ns, heard) /\ Settled(ns)
  <2>1. \A i \in 1 .. Len(ms) : OwnText(ms[i], heard) /\ (IsPending(ms[i]) => i = Len(ms)) BY <1>8, SoundMeans
  <2>2. ASSUME NEW i \in 1 .. Len(ms) PROVE OwnText(ns[i], heard) /\ ~IsPending(ns[i])
    <3>1. OwnText(normal[i], heard) BY <1>4, <2>1, OwnSame
    <3>2. CASE i \in stuck
      <4>1. \A j \in stuck : j \in 1 .. Len(ms) /\ j = Len(ms) BY <1>1, <1>4, <2>1
      <4>2. \A j \in stuck : j <= i BY <1>1, <3>2, <4>1
      <4>3. ns[i] = Failed(normal[i]) BY <1>7, <3>2, <4>2
      <4>4. PICK m \in Messages : m = normal[i] BY <1>4
      <4>5. OwnText(Failed(m), heard)
        <5>1. m.g \in Gens BY DEF Messages
        <5>2. Len(heard[m.g]) \in Nat BY <5>1 DEF Texts
        <5> QED BY <1>5, <5>2, OwnEmpty
      <4> QED BY <1>5, <4>3, <4>4, <4>5
    <3>3. CASE i \notin stuck
      <4>1. ns[i] = normal[i] BY <1>7, <3>3
      <4>2. ~IsPending(normal[i]) BY <1>1, <3>3
      <4> QED BY <3>1, <4>1, <4>2
    <3> QED BY <3>2, <3>3
  <2>3. Sound(ns, heard) BY <1>7, <2>2, SoundMeans
  <2> QED BY <1>7, <2>2, <2>3 DEF Settled
<1> QED BY <1>7, <1>8 DEF ns

\* What a load leaves of a message is its request's own.
LEMMA ClippedFacts ==
    ASSUME NEW m \in Messages, NEW c \in Clipped(m), NEW heard \in [Gens -> Texts]
    PROVE  /\ c \in Messages /\ (IsPending(c) <=> IsPending(m))
           /\ OwnText(m, heard) => OwnText(c, heard)
<1>1. PICK t \in Excerpts(m.txt) : c = [m EXCEPT !.txt = t, !.cut = m.cut \/ t # m.txt] BY DEF Clipped
<1>2. m.g \in Gens /\ m.txt \in Texts /\ m.cut \in BOOLEAN /\ <<>> \in Texts BY DEF Messages, Texts
<1>3. Len(heard[m.g]) \in Nat BY <1>2 DEF Texts
<1>4. t = m.txt \/ \E x, y \in DOMAIN m.txt : x <= y /\ t = SubSeq(m.txt, x, y)
  <2>1. CASE m.txt = <<>> BY <2>1 DEF Excerpts
  <2>2. CASE m.txt # <<>>
    <3>1. PICK x, y \in DOMAIN m.txt : t = SubSeq(m.txt, x, y) /\ t # <<>> BY <2>2 DEF Excerpts
    <3>2. m.txt \in Seq(Pieces) /\ DOMAIN m.txt = 1 .. Len(m.txt) BY <1>2 DEF Texts, Pieces
    <3>3. x \in Int /\ y \in Int /\ \A i \in x .. y : m.txt[i] \in Pieces BY <3>2
    <3>4. t \in Seq(Pieces) /\ Len(t) = (IF x <= y THEN y - x + 1 ELSE 0) BY <3>1, <3>2, <3>3, SubSeqProperties
    <3>5. x <= y BY <3>1, <3>4
    <3> QED BY <3>1, <3>5
  <2> QED BY <2>1, <2>2
<1>5. t \in Texts /\ (OwnText(m, heard) /\ t # m.txt /\ m.from = "assistant" =>
          /\ InOrder(t, m.g, 0, Len(heard[m.g]))
          /\ Exact(m.g) => \E a \in 0 .. Len(heard[m.g]) : \E b \in a .. Len(heard[m.g]) : t = Part(m.g, a, b))
  <2>1. CASE t = m.txt BY <1>2, <2>1
  <2>2. CASE t # m.txt
    <3> DEFINE n == Len(heard[m.g])
    <3>1. PICK x, y \in DOMAIN m.txt : x <= y /\ t = SubSeq(m.txt, x, y) BY <1>4, <2>2
    <3>2. m.txt \in Seq(Pieces) /\ DOMAIN m.txt = 1 .. Len(m.txt) /\ Len(m.txt) \in Nat BY <1>2 DEF Texts, Pieces
    <3>3. x \in Nat /\ y \in Nat /\ 1 <= x /\ y <= Len(m.txt) /\ x <= y + 1 BY <3>1, <3>2
    <3>4. t \in Seq(Pieces) /\ Len(t) = y + 1 - x /\ \A i \in 1 .. y + 1 - x : t[i] = m.txt[x + i - 1]
      BY <3>1, <3>2, <3>3, Stretch
    <3>5. SUFFICES ASSUME OwnText(m, heard), m.from = "assistant"
                   PROVE  /\ InOrder(t, m.g, 0, n)
                          /\ Exact(m.g) => \E a \in 0 .. n : \E b \in a .. n : t = Part(m.g, a, b)
      BY <3>4 DEF Texts, Pieces
    <3>6. InOrder(m.txt, m.g, 0, n) BY <3>5 DEF OwnText
    <3>7. InOrder(t, m.g, 0, n) BY <1>2, <3>1, <3>3, <3>6, InOrderStretch
    <3>8. ASSUME Exact(m.g) PROVE \E a \in 0 .. n : \E b \in a .. n : t = Part(m.g, a, b)
      <4>1. PICK a \in 0 .. n : \E b \in a .. n : m.txt = Part(m.g, a, b) BY <3>5, <3>8 DEF OwnText
      <4>2. PICK b \in a .. n : m.txt = Part(m.g, a, b) BY <4>1
      <4> HIDE DEF n
      <4>3. n \in Nat BY <1>3 DEF n
      <4>4. a \in Nat /\ b \in Nat /\ a <= b /\ b <= n /\ Ordered(a, b) BY <4>3 DEF Ordered
      <4>5. IsPart(m.txt, m.g, a, b) BY <1>2, <4>2, <4>4, PartIsPart
      <4>6. Len(m.txt) = b - a /\ \A i \in 1 .. b - a : m.txt[i] = <<m.g, a + i>> BY <4>5 DEF IsPart
      <4>7. PICK d, e : d = a + x - 1 /\ e = a + y OBVIOUS
      <4>8. /\ d \in Nat /\ e \in Nat /\ d <= e /\ e <= n /\ e - d = y + 1 - x
            /\ d \in 0 .. n /\ e \in d .. n /\ Ordered(d, e)
        <5>1. x <= y /\ x \in Nat /\ y \in Nat /\ 1 <= x /\ y <= b - a BY <3>1, <3>3, <4>6
        <5>2. a \in Nat /\ b \in Nat /\ b <= n /\ n \in Nat BY <4>3, <4>4
        <5>3. d \in Nat /\ e \in Nat /\ d <= e /\ e <= n /\ e - d = y + 1 - x BY <4>7, <5>1, <5>2
        <5> HIDE DEF n
        <5> QED BY <5>2, <5>3 DEF Ordered
      <4>9. ASSUME NEW i \in 1 .. y + 1 - x PROVE t[i] = <<m.g, d + i>>
        <5>1. PICK j : j = x + i - 1 OBVIOUS
        <5>2. j \in 1 .. b - a /\ a + j = d + i
          <6>1. x \in Nat /\ y \in Nat /\ 1 <= x /\ y <= b - a BY <3>3, <4>6
          <6>2. a \in Nat /\ b \in Nat BY <4>4
          <6> QED BY <4>7, <5>1, <6>1, <6>2
        <5>3. t[i] = m.txt[j] BY <3>4, <5>1
        <5>4. m.txt[j] = <<m.g, a + j>> BY <4>6, <5>2
        <5> QED BY <5>2, <5>3, <5>4
      <4>10. IsPart(t, m.g, d, e) BY <1>2, <3>4, <4>8, <4>9 DEF IsPart
      <4>11. IsPart(Part(m.g, d, e), m.g, d, e) BY <1>2, <4>8, PartIsPart
      <4>12. t = Part(m.g, d, e) BY <4>10, <4>11, PartUnique
      <4> QED BY <4>8, <4>12
    <3> QED BY <3>7, <3>8
  <2> QED BY <2>1, <2>2
<1>6. /\ c.from = m.from /\ c.g = m.g /\ c.st = m.st /\ c.txt = t /\ c.cut = (m.cut \/ t # m.txt)
      /\ c \in Messages
  BY <1>1, <1>2, <1>5 DEF Messages
<1>7. IsPending(c) <=> IsPending(m) BY <1>6 DEF IsPending
<1>8. ASSUME OwnText(m, heard) PROVE OwnText(c, heard)
  <2>1. CASE t = m.txt
    <3>1. c.cut = m.cut BY <1>2, <1>6, <2>1
    <3> QED BY <1>6, <1>8, <2>1, <3>1, OwnSame
  <2>2. CASE t # m.txt
    <3>1. c.cut BY <1>6, <2>2
    <3> QED BY <1>5, <1>6, <1>8, <2>2, <3>1 DEF OwnText
  <2> QED BY <2>1, <2>2
<1> QED BY <1>6, <1>7, <1>8

\* What a load leaves of a conversation is sound.
LEMMA EndingFacts ==
    ASSUME NEW ms \in Seq(Messages), NEW rest \in Endings(ms), NEW heard
    PROVE  rest \in Seq(Messages) /\ (Sound(ms, heard) => Sound(rest, heard))
<1>1. PICK k \in 1 .. Len(ms) + 1 : rest = SubSeq(ms, k, Len(ms)) BY DEF Endings
<1>2. Len(ms) \in Nat /\ k \in Nat /\ 1 <= k /\ k <= Len(ms) + 1 OBVIOUS
<1>3. /\ rest \in Seq(Messages) /\ Len(rest) = Len(ms) + 1 - k
      /\ \A i \in 1 .. Len(ms) + 1 - k : rest[i] = ms[k + i - 1]
  BY <1>1, <1>2, Stretch
<1>4. ASSUME Sound(ms, heard) PROVE Sound(rest, heard)
  <2>1. \A i \in 1 .. Len(ms) : OwnText(ms[i], heard) /\ (IsPending(ms[i]) => i = Len(ms)) BY <1>4, SoundMeans
  <2>2. ASSUME NEW i \in 1 .. Len(rest) PROVE OwnText(rest[i], heard) /\ (IsPending(rest[i]) => i = Len(rest))
    <3>1. PICK j : j = k + i - 1 OBVIOUS
    <3>2. j \in 1 .. Len(ms) /\ rest[i] = ms[j] /\ (j = Len(ms) => i = Len(rest)) BY <1>2, <1>3, <3>1
    <3> QED BY <2>1, <3>2
  <2> QED BY <1>3, <2>2, SoundMeans
<1> QED BY <1>3, <1>4

LEMMA ShortenedFacts ==
    ASSUME NEW ms \in Seq(Messages), NEW ns \in Shortened(ms), NEW heard \in [Gens -> Texts]
    PROVE  ns \in Seq(Messages) /\ (Sound(ms, heard) => Sound(ns, heard))
<1>1. Len(ms) \in Nat /\ DOMAIN ms = 1 .. Len(ms) /\ \A i \in 1 .. Len(ms) : ms[i] \in Messages OBVIOUS
<1>2. ns = [i \in 1 .. Len(ms) |-> ns[i]] /\ \A i \in 1 .. Len(ms) : ns[i] \in Clipped(ms[i])
  BY <1>1 DEF Shortened
<1>3. ASSUME NEW i \in 1 .. Len(ms)
      PROVE  /\ ns[i] \in Messages /\ (IsPending(ns[i]) <=> IsPending(ms[i]))
             /\ OwnText(ms[i], heard) => OwnText(ns[i], heard)
  <2>1. PICK m \in Messages : m = ms[i] BY <1>1
  <2>2. PICK c \in Clipped(m) : c = ns[i] BY <1>2, <2>1
  <2>3. c \in Messages /\ (IsPending(c) <=> IsPending(m)) /\ (OwnText(m, heard) => OwnText(c, heard)) BY ClippedFacts
  <2> QED BY <2>1, <2>2, <2>3
<1>4. ns \in Seq(Messages) /\ Len(ns) = Len(ms)
  <2>1. ns \in Seq(Messages) BY <1>1, <1>2, <1>3, IsASeq
  <2>2. DOMAIN ns = 1 .. Len(ms) BY <1>2
  <2>3. DOMAIN ns = 1 .. Len(ns) /\ Len(ns) \in Nat BY <2>1
  <2> QED BY <1>1, <2>1, <2>2, <2>3
<1>5. ASSUME Sound(ms, heard) PROVE Sound(ns, heard)
  <2>1. \A i \in 1 .. Len(ms) : OwnText(ms[i], heard) /\ (IsPending(ms[i]) => i = Len(ms)) BY <1>5, SoundMeans
  <2>2. \A i \in 1 .. Len(ns) : OwnText(ns[i], heard) /\ (IsPending(ns[i]) => i = Len(ns)) BY <1>3, <1>4, <2>1
  <2> QED BY <1>4, <2>2, SoundMeans
<1> QED BY <1>4, <1>5

\* The page goes and is opened again.
LEMMA ReopenKeeps ==
    ASSUME ChatInv, NEW u \in BOOLEAN, Reopen(u)
    PROVE  ChatInv'
<1> DEFINE kept == IF u /\ saveTimer THEN latest ELSE stored
<1>1. CTypeOK /\ (~clobbered => TextInv) BY DEF ChatInv
<1>2. /\ gen < MaxGen /\ gen' = gen + 1 /\ pend' = NoChunks(gen + 1) /\ timer' = FALSE
      /\ ctl' = 0 /\ streaming' = FALSE /\ requesting' = FALSE /\ busy' = FALSE
      /\ calls' \subseteq calls /\ UNCHANGED history
      /\ \E rest \in Endings(kept) : \E short \in Shortened(rest) : msgs' = Loaded(short)
      /\ latest' = msgs' /\ queue' = <<>> /\ stored' = msgs' /\ saveTimer' \in BOOLEAN
  BY DEF Reopen
<1>3. kept \in Seq(Messages) /\ said \in [Gens -> Texts] BY <1>1 DEF CTypeOK
<1>4. ~clobbered => Sound(kept, said) BY <1>1 DEF TextInv
<1> HIDE DEF kept
<1>5. PICK rest \in Endings(kept) : \E short \in Shortened(rest) : msgs' = Loaded(short) BY <1>2
<1>6. PICK short \in Shortened(rest) : msgs' = Loaded(short) BY <1>5
<1>7. rest \in Seq(Messages) /\ (Sound(kept, said) => Sound(rest, said)) BY <1>3, EndingFacts
<1>8. short \in Seq(Messages) /\ (Sound(rest, said) => Sound(short, said)) BY <1>3, <1>7, ShortenedFacts
<1>9. PICK x : x = Loaded(short) OBVIOUS
<1>10. x \in Seq(Messages) /\ (Sound(short, said) => Sound(x, said) /\ Settled(x)) BY <1>3, <1>8, <1>9, LoadedFacts
<1>11. msgs' = x /\ latest' = x /\ stored' \in {stored, x} BY <1>2, <1>6, <1>9
<1>12. Now' = x /\ Later' = x BY <1>2, <1>11, RunAllEmpty DEF Now, Later
<1>13. ~clobbered => Sound(x, said) /\ Settled(x) BY <1>4, <1>7, <1>8, <1>10
<1> QED BY <1>2, <1>10, <1>11, <1>12, <1>13, NewGeneration

--------------------------------------------------------------------------------
(* Renders, timers and the network. *)

\* Steps that leave the conversation and what is pending alone.
LEMMA Untouched ==
    ASSUME ChatInv, CTypeOK', CallsInv', stored' \in {stored, latest},
           UNCHANGED <<msgs, queue, gen, pend, requesting, latest, said, clobbered>>
    PROVE  ChatInv'
<1>1. Now' = Now /\ Later' = Later BY DEF Now, Later
<1>2. ASSUME ~clobbered' PROVE TextInv'
  <2>1. TextInv BY <1>2 DEF ChatInv
  <2>2. \A ms \in {msgs', latest', stored', Now', Later'} : Sound(ms, said') BY <1>1, <2>1 DEF TextInv
  <2>3. CASE requesting
    <3>1. Now # <<>> /\ Continues(Last(Now)) BY <2>1, <2>3 DEF TextInv
    <3>2. Continues(Last(Now))' BY <1>1, <3>1 DEF Continues
    <3> QED BY <1>1, <2>2, <2>3, <3>1, <3>2 DEF TextInv
  <2>4. CASE ~requesting
    <3>1. \A i \in DOMAIN Now : ~IsPending(Now[i]) BY <2>1, <2>4 DEF TextInv
    <3> QED BY <1>1, <2>2, <2>4, <3>1 DEF TextInv
  <2> QED BY <2>3, <2>4
<1> QED BY <1>1, <1>2 DEF ChatInv

LEMMA SaveTimerKeeps ==
    ASSUME ChatInv, SaveTimer
    PROVE  ChatInv'
<1>1. /\ stored' \in {latest, stored} /\ saveTimer' = FALSE
      /\ msgs' = msgs /\ queue' = queue /\ gen' = gen /\ calls' = calls /\ busy' = busy /\ latest' = latest
      /\ pend' = pend /\ timer' = timer /\ ctl' = ctl /\ requesting' = requesting /\ streaming' = streaming
      /\ said' = said /\ clobbered' = clobbered
  BY DEF SaveTimer, stream, history
<1>2. CTypeOK' BY <1>1 DEF ChatInv, CTypeOK
<1>3. CallsInv' BY <1>1 DEF ChatInv, CallsInv
<1> QED BY <1>1, <1>2, <1>3, Untouched

LEMMA RenderKeeps ==
    ASSUME ChatInv, Render
    PROVE  ChatInv'
<1>1. /\ msgs' = Now /\ queue' = <<>> /\ latest' = Now /\ busy' = (requesting \/ streaming)
      /\ saveTimer' = (saveTimer \/ queue # <<>>)
      /\ gen' = gen /\ calls' = calls /\ stored' = stored
      /\ pend' = pend /\ timer' = timer /\ ctl' = ctl /\ requesting' = requesting /\ streaming' = streaming
      /\ said' = said /\ clobbered' = clobbered
  BY DEF Render, stream, history, Now
<1>2. Now' = Now /\ Later' = Now
  <2>1. Now' = RunAll(<<>>, Now, gen) /\ Later' = RunAll(<<>>, Now, gen + 1) BY <1>1 DEF Now, Later
  <2> QED BY <2>1, RunAllEmpty
<1>3. CTypeOK /\ CallsInv /\ Now \in Seq(Messages) /\ (~clobbered => TextInv) BY DEF ChatInv
<1>4. CTypeOK' BY <1>1, <1>3 DEF CTypeOK
<1>5. CallsInv' BY <1>1, <1>3 DEF CallsInv
<1>6. ASSUME ~clobbered' PROVE TextInv'
  <2>1. TextInv BY <1>1, <1>3, <1>6
  <2>2. \A ms \in {msgs', latest', stored', Now', Later'} : Sound(ms, said') BY <1>1, <1>2, <2>1 DEF TextInv
  <2>3. CASE requesting
    <3>1. Now # <<>> /\ Continues(Last(Now)) BY <2>1, <2>3 DEF TextInv
    <3>2. Continues(Last(Now))' BY <1>1, <1>2, <3>1 DEF Continues
    <3> QED BY <1>1, <1>2, <2>2, <2>3, <3>1, <3>2 DEF TextInv
  <2>4. CASE ~requesting
    <3>1. \A i \in DOMAIN Now : ~IsPending(Now[i]) BY <2>1, <2>4 DEF TextInv
    <3> QED BY <1>1, <1>2, <2>2, <2>4, <3>1 DEF TextInv
  <2> QED BY <2>3, <2>4
<1> QED BY <1>2, <1>3, <1>4, <1>5, <1>6 DEF ChatInv

\* The 50 ms timer: what is pending is queued.
LEMMA FlushTimerKeeps ==
    ASSUME ChatInv, FlushTimer
    PROVE  ChatInv'
<1>1. CTypeOK /\ CallsInv /\ Now \in Seq(Messages) /\ Later \in Seq(Messages) /\ (~clobbered => TextInv) BY DEF ChatInv
<1>2. /\ timer /\ Enqueue(Flush(gen)) /\ timer' = FALSE
      /\ pend' = (IF pend.g = gen THEN NoChunks(gen) ELSE pend)
      /\ msgs' = msgs /\ gen' = gen /\ calls' = calls /\ ctl' = ctl /\ requesting' = requesting
      /\ streaming' = streaming /\ busy' = busy /\ stored' = stored
      /\ said' = said /\ clobbered' = clobbered
  BY DEF FlushTimer, Flushed, history
<1>3. pend.txt # <<>> /\ pend.g = gen BY <1>1, <1>2 DEF CTypeOK
<1>4. /\ requesting /\ gen \in Gens /\ Chunks \in Answering /\ Chunks.kind = "chunk" /\ Chunks.g = gen
      /\ Flown \in Seq(Messages)
  BY <1>1, <1>3, ChunksType
<1>5. Moved({Flown}, Flown)
  <2>1. Enqueue(<<Chunks>>) BY <1>1, <1>2, <1>3, FlushFacts
  <2>2. Chunks.kind # "stop" BY <1>4
  <2>3. Moved({Run(Chunks, Now, gen)}, Run(Chunks, Now, gen)) BY <1>1, <1>2, <1>4, <2>1, <2>2, EnqueueOne
  <2> QED BY <1>3, <2>3 DEF Flown
<1>6. /\ Now' = Flown /\ Later' \in {Later, Flown} /\ latest' \in {latest, Flown}
      /\ queue' \in Seq(Updaters) /\ saveTimer' \in BOOLEAN
  BY <1>5 DEF Moved
<1>7. pend'.txt = <<>> /\ pend' \in [g : {gen}, txt : Texts]
  <2>1. <<>> \in Texts BY DEF Texts
  <2> QED BY <1>2, <1>3, <2>1 DEF NoChunks
<1>8. busy BY <1>1, <1>4 DEF CallsInv
<1>9. CTypeOK' BY <1>1, <1>2, <1>4, <1>6, <1>7 DEF CTypeOK
<1>10. CallsInv' BY <1>1, <1>2, <1>4, <1>7, <1>8 DEF CallsInv
<1>11. ASSUME ~clobbered' PROVE TextInv'
  <2>1. TextInv BY <1>1, <1>2, <1>11
  <2>2. /\ Flown # <<>> /\ Sound(Flown, said)
        /\ Last(Flown).from = "assistant" /\ Last(Flown).g = gen
        /\ Last(Flown).st \in {"loading", "streaming"}
        /\ InOrder(Last(Flown).txt, gen, 0, Len(said[gen])) /\ Len(said[gen]) \in Cuts(gen)
        /\ Exact(gen) => Last(Flown).txt = Part(gen, 0, Len(said[gen]))
    BY <1>1, <1>4, <2>1, FlownWhole
  <2>4. \A ms \in {msgs', latest', stored', Now', Later'} : Sound(ms, said') BY <1>2, <1>6, <2>1, <2>2 DEF TextInv
  <2>5. Continues(Last(Now))'
    <3> DEFINE n == Len(said[gen])
               m == Last(Flown)
    <3>1. n \in Nat /\ n <= n BY <1>1, <1>4, SaidPart
    <3>2. InOrder(<<>>, gen, n, n) BY DEF InOrder
    <3>3. Last(Now)' = m /\ gen' = gen /\ Len(said[gen])' = n /\ pend'.txt = <<>> BY <1>2, <1>6, <1>7
    <3>4. /\ m.from = "assistant" /\ m.g = gen /\ m.st \in {"loading", "streaming"} /\ n \in Cuts(gen)
          /\ IF Exact(gen) THEN m.txt = Part(gen, 0, n) ELSE InOrder(m.txt, gen, 0, n)
      BY <2>2
    <3> HIDE DEF m, n
    <3> QED BY <3>1, <3>2, <3>3, <3>4 DEF Continues
  <2> QED BY <1>2, <1>4, <1>6, <2>2, <2>4, <2>5 DEF TextInv
<1> QED BY <1>1, <1>4, <1>6, <1>9, <1>10, <1>11 DEF ChatInv

\* The requests after a call is gone.
LEMMA CallGone ==
    ASSUME CTypeOK, CallsInv, NEW c \in calls, calls' = calls \ {c},
           UNCHANGED <<queue, gen, ctl, streaming, busy, pend, requesting, said>>
    PROVE  CallsInv'
BY DEF CallsInv

\* The current request's call.
LEMMA CurrentCall ==
    ASSUME CTypeOK, CallsInv, NEW c \in calls
    PROVE  /\ c.g \in Gens /\ c.at \in {"headers", "open", "json"}
           /\ Current(c) => c.g = gen
           /\ c.g = gen => /\ gen \in Gens /\ requesting /\ busy /\ (streaming <=> c.at = "open")
                           /\ \A d \in calls : d.g = gen => d = c
                           /\ c.at = "json" => ctl = 0 /\ said[gen] = <<>> /\ pend.txt = <<>>
<1>1. c.g \in Gens /\ c.at \in {"headers", "open", "json"} BY DEF CTypeOK
<1>2. c.g # 0 BY <1>1 DEF Gens
<1>3. Current(c) => c.g = gen BY <1>2 DEF Current, CTypeOK
<1> QED BY <1>1, <1>3 DEF CallsInv

LEMMA QuietCloseKeeps ==
    ASSUME ChatInv, NEW c \in calls, QuietClose(c)
    PROVE  ChatInv'
<1>1. /\ calls' = calls \ {c} /\ msgs' = msgs /\ queue' = queue /\ gen' = gen /\ busy' = busy
      /\ pend' = pend /\ timer' = timer /\ ctl' = ctl /\ requesting' = requesting /\ streaming' = streaming
      /\ latest' = latest /\ saveTimer' = saveTimer /\ stored' = stored
      /\ said' = said /\ clobbered' = clobbered
  BY DEF QuietClose, stream, saving, history
<1>2. CTypeOK' BY <1>1 DEF ChatInv, CTypeOK
<1>3. CallsInv' BY <1>1, CallGone DEF ChatInv
<1> QED BY <1>1, <1>2, <1>3, Untouched

LEMMA HeadersReadyKeeps ==
    ASSUME ChatInv, NEW c \in calls, HeadersReady(c)
    PROVE  ChatInv'
<1> DEFINE open == [c EXCEPT !.at = "open"]
<1>1. /\ c.at = "headers" /\ calls' = (calls \ {c}) \cup {d \in {open} : Current(c)}
      /\ streaming' = (streaming \/ Current(c))
      /\ msgs' = msgs /\ queue' = queue /\ gen' = gen /\ busy' = busy
      /\ pend' = pend /\ timer' = timer /\ ctl' = ctl /\ requesting' = requesting
      /\ latest' = latest /\ saveTimer' = saveTimer /\ stored' = stored
      /\ said' = said /\ clobbered' = clobbered
  BY DEF HeadersReady, saving, history
<1>2. CTypeOK /\ CallsInv BY DEF ChatInv
<1>3. open.g = c.g /\ open.at = "open" /\ open \in [g : Gens, at : {"headers", "open", "json"}]
  BY <1>2 DEF CTypeOK
<1> HIDE DEF open
<1>4. CASE ~Current(c)
  <2>1. calls' = calls \ {c} /\ streaming' = streaming
    <3>1. streaming \in BOOLEAN BY <1>2 DEF CTypeOK
    <3> QED BY <1>1, <1>4, <3>1
  <2>2. CTypeOK' BY <1>1, <1>2, <2>1 DEF CTypeOK
  <2>3. CallsInv' BY <1>1, <1>2, <2>1, CallGone
  <2> QED BY <1>1, <2>2, <2>3, Untouched
<1>5. CASE Current(c)
  <2>1. c.g = gen /\ requesting /\ gen \in Gens /\ busy /\ \A d \in calls : d.g = gen => d = c
    BY <1>2, <1>5, CurrentCall
  <2>2. calls' = (calls \ {c}) \cup {open} /\ streaming' = TRUE BY <1>1, <1>5
  <2>3. CTypeOK'
    <3>1. calls' \subseteq [g : Gens, at : {"headers", "open", "json"}] BY <1>2, <1>3, <2>2 DEF CTypeOK
    <3> QED BY <1>1, <1>2, <2>2, <3>1 DEF CTypeOK
  <2>4. CallsInv'
    <3>1. \A d \in calls' : (d \in calls /\ d # c) \/ d = open BY <2>2
    <3>2. \A d \in calls' : d.g <= gen' BY <1>1, <1>2, <1>3, <3>1 DEF CallsInv
    <3>3. \A d, e \in calls' : d.g = e.g => d = e BY <1>2, <1>3, <2>1, <3>1 DEF CallsInv
    <3>4. \A d \in calls' : d.g = gen' => d = open BY <1>1, <2>1, <3>1
    <3> QED BY <1>1, <1>2, <1>3, <2>1, <2>2, <3>2, <3>3, <3>4 DEF CallsInv
  <2> QED BY <1>1, <2>3, <2>4, Untouched
<1> QED BY <1>4, <1>5

\* A request that is no longer the current one changes nothing but its call.
LEMMA StaleKeeps ==
    ASSUME ChatInv, NEW c \in calls, calls' = calls \ {c},
           UNCHANGED <<msgs, queue, gen, pend, timer, ctl, requesting, streaming, busy, saving, history>>
    PROVE  ChatInv'
<1>1. /\ msgs' = msgs /\ queue' = queue /\ gen' = gen /\ busy' = busy
      /\ pend' = pend /\ timer' = timer /\ ctl' = ctl /\ requesting' = requesting /\ streaming' = streaming
      /\ latest' = latest /\ saveTimer' = saveTimer /\ stored' = stored
      /\ said' = said /\ clobbered' = clobbered
  BY DEF saving, history
<1>2. CTypeOK' BY <1>1 DEF ChatInv, CTypeOK
<1>3. CallsInv' BY <1>1, CallGone DEF ChatInv
<1> QED BY <1>1, <1>2, <1>3, Untouched

\* The current request ends: the pending text is shown first, and nothing is left pending.
LEMMA FinishKeeps ==
    ASSUME ChatInv, NEW c \in calls, c.g = gen, NEW k \in {"complete", "error"}, Finish(c, ForGen(k, gen)),
           streaming' = FALSE, ctl' \in {0, ctl}
    PROVE  ChatInv' /\ (k = "complete" /\ ~clobbered /\ Exact(gen) => Last(Now').txt = said[gen])
<1> DEFINE u == ForGen(k, gen)
           fin == Run(u, Flown, gen)
<1>1. CTypeOK /\ CallsInv /\ Now \in Seq(Messages) /\ Later \in Seq(Messages) /\ (~clobbered => TextInv) BY DEF ChatInv
<1>2. pend.g = gen BY <1>1 DEF CTypeOK
<1>3. /\ calls' = calls \ {c} /\ Enqueue(Flush(gen) \o <<u>>) /\ requesting' = FALSE
      /\ pend' = NoChunks(gen) /\ timer' = FALSE
      /\ msgs' = msgs /\ gen' = gen /\ busy' = busy /\ stored' = stored
      /\ said' = said /\ clobbered' = clobbered
  BY <1>2 DEF Finish, Flushed, Stale, history
<1>4. /\ gen \in Gens /\ requesting /\ busy /\ \A d \in calls : d.g = gen => d = c BY <1>1, CurrentCall
<1>5. u \in Answering /\ u.kind = k /\ u.g = gen BY <1>4, UpdaterTypes DEF ForGen
<1>6. Flown \in Seq(Messages) BY <1>1, ChunksType
<1> HIDE DEF u
<1>7. fin = UpdateLast(u, Flown) /\ fin \in Seq(Messages)
  <2>1. fin = UpdateLast(u, Flown) BY <1>5, RunFacts
  <2> QED BY <1>5, <1>6, <2>1, UpdateLastFacts
<1>8. Moved({Flown, fin}, fin)
  <2>1. CASE pend.txt = <<>>
    <3>1. Flush(gen) = <<>> /\ Flown = Now BY <1>1, <2>1, FlushFacts DEF Flown
    <3>2. <<>> \o <<u>> = <<u>>
      <4>1. <<u>> \in Seq({u}) OBVIOUS
      <4> QED BY <4>1, ConcatEmptySeq
    <3>3. Enqueue(<<u>>) BY <1>3, <3>1, <3>2
    <3>4. u.kind # "stop" BY <1>5
    <3>5. Moved({Run(u, Now, gen)}, Run(u, Now, gen)) BY <1>1, <1>3, <1>5, <3>3, <3>4, EnqueueOne
    <3> QED BY <3>1, <3>5 DEF Moved
  <2>2. CASE pend.txt # <<>>
    <3>1. Flush(gen) = <<Chunks>> BY <1>1, <2>2, FlushFacts
    <3>2. Chunks \in Answering /\ Chunks.kind = "chunk" /\ Chunks.g = gen BY <1>1, <2>2, ChunksType
    <3>3. <<Chunks>> \o <<u>> = <<Chunks, u>>
      <4>1. <<u>> \in Seq(Answering) BY <1>5
      <4> QED BY <1>5, <3>2, <4>1, ConcatPair
    <3>4. Enqueue(<<Chunks, u>>) BY <1>3, <3>1, <3>3
    <3>5. u.kind # "stop" /\ Chunks.kind # "stop" BY <1>5, <3>2
    <3>6. Moved({Run(Chunks, Now, gen)}, Run(u, Run(Chunks, Now, gen), gen))
      BY <1>1, <1>3, <1>5, <3>2, <3>4, <3>5, EnqueueTwo
    <3>7. Run(Chunks, Now, gen) = Flown BY <2>2 DEF Flown
    <3>8. Moved({Flown}, fin) BY <3>6, <3>7
    <3> HIDE DEF fin
    <3> QED BY <3>8 DEF Moved
  <2> QED BY <2>1, <2>2
<1> HIDE DEF fin
<1>9. /\ Now' = fin /\ Later' \in {Later, Flown, fin} /\ latest' \in {latest, Flown, fin}
      /\ queue' \in Seq(Updaters) /\ saveTimer' \in BOOLEAN
  BY <1>8 DEF Moved
<1>10. pend'.txt = <<>> /\ pend' \in [g : {gen}, txt : Texts]
  <2>1. <<>> \in Texts BY DEF Texts
  <2> QED BY <1>3, <2>1 DEF NoChunks
<1>11. CTypeOK'
  <2>1. ctl' \in {0, gen'} BY <1>1, <1>3 DEF CTypeOK
  <2>2. latest' \in Seq(Messages) BY <1>1, <1>6, <1>7, <1>9 DEF CTypeOK
  <2>3. {requesting', streaming', busy', saveTimer', clobbered'} \subseteq BOOLEAN BY <1>1, <1>3, <1>9 DEF CTypeOK
  <2> QED BY <1>1, <1>3, <1>9, <1>10, <2>1, <2>2, <2>3 DEF CTypeOK
<1>12. CallsInv'
  <2>1. \A d \in calls' : d.g # gen' BY <1>3, <1>4
  <2> QED BY <1>1, <1>3, <1>4, <1>10, <2>1 DEF CallsInv
<1>13. ASSUME ~clobbered PROVE TextInv' /\ (k = "complete" /\ Exact(gen) => Last(fin).txt = said[gen])
  <2>1. TextInv BY <1>1, <1>13
  <2>2. /\ Flown # <<>> /\ Sound(Flown, said) /\ Last(Flown).from = "assistant"
        /\ Last(Flown).st \in {"loading", "streaming"}
        /\ Exact(gen) => Last(Flown).txt = Part(gen, 0, Len(said[gen]))
    BY <1>1, <1>4, <2>1, FlownWhole
  <2>3. said \in [Gens -> Texts] /\ said[gen] = Part(gen, 0, Len(said[gen])) BY <1>1, <1>4, SaidPart DEF CTypeOK
  <2>4. Sound(fin, said) /\ Settled(fin) /\ (k = "complete" => Last(fin).txt = Last(Flown).txt)
    <3>1. u.kind \in {"complete", "error", "reply"} /\ u.kind # "reply" BY <1>5
    <3> QED BY <1>5, <1>6, <1>7, <2>2, <2>3, <3>1, EndsAnswer
  <2>5. \A ms \in {msgs', latest', stored', Now', Later'} : Sound(ms, said') BY <1>3, <1>9, <2>1, <2>2, <2>4 DEF TextInv
  <2>6. \A i \in DOMAIN fin : ~IsPending(fin[i]) BY <1>7, <2>4, SettledMeans
  <2>7. TextInv' BY <1>3, <1>9, <2>5, <2>6 DEF TextInv
  <2> QED BY <2>2, <2>3, <2>4, <2>7
<1>14. Later' \in Seq(Messages) BY <1>1, <1>6, <1>7, <1>9
<1> QED BY <1>3, <1>7, <1>9, <1>11, <1>12, <1>13, <1>14 DEF ChatInv

LEMMA HeadersFailKeeps ==
    ASSUME ChatInv, NEW c \in calls, HeadersFail(c)
    PROVE  ChatInv'
<1>1. c.at = "headers" /\ Current(c) /\ Finish(c, ForGen("error", c.g)) /\ ctl' = ctl /\ streaming' = streaming
  BY DEF HeadersFail
<1>2. CTypeOK /\ CallsInv BY DEF ChatInv
<1>3. c.g = gen BY <1>1, <1>2, CurrentCall
<1>4. streaming' = FALSE
  <2>1. streaming \in BOOLEAN BY <1>2 DEF CTypeOK
  <2>2. streaming <=> c.at = "open" BY <1>2, <1>3, CurrentCall
  <2> QED BY <1>1, <2>1, <2>2
<1> QED BY <1>1, <1>3, <1>4, FinishKeeps

LEMMA StreamEndsKeeps ==
    ASSUME ChatInv, NEW c \in calls, NEW k \in {"complete", "error"}, StreamEnds(c, k)
    PROVE  ChatInv' /\ c.g = gen /\ (k = "complete" /\ ~clobbered /\ Exact(gen) => Last(Now').txt = said[gen])
<1>1. Current(c) /\ Finish(c, ForGen(k, c.g)) /\ ctl' = 0 /\ streaming' = FALSE BY DEF StreamEnds
<1>2. c.g = gen BY <1>1, CurrentCall DEF ChatInv
<1>3. Finish(c, ForGen(k, gen)) BY <1>1, <1>2
<1> QED BY <1>1, <1>2, <1>3, FinishKeeps

LEMMA ReplyFailsKeeps ==
    ASSUME ChatInv, NEW c \in calls, ReplyFails(c)
    PROVE  ChatInv'
<1>1. c.at = "json" /\ Finish(c, ForGen("error", c.g)) /\ ctl' = ctl /\ streaming' = streaming
  BY DEF ReplyFails
<1>2. CTypeOK /\ CallsInv BY DEF ChatInv
<1>3. CASE c.g = gen
  <2>1. streaming' = FALSE
    <3>1. streaming \in BOOLEAN BY <1>2 DEF CTypeOK
    <3>2. streaming <=> c.at = "open" BY <1>2, <1>3, CurrentCall
    <3> QED BY <1>1, <3>1, <3>2
  <2> QED BY <1>1, <1>3, <2>1, FinishKeeps
<1>4. CASE c.g # gen
  <2>1. /\ calls' = calls \ {c} /\ UNCHANGED <<queue, latest, saveTimer, pend, timer, requesting>>
        /\ UNCHANGED <<msgs, gen, busy, stored, history>>
    BY <1>1, <1>4 DEF Finish, Stale
  <2> QED BY <1>1, <2>1, StaleKeeps DEF saving
<1> QED BY <1>3, <1>4

\* More was heard: what was sound stays so.
LEMMA Hears ==
    ASSUME ChatInv, ~clobbered, said' \in [Gens -> Texts], \A g \in Gens : Len(said[g]) <= Len(said'[g])
    PROVE  \A ms \in {msgs, latest, stored, Now, Later} : Sound(ms, said')
<1>1. \A ms \in {msgs, latest, stored, Now, Later} : ms \in Seq(Messages) /\ Sound(ms, said)
  BY DEF ChatInv, CTypeOK, TextInv
<1>2. said \in [Gens -> Texts] BY DEF ChatInv, CTypeOK
<1> QED BY <1>1, <1>2, SoundGrows

LEMMA ReplyReturnsKeeps ==
    ASSUME ChatInv, NEW c \in calls, ReplyReturns(c)
    PROVE  ChatInv'
<1> DEFINE reply == Part(c.g, 0, MaxLetters)
           u == WithText("reply", c.g, reply)
           fin == Run(u, Now, gen)
<1>1. CTypeOK /\ CallsInv /\ Now \in Seq(Messages) /\ Later \in Seq(Messages) /\ (~clobbered => TextInv) BY DEF ChatInv
<1>2. /\ c.at = "json" /\ calls' = calls \ {c}
      /\ msgs' = msgs /\ gen' = gen /\ pend' = pend /\ timer' = timer /\ ctl' = ctl /\ streaming' = streaming
      /\ busy' = busy /\ stored' = stored /\ clobbered' = clobbered
      /\ IF c.g # gen THEN UNCHANGED <<queue, latest, saveTimer, requesting, said>>
         ELSE said' = [said EXCEPT ![c.g] = reply] /\ Enqueue(<<u>>) /\ requesting' = FALSE
  BY DEF ReplyReturns, Stale
<1>3. CASE c.g # gen BY <1>2, <1>3, StaleKeeps DEF saving, history
<1>4. CASE c.g = gen
  <2>1. /\ gen \in Gens /\ requesting /\ busy /\ ~streaming /\ \A d \in calls : d.g = gen => d = c
        /\ said[gen] = <<>> /\ pend.txt = <<>>
    BY <1>1, <1>2, <1>4, CurrentCall
  <2>2. said' = [said EXCEPT ![gen] = reply] /\ Enqueue(<<u>>) /\ requesting' = FALSE BY <1>2, <1>4
  <2>3. reply = Part(gen, 0, MaxLetters) /\ reply \in Texts /\ Len(reply) = MaxLetters /\ MaxLetters \in Nat
    <3>1. MaxLetters \in Nat /\ Ordered(0, MaxLetters) BY ChatConstants DEF Ordered
    <3>2. IsPart(Part(gen, 0, MaxLetters), gen, 0, MaxLetters) BY <2>1, <3>1, PartIsPart
    <3>3. reply = Part(gen, 0, MaxLetters) BY <1>4
    <3> HIDE DEF reply
    <3> QED BY <3>1, <3>2, <3>3 DEF IsPart, Texts, Pieces
  <2> HIDE DEF reply
  <2>4. u \in Answering /\ u.kind = "reply" /\ u.g = gen /\ u.txt = reply
    <3>1. u \in Answering BY <1>4, <2>1, <2>3, UpdaterTypes
    <3> QED BY <1>4, <3>1 DEF WithText
  <2>5. said \in [Gens -> Texts] /\ said' \in [Gens -> Texts] BY <1>1, <2>2, <2>3 DEF CTypeOK
  <2>6. said'[gen] = reply /\ \A g \in Gens : g # gen => said'[g] = said[g] BY <2>1, <2>2, <2>5
  <2>7. \A g \in Gens : Len(said[g]) <= Len(said'[g])
    <3>1. \A g \in Gens : Len(said[g]) \in Nat BY <2>5 DEF Texts
    <3>2. Len(said[gen]) = 0 BY <2>1
    <3>3. \A g \in Gens : g = gen \/ said'[g] = said[g] BY <2>6
    <3>4. Len(said'[gen]) = MaxLetters BY <2>3, <2>6
    <3> QED BY <2>3, <3>1, <3>2, <3>3, <3>4
  <2> HIDE DEF u
  <2>8. fin = UpdateLast(u, Now) /\ fin \in Seq(Messages)
    <3>1. fin = UpdateLast(u, Now) BY <2>4, RunFacts
    <3> QED BY <1>1, <2>4, <3>1, UpdateLastFacts
  <2>9. Moved({fin}, fin)
    <3>1. u.kind # "stop" BY <2>4
    <3> QED BY <1>1, <1>2, <2>2, <2>4, <3>1, EnqueueOne
  <2> HIDE DEF fin
  <2>10. /\ Now' = fin /\ Later' \in {Later, fin} /\ latest' \in {latest, fin}
         /\ queue' \in Seq(Updaters) /\ saveTimer' \in BOOLEAN
    BY <2>9 DEF Moved
  <2>11. CTypeOK'
    <3>1. latest' \in Seq(Messages) BY <1>1, <2>8, <2>10 DEF CTypeOK
    <3>2. {requesting', streaming', busy', saveTimer', clobbered'} \subseteq BOOLEAN BY <1>1, <1>2, <2>2, <2>10 DEF CTypeOK
    <3> QED BY <1>1, <1>2, <2>5, <2>10, <3>1, <3>2 DEF CTypeOK
  <2>12. CallsInv'
    <3>1. \A d \in calls' : d.g # gen' BY <1>2, <2>1
    <3>2. \A g \in Gens : said'[g] = Part(g, 0, Len(said'[g])) /\ (g > gen' => said'[g] = <<>>)
      <4>1. \A g \in Gens : g # gen => said'[g] = Part(g, 0, Len(said'[g])) /\ (g > gen => said'[g] = <<>>)
        BY <1>1, <2>6 DEF CallsInv
      <4>2. said'[gen] = Part(gen, 0, Len(said'[gen]))
        <5>1. Len(said'[gen]) = MaxLetters /\ said'[gen] = Part(gen, 0, MaxLetters) BY <2>3, <2>6
        <5> QED BY <5>1, Zenon
      <4>3. ~(gen > gen) BY <2>1 DEF Gens
      <4> QED BY <1>2, <4>1, <4>2, <4>3
    <3> QED BY <1>1, <1>2, <2>1, <2>2, <3>1, <3>2 DEF CallsInv
  <2>13. ASSUME ~clobbered PROVE TextInv'
    <3>1. \A ms \in {msgs, latest, stored, Now, Later} : Sound(ms, said') BY <2>5, <2>7, <2>13, Hears
    <3>2. TextInv /\ Now # <<>> /\ Continues(Last(Now)) BY <1>1, <2>1, <2>13 DEF TextInv
    <3>3. Last(Now).from = "assistant" /\ Last(Now).g = gen BY <3>2 DEF Continues
    <3>4. Sound(fin, said') /\ Settled(fin)
      <4>1. PICK n \in Nat : n = MaxLetters BY <2>3
      <4>2. u.txt = Part(Last(Now).g, 0, n) /\ n <= Len(said'[Last(Now).g])
        <5>1. Last(Now).g = gen BY <3>3
        <5>2. u.txt = Part(gen, 0, n)
          <6>1. reply = Part(gen, 0, MaxLetters) BY <2>3
          <6>2. u.txt = reply BY <2>4
          <6> QED BY <4>1, <6>1, <6>2, Zenon
        <5>3. n <= Len(said'[gen])
          <6>1. Len(reply) = MaxLetters /\ said'[gen] = reply BY <2>3, <2>6
          <6>2. Len(said'[gen]) = MaxLetters BY <6>1
          <6> QED BY <4>1, <6>2
        <5> QED BY <5>1, <5>2, <5>3, Zenon
      <4>3. Sound(Now, said') /\ u.kind \in {"complete", "error", "reply"} /\ u.kind # "complete" BY <2>4, <3>1
      <4> QED BY <1>1, <2>4, <2>5, <2>8, <3>2, <3>3, <4>2, <4>3, EndsAnswer
    <3>5. \A ms \in {msgs', latest', stored', Now', Later'} : Sound(ms, said') BY <1>2, <2>10, <3>1, <3>4
    <3>6. \A i \in DOMAIN fin : ~IsPending(fin[i]) BY <2>8, <3>4, SettledMeans
    <3> QED BY <2>2, <2>10, <3>5, <3>6 DEF TextInv
  <2>14. Later' \in Seq(Messages) BY <1>1, <2>8, <2>10
  <2> QED BY <1>2, <2>8, <2>10, <2>11, <2>12, <2>13, <2>14 DEF ChatInv
<1> QED BY <1>3, <1>4

\* handleStreamUpdate: one more chunk is pending.
LEMMA ChunkKeeps ==
    ASSUME ChatInv, NEW c \in calls, Chunk(c)
    PROVE  ChatInv'
<1> DEFINE n == Len(said[gen])
<1>1. CTypeOK /\ CallsInv /\ Now \in Seq(Messages) /\ Later \in Seq(Messages) /\ (~clobbered => TextInv) BY DEF ChatInv
<1>2. /\ c.at = "open" /\ c.g = gen
      /\ timer' = TRUE /\ msgs' = msgs /\ queue' = queue /\ gen' = gen /\ calls' = calls /\ ctl' = ctl
      /\ requesting' = requesting /\ streaming' = streaming /\ busy' = busy
      /\ latest' = latest /\ saveTimer' = saveTimer /\ stored' = stored /\ clobbered' = clobbered
  BY DEF Chunk, Stale, saving
<1>3. PICK e \in Ends[gen] :
        /\ n < e /\ said' = [said EXCEPT ![gen] = Part(gen, 0, e)]
        /\ pend' = [pend EXCEPT !.txt = Merge(pend.txt, Delivered(gen, n, e))]
  BY <1>2 DEF Chunk
<1>4. /\ gen \in Gens /\ requesting /\ busy /\ \A d \in calls : d.g = gen => d = c BY <1>1, <1>2, CurrentCall
<1>5. n \in Nat /\ said[gen] = Part(gen, 0, n) BY <1>1, <1>4, SaidPart
<1>6. e \in Cuts(gen) /\ e \in Nat
  <2>1. e \in Cuts(gen) BY DEF Cuts
  <2> QED BY <1>4, <2>1, CutsNat
<1> DEFINE next == Delivered(gen, n, e)
<1> HIDE DEF n
<1>7. Ordered(0, n) /\ Ordered(0, e) /\ Ordered(n, e) /\ 0 # e /\ n # e /\ n <= e BY <1>3, <1>5, <1>6 DEF Ordered
<1>8. /\ Part(gen, 0, e) \in Texts /\ Part(gen, n, e) \in Texts /\ Len(Part(gen, 0, e)) = e
      /\ Part(gen, 0, e) # <<>> /\ Part(gen, n, e) # <<>>
  <2>1. IsPart(Part(gen, 0, e), gen, 0, e) BY <1>4, <1>7, PartIsPart
  <2>2. IsPart(Part(gen, n, e), gen, n, e) BY <1>4, <1>7, PartIsPart
  <2>3. e - 0 = e BY <1>6
  <2>4. Part(gen, 0, e) # <<>> BY <1>7, <2>1, PartEmpty
  <2>5. Part(gen, n, e) # <<>> BY <1>7, <2>2, PartEmpty
  <2> QED BY <2>1, <2>2, <2>3, <2>4, <2>5 DEF IsPart, Texts, Pieces
<1>9. said \in [Gens -> Texts] /\ said' \in [Gens -> Texts] BY <1>1, <1>3, <1>8 DEF CTypeOK
<1>10. said'[gen] = Part(gen, 0, e) /\ \A g \in Gens : g # gen => said'[g] = said[g] BY <1>3, <1>4, <1>9
<1>11. next \in Texts /\ next # <<>> BY <1>8 DEF Delivered
<1> HIDE DEF next
<1>12. pend \in [g : {gen}, txt : Texts] BY <1>1 DEF CTypeOK
<1>13. pend.txt \in Texts BY <1>12
<1>14. Merge(pend.txt, next) \in Texts /\ Merge(pend.txt, next) # <<>> BY <1>11, <1>13, TextTypes
<1>15. pend' = [pend EXCEPT !.txt = Merge(pend.txt, next)] BY <1>3 DEF next
<1>16. pend' \in [g : {gen}, txt : Texts] /\ pend'.txt = Merge(pend.txt, next) BY <1>12, <1>14, <1>15
<1>17. CTypeOK' BY <1>1, <1>2, <1>9, <1>14, <1>16 DEF CTypeOK
<1>18. CallsInv'
  <2>1. \A g \in Gens : said'[g] = Part(g, 0, Len(said'[g])) /\ (g > gen => said'[g] = <<>>)
    <3>1. \A g \in Gens : g # gen => said'[g] = Part(g, 0, Len(said'[g])) /\ (g > gen => said'[g] = <<>>)
      BY <1>1, <1>10 DEF CallsInv
    <3>2. said'[gen] = Part(gen, 0, Len(said'[gen])) BY <1>8, <1>10, Zenon
    <3>3. ~(gen > gen) BY <1>4 DEF Gens
    <3> QED BY <3>1, <3>2, <3>3
  <2>2. \A d \in calls : d.g = gen => d.at # "json" BY <1>2, <1>4
  <2> QED BY <1>1, <1>2, <1>4, <2>1, <2>2 DEF CallsInv
<1>19. Now' = Now /\ Later' = Later BY <1>2 DEF Now, Later
<1>20. Len(said'[gen]) = e BY <1>8, <1>10
<1>21. ASSUME ~clobbered PROVE TextInv'
  <2>1. \A g \in Gens : Len(said[g]) <= Len(said'[g])
    <3>1. \A g \in Gens : Len(said[g]) \in Nat BY <1>9 DEF Texts
    <3>2. \A g \in Gens : g = gen \/ said'[g] = said[g] BY <1>10
    <3>3. Len(said[gen]) <= Len(said'[gen]) BY <1>7, <1>20 DEF n
    <3> QED BY <3>1, <3>2, <3>3
  <2>2. \A ms \in {msgs, latest, stored, Now, Later} : Sound(ms, said') BY <1>9, <1>21, <2>1, Hears
  <2> DEFINE m == Last(Now)
  <2>3. Now # <<>> /\ Continues(m) /\ Sound(Now, said) BY <1>1, <1>4, <1>21 DEF TextInv
  <2>4. m.from = "assistant" /\ m.g = gen /\ m.st \in {"loading", "streaming"} /\ n \in Cuts(gen)
    BY <2>3 DEF Continues, n
  <2>5. PICK k \in Cuts(gen) :
          /\ k <= n
          /\ IF Exact(gen)
             THEN /\ m.txt = Part(gen, 0, k)
                  /\ pend.txt = IF k = n THEN <<>> ELSE Delivered(gen, k, n)
             ELSE InOrder(m.txt, gen, 0, k) /\ InOrder(pend.txt, gen, k, n)
    BY <2>3 DEF Continues, n
  <2>6. k \in Nat /\ k <= e /\ k # e BY <1>3, <1>4, <1>5, <1>6, <2>5, CutsNat
  <2> HIDE DEF m
  <2>7. Exact(gen) => Merge(pend.txt, next) = Delivered(gen, k, e)
    <3>1. SUFFICES ASSUME Exact(gen) PROVE Merge(pend.txt, next) = Delivered(gen, k, e) OBVIOUS
    <3>2. pend.txt = IF k = n THEN <<>> ELSE Delivered(gen, k, n) BY <2>5, <3>1
    <3>3. Merge(IF k = n THEN <<>> ELSE Delivered(gen, k, n), Delivered(gen, n, e)) = Delivered(gen, k, e)
      BY <1>3, <1>4, <1>6, <2>4, <2>5, <3>1, MergeWhole
    <3> QED BY <3>2, <3>3 DEF next
  <2>8. ~Exact(gen) => InOrder(Merge(pend.txt, next), gen, k, e)
    <3>1. SUFFICES ASSUME ~Exact(gen) PROVE InOrder(Merge(pend.txt, next), gen, k, e) OBVIOUS
    <3>2. InOrder(pend.txt, gen, k, n) BY <2>5, <3>1
    <3>3. next = Part(gen, n, e) BY <3>1 DEF Exact, next, Delivered
    <3>4. InOrder(next, gen, n, e) BY <1>4, <1>7, <3>3, PartInOrder
    <3> QED BY <1>5, <1>6, <1>7, <1>11, <1>13, <2>5, <2>6, <3>2, <3>4, InOrderKept
  <2>9. Continues(Last(Now))'
    <3>1. Last(Now)' = m /\ gen' = gen BY <1>2, <1>19 DEF m
    <3>2. Len(said[gen])' = e /\ pend'.txt = Merge(pend.txt, next) BY <1>2, <1>16, <1>20
    <3>3. IF Exact(gen)
          THEN /\ m.txt = Part(gen, 0, k)
               /\ pend'.txt = IF k = e THEN <<>> ELSE Delivered(gen, k, e)
          ELSE InOrder(m.txt, gen, 0, k) /\ InOrder(pend'.txt, gen, k, e)
      BY <2>5, <2>6, <2>7, <2>8, <3>2
    <3> QED BY <1>6, <2>4, <2>6, <3>1, <3>2, <3>3 DEF Continues
  <2> QED BY <1>2, <1>4, <1>19, <2>2, <2>3, <2>9 DEF TextInv
<1> QED BY <1>1, <1>2, <1>17, <1>18, <1>19, <1>21 DEF ChatInv

--------------------------------------------------------------------------------
(* Theorems. *)

\* An empty page.
LEMMA ChatInvInit == CInit => ChatInv
<1> SUFFICES ASSUME CInit PROVE ChatInv OBVIOUS
<1>1. <<>> \in Texts /\ <<>> \in Seq(Messages) /\ <<>> \in Seq(Updaters) BY DEF Texts
<1>2. MaxGen \in Nat BY ChatConstants
<1>3. pend = NoChunks(0) /\ pend.txt = <<>> /\ pend \in [g : {0}, txt : Texts] BY <1>1 DEF CInit, NoChunks
<1>4. CTypeOK
  <2>1. gen \in 0 .. MaxGen /\ ctl \in {0, gen} BY <1>2 DEF CInit
  <2>2. pend \in [g : {gen}, txt : Texts] /\ timer \in BOOLEAN /\ (timer => pend.txt # <<>>) BY <1>3 DEF CInit
  <2>3. /\ msgs \in Seq(Messages) /\ latest \in Seq(Messages) /\ stored \in Seq(Messages)
        /\ queue \in Seq(Updaters)
    BY <1>1 DEF CInit
  <2>4. calls \subseteq [g : Gens, at : {"headers", "open", "json"}] BY DEF CInit
  <2>5. {requesting, streaming, busy, saveTimer, clobbered} \subseteq BOOLEAN BY DEF CInit
  <2>6. said \in [Gens -> Texts] BY <1>1 DEF CInit
  <2> QED BY <2>1, <2>2, <2>3, <2>4, <2>5, <2>6 DEF CTypeOK
<1>5. CallsInv
  <2>1. ASSUME NEW g \in Gens PROVE said[g] = Part(g, 0, Len(said[g])) /\ said[g] = <<>>
    <3>1. said[g] = <<>> /\ Len(<<>>) = 0 BY DEF CInit
    <3>2. Ordered(0, 0) BY DEF Ordered
    <3>3. IsPart(Part(g, 0, 0), g, 0, 0) BY <3>2, PartIsPart
    <3>4. Part(g, 0, 0) = <<>> BY <3>3, PartEmpty
    <3> QED BY <3>1, <3>4
  <2> QED BY <1>3, <2>1 DEF CInit, CallsInv
<1>6. Now = <<>> /\ Later = <<>> BY NothingQueued DEF CInit
<1>7. TextInv
  <2>1. PICK x : x = <<>> /\ DOMAIN x = {} OBVIOUS
  <2>2. Sound(x, said) BY <2>1 DEF Sound
  <2> QED BY <1>6, <2>1, <2>2 DEF CInit, TextInv
<1> QED BY <1>1, <1>4, <1>5, <1>6, <1>7 DEF ChatInv

\* Every step keeps the invariant.
LEMMA ChatInvNext == ChatInv /\ [CNext]_cvars => ChatInv'
<1> SUFFICES ASSUME ChatInv, [CNext]_cvars PROVE ChatInv' OBVIOUS
<1>1. CASE Network
  <2>1. PICK c \in calls :
          \/ HeadersReady(c) \/ HeadersFail(c) \/ ReplyFails(c) \/ QuietClose(c)
          \/ Chunk(c) \/ ReplyReturns(c)
          \/ \E k \in {"complete", "error"} : StreamEnds(c, k)
    BY <1>1, Zenon DEF Network
  <2>2. CASE HeadersReady(c) BY <2>2, HeadersReadyKeeps
  <2>3. CASE HeadersFail(c) BY <2>3, HeadersFailKeeps
  <2>4. CASE ReplyFails(c) BY <2>4, ReplyFailsKeeps
  <2>5. CASE QuietClose(c) BY <2>5, QuietCloseKeeps
  <2>6. CASE Chunk(c) BY <2>6, ChunkKeeps
  <2>7. CASE ReplyReturns(c) BY <2>7, ReplyReturnsKeeps
  <2>8. CASE \E k \in {"complete", "error"} : StreamEnds(c, k) BY <2>8, StreamEndsKeeps
  <2> QED BY <2>1, <2>2, <2>3, <2>4, <2>5, <2>6, <2>7, <2>8
<1>2. CASE User
  <2>1. CASE \E i \in DOMAIN msgs : EditSave(i) \/ Delete(i) BY <2>1, EditSaveKeeps, DeleteKeeps
  <2>2. CASE \E s \in BOOLEAN : Send(s) BY <2>2, SendKeeps
  <2>3. CASE \E s \in BOOLEAN : \E i \in DOMAIN msgs : Regenerate(i, s) \/ EditSubmit(i, s)
    BY <2>3, RegenerateKeeps, EditSubmitKeeps
  <2>4. CASE Clear BY <2>4, ClearKeeps
  <2>5. CASE Stop BY <2>5, StopKeeps
  <2>6. CASE \E u \in BOOLEAN : Reopen(u) BY <2>6, ReopenKeeps
  <2> QED BY <1>2, <2>1, <2>2, <2>3, <2>4, <2>5, <2>6, Zenon DEF User
<1>3. CASE FlushTimer BY <1>3, FlushTimerKeeps
<1>4. CASE Render BY <1>4, RenderKeeps
<1>5. CASE SaveTimer BY <1>5, SaveTimerKeeps
<1>6. CASE UNCHANGED cvars
  <2>1. /\ msgs' = msgs /\ queue' = queue /\ gen' = gen /\ busy' = busy /\ calls' = calls
        /\ pend' = pend /\ timer' = timer /\ ctl' = ctl /\ requesting' = requesting /\ streaming' = streaming
        /\ latest' = latest /\ saveTimer' = saveTimer /\ stored' = stored
        /\ said' = said /\ clobbered' = clobbered
    BY <1>6 DEF cvars
  <2>2. CTypeOK' BY <2>1 DEF ChatInv, CTypeOK
  <2>3. CallsInv' BY <2>1 DEF ChatInv, CallsInv
  <2> QED BY <2>1, <2>2, <2>3, Untouched
<1> QED BY <1>1, <1>2, <1>3, <1>4, <1>5, <1>6, Zenon DEF CNext

\* The invariant that the properties rest on: the requests and their flags, and the
\* text of every answer, on screen, stored, queued and pending (ChatInv).
THEOREM ChatInvCorrect == CSpec => []ChatInv
BY ChatInvInit, ChatInvNext, PTL DEF CSpec

\* Types, with the pending text and the stream source of the current generation.
THEOREM CTypeCorrect == CSpec => []CTypeOK
<1>1. ChatInv => CTypeOK BY DEF ChatInv
<1> QED BY <1>1, ChatInvCorrect, PTL

\* An answer on screen holds only what its own request said, in that order and each
\* letter once, without a hole unless the upstream stutters, and from the beginning
\* unless it was loaded, whatever was stopped, edited, regenerated, reloaded or
\* rendered meanwhile (use-chat-handler.ts).
THEOREM ShowsOwnTextCorrect == CSpec => []ShowsOwnText
<1>1. ChatInv => ShowsOwnText
  <2>1. SUFFICES ASSUME ChatInv, ~clobbered, NEW i \in DOMAIN msgs PROVE OwnText(msgs[i], said)
    BY DEF ShowsOwnText
  <2>2. Sound(msgs, said) BY <2>1 DEF ChatInv, TextInv
  <2> QED BY <2>2 DEF Sound
<1> QED BY <1>1, ChatInvCorrect, PTL

\* When nothing is under way no answer is left spinning, also after a reload.
THEOREM NothingStuckCorrect == CSpec => []NothingStuck
<1>1. ChatInv => NothingStuck
  <2>1. SUFFICES ASSUME ChatInv, ~clobbered, ~busy PROVE \A i \in DOMAIN msgs : ~IsPending(msgs[i])
    BY DEF NothingStuck
  <2>2. msgs \in Seq(Messages) /\ Settled(msgs) BY <2>1, Idle DEF ChatInv, CTypeOK
  <2> QED BY <2>2, SettledMeans
<1> QED BY <1>1, ChatInvCorrect, PTL

\* When [DONE] arrives, what is on screen and queued holds all that a stream without
\* stutter said.
THEOREM WholeWhenDoneCorrect == CSpec => WholeWhenDone
<1>1. ASSUME ChatInv, NEW c \in calls, StreamEnds(c, "complete"), ~clobbered, Exact(c.g)
      PROVE  Last(RunAll(queue', msgs, gen)).txt = said[c.g]
  <2>1. c.g = gen BY <1>1, StreamEndsKeeps
  <2>2. Last(Now').txt = said[gen] BY <1>1, <2>1, StreamEndsKeeps
  <2>3. msgs' = msgs /\ gen' = gen BY <1>1 DEF StreamEnds, Finish
  <2>4. Now' = RunAll(queue', msgs, gen) BY <2>3 DEF Now
  <2> QED BY <2>1, <2>2, <2>4
<1>2. ChatInv => [\A c \in calls : StreamEnds(c, "complete") /\ ~clobbered /\ Exact(c.g)
                    => Last(RunAll(queue', msgs, gen)).txt = said[c.g]]_cvars
  BY <1>1
<1> QED BY <1>2, ChatInvCorrect, PTL DEF WholeWhenDone
================================================================================
