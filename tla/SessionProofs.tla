--------------------------- MODULE SessionProofs ---------------------------
(* TLAPS proofs about a whole UCI session, for a pool of any size, any      *)
(* number of commands in any order, any limits, and any interleaving of the *)
(* reader, the main worker, the helpers and the clock.                      *)
(*                                                                          *)
(* What a driver does next depends on the whole script it executes, so the  *)
(* invariant speaks of what the driver knows: a record of the threads it    *)
(* has seen parked, those there are, the roots and networks they hold,      *)
(* whether the main worker may be searching, and what is due to the GUI.    *)
(* Carries says that a script may be executed from one such knowledge and   *)
(* ends with another; each sequence of steps of the model has a lemma of    *)
(* this form, built up by concatenation and, for the loops over the pool,   *)
(* by induction. IInv says that what each driver knows is so (Holds) and    *)
(* carries it through the rest of its script.                               *)
EXTENDS Session, WellFoundedInduction, SequenceTheorems, TLAPS

USE SessionAssumption, NoJobAssumption

(***************************************************************************)
(* Induction over the natural numbers, stated about a set.                 *)
(***************************************************************************)
LEMMA LeastNumber ==
  ASSUME NEW T \in SUBSET Nat, T # {}
  PROVE  \E n \in T : \A m \in T : n <= m
<1>1. IsWellFoundedOn(OpToRel(<, Nat), Nat)
  BY NatLessThanWellFounded
<1>2. PICK n \in T : \A m \in T : ~(<<m, n>> \in OpToRel(<, Nat))
  BY <1>1, WFMin
<1>3. ASSUME NEW m \in T PROVE n <= m
  <2>1. ~(<<m, n>> \in OpToRel(<, Nat))
    BY <1>2
  <2>2. ~(m < n)
    BY <2>1 DEF OpToRel
  <2> QED BY <2>2
<1> QED BY <1>3

(* A set of natural numbers with 0 and every successor is all of them.      *)
LEMMA Induction ==
  ASSUME NEW S \in SUBSET Nat, 0 \in S, \A n \in S : n + 1 \in S
  PROVE  S = Nat
<1> SUFFICES ASSUME Nat \ S # {} PROVE FALSE
  OBVIOUS
<1>1. PICK n \in Nat \ S : \A m \in Nat \ S : n <= m
  BY LeastNumber
<1>2. n # 0 /\ n - 1 \in Nat
  BY <1>1
<1>3. n - 1 \in S
  BY <1>1, <1>2
<1> QED BY <1>1, <1>2, <1>3

(***************************************************************************)
(* FlattenSeq, one sequence at a time.                                     *)
(***************************************************************************)
Unrolled(seqs, n, g) ==
  g = [i \in 1 .. n |-> IF i = 1 THEN seqs[i] ELSE g[i - 1] \o seqs[i]]

(* FlattenSeq is the last of the sequences it unrolls.                      *)
LEMMA FlattenIs ==
  ASSUME NEW seqs, Len(seqs) # 0
  PROVE  FlattenSeq(seqs) = (CHOOSE g : Unrolled(seqs, Len(seqs), g))[Len(seqs)]
  BY Zenon DEF FlattenSeq, Unrolled

(* Sequences of any length can be unrolled.                                 *)
LEMMA UnrolledExists ==
  ASSUME NEW seqs
  PROVE  \A n \in Nat : \E g : Unrolled(seqs, n, g)
<1> DEFINE S == {n \in Nat : \E g : Unrolled(seqs, n, g)}
<1>1. 0 \in S
  <2>1. Unrolled(seqs, 0, << >>)
    BY DEF Unrolled
  <2> QED BY <2>1
<1>2. ASSUME NEW n \in S PROVE n + 1 \in S
  <2>1. n \in Nat OBVIOUS
  <2>2. PICK g : Unrolled(seqs, n, g)
    OBVIOUS
  <2> DEFINE h == [i \in 1 .. n + 1 |-> IF i = 1 THEN seqs[i]
                                        ELSE IF i <= n THEN g[i] ELSE g[n] \o seqs[i]]
  <2>3. \A i \in 1 .. n : h[i] = g[i]
    BY <2>1, <2>2 DEF Unrolled
  <2>4. ASSUME NEW i \in 1 .. n + 1
        PROVE  h[i] = IF i = 1 THEN seqs[i] ELSE h[i - 1] \o seqs[i]
    <3>1. CASE i = 1
      BY <2>1, <3>1
    <3>2. CASE i # 1 /\ i <= n
      <4>1. i \in 1 .. n /\ i - 1 \in 1 .. n
        BY <2>1, <3>2
      <4>2. h[i] = g[i] /\ h[i - 1] = g[i - 1]
        BY <4>1, <2>3
      <4>3. g[i] = g[i - 1] \o seqs[i]
        BY <4>1, <3>2, <2>2 DEF Unrolled
      <4> QED BY <3>2, <4>2, <4>3
    <3>3. CASE i # 1 /\ ~(i <= n)
      <4>1. i = n + 1 /\ n \in 1 .. n
        BY <2>1, <3>3
      <4>2. h[n] = g[n]
        BY <4>1, <2>3
      <4>3. h[i] = g[n] \o seqs[i]
        BY <2>1, <3>3
      <4>4. i - 1 = n
        BY <4>1, <2>1
      <4> QED BY <3>3, <4>2, <4>3, <4>4
    <3> QED BY <3>1, <3>2, <3>3
  <2>5. Unrolled(seqs, n + 1, h)
    BY <2>1, <2>4 DEF Unrolled
  <2> QED BY <2>1, <2>5
<1> HIDE DEF S
<1>3. S \in SUBSET Nat
  BY DEF S
<1>4. S = Nat
  BY <1>1, <1>2, <1>3, Induction
<1> QED BY <1>4 DEF S

(* FlattenSeq concatenates one sequence after the other.                    *)
LEMMA FlattenUnrolls ==
  ASSUME NEW seqs, Len(seqs) \in Nat \ {0}
  PROVE  \E g : /\ g[1] = seqs[1]
                /\ \A i \in 2 .. Len(seqs) : g[i] = g[i - 1] \o seqs[i]
                /\ FlattenSeq(seqs) = g[Len(seqs)]
<1> DEFINE g == CHOOSE f : Unrolled(seqs, Len(seqs), f)
<1>1. Unrolled(seqs, Len(seqs), g)
  <2>1. \E f : Unrolled(seqs, Len(seqs), f)
    BY UnrolledExists
  <2> QED BY <2>1
<1>2. FlattenSeq(seqs) = g[Len(seqs)]
  BY FlattenIs
<1> HIDE DEF g
<1>3. \A i \in 1 .. Len(seqs) : g[i] = IF i = 1 THEN seqs[i] ELSE g[i - 1] \o seqs[i]
  BY <1>1 DEF Unrolled
<1>4. g[1] = seqs[1]
  BY <1>3
<1>5. ASSUME NEW i \in 2 .. Len(seqs) PROVE g[i] = g[i - 1] \o seqs[i]
  <2>1. i \in 1 .. Len(seqs) /\ i # 1
    OBVIOUS
  <2> QED BY <1>3, <2>1
<1> QED BY <1>2, <1>4, <1>5

(***************************************************************************)
(* What a driver knows of the pool while it executes its script.           *)
(***************************************************************************)
Due == {"no", "held", "free"}

Knowledge == [parked : SUBSET Threads,    \* threads it knows to be parked
              there : SUBSET Threads,     \* threads there are
              size : Int,
              current : SUBSET Threads,   \* threads that hold the current root
              resident : SUBSET Threads,  \* those whose network is resident
              dangling : SUBSET Threads,  \* those whose network was destroyed
              leaving : SUBSET Threads,   \* threads told to exit
              searching : BOOLEAN,        \* the main worker may be searching
              due : Due]                  \* what is due to the GUI: nothing, an answer it may
                                          \* hold back, an answer that may be given

(* The steps that need every thread parked.                                 *)
Guarded == Writes \cup {"arm", "setRoot", "replaceNet", "rehand", "exit"}

Ops == ThreadOps \cup Guarded
         \cup {"stop", "newSearch", "iterate", "spin", "halt", "vote", "bestmove"}
Steps == [op : Ops, th : Threads, job : Jobs \cup {NoJob}]

(* What it knows after a step x, one piece of knowledge at a time.          *)
Learn(a, x) ==
  [parked |-> IF x.op \in {"wait", "join"} THEN a.parked \cup {x.th}
              ELSE IF x.op \in {"put", "start"} THEN a.parked \ {x.th} ELSE a.parked,
   there |-> IF x.op = "start" THEN a.there \cup {x.th}
             ELSE IF x.op = "join" THEN a.there \ {x.th} ELSE a.there,
   size |-> IF x.op = "start" THEN a.size + 1
            ELSE IF x.op = "join" THEN a.size - 1 ELSE a.size,
   current |-> IF x.op = "arm" THEN {}
               ELSE IF x.op = "setRoot" THEN a.current \cup {x.th}
               ELSE IF x.op = "join" THEN a.current \ {x.th} ELSE a.current,
   resident |-> IF x.op = "replaceNet" THEN {}
                ELSE IF x.op = "rehand" THEN {th \in Threads : th < a.size}
                ELSE IF x.op = "join" THEN a.resident \ {x.th} ELSE a.resident,
   dangling |-> IF x.op = "replaceNet" THEN a.dangling \cup a.resident
                ELSE IF x.op = "rehand" THEN {}
                ELSE IF x.op = "join" THEN a.dangling \ {x.th} ELSE a.dangling,
   leaving |-> IF x.op = "exit" THEN a.leaving \cup {x.th}
               ELSE IF x.op = "join" THEN a.leaving \ {x.th} ELSE a.leaving,
   searching |-> IF x.op = "put" THEN x.th = Main /\ x.job = "search" /\ Main \notin a.leaving
                 ELSE IF x.op = "wait" /\ x.th = Main THEN FALSE ELSE a.searching,
   due |-> IF x.op = "arm" THEN "held"
           ELSE IF x.op = "put" /\ x.job = "search" /\ x.th = Main /\ Main \notin a.leaving
                THEN "no"
           ELSE IF x.op = "spin" THEN "free"
           ELSE IF x.op = "bestmove" THEN "no" ELSE a.due]

(* When the reader, and when the main worker, may take a step.              *)
ReaderMay(a, x) ==
  /\ x.op \in Guarded => a.parked = Threads
  /\ x.op = "arm" => a.due = "no"
  /\ a.searching => x.op = "stop" \/ (x.op \in {"wait", "notify"} /\ x.th = Main)
  /\ x.op = "put" /\ x.job = "search" /\ x.th \notin a.leaving =>
       /\ x.th = Main
       /\ a.due = "held"
       /\ a.parked = Threads
       /\ a.leaving = {}
       /\ a.size \in 1 .. MaxThreads
       /\ a.there = 0 .. a.size - 1
       /\ a.there \subseteq a.current \cap a.resident
  /\ x.op = "put" /\ x.job = "clear" => x.th \notin a.dangling

MainMay(a, x) ==
  /\ x.op \in ThreadOps => x.op \in {"wait", "put", "notify"} /\ x.th \in 1 .. a.size - 1
  /\ x.op = "put" => x.job = "search"
  /\ x.op = "vote" => Helpers \subseteq a.parked
  /\ x.op = "spin" => a.due # "no"
  /\ x.op \in {"halt", "bestmove"} => a.due = "free"

May(d, a, x) == IF d = "reader" THEN ReaderMay(a, x) ELSE MainMay(a, x)

(* Script s may be executed by driver d from knowledge a, and ends with     *)
(* knowledge b.                                                             *)
Carries(d, a, s, b) ==
  /\ s \in Seq(Steps)
  /\ \E tr \in [0 .. Len(s) -> Knowledge] :
       /\ tr[0] = a
       /\ tr[Len(s)] = b
       /\ \A k \in 1 .. Len(s) : May(d, tr[k - 1], s[k]) /\ tr[k] = Learn(tr[k - 1], s[k])

(* What is learnt from a step is knowledge.                                 *)
LEMMA LearnType ==
  ASSUME NEW a \in Knowledge, NEW x \in Steps
  PROVE  Learn(a, x) \in Knowledge
<1> DEFINE b == Learn(a, x)
<1>1. /\ x.th \in Threads /\ a.searching \in BOOLEAN /\ a.size \in Int
      /\ \A f \in {a.parked, a.there, a.current, a.resident, a.dangling, a.leaving} :
            f \in SUBSET Threads
  BY DEF Knowledge, Steps
<1>2. b.parked \in SUBSET Threads /\ b.there \in SUBSET Threads
  BY <1>1 DEF Learn
<1>3. b.current \in SUBSET Threads /\ b.resident \in SUBSET Threads
  BY <1>1 DEF Learn
<1>4. b.dangling \in SUBSET Threads /\ b.leaving \in SUBSET Threads
  BY <1>1 DEF Learn
<1>5. b.size \in Int
  BY <1>1 DEF Learn
<1>8. b.searching \in BOOLEAN
  <2>1. CASE x.op = "put"
    BY <2>1 DEF Learn
  <2>2. CASE x.op # "put"
    BY <1>1, <2>2 DEF Learn
  <2> QED BY <2>1, <2>2
<1>9. b.due \in Due
  <2>1. a.due \in Due /\ {"no", "held", "free"} \subseteq Due
    BY DEF Knowledge, Due
  <2> QED BY <2>1 DEF Learn
<1>6. b = [parked |-> b.parked, there |-> b.there, size |-> b.size, current |-> b.current,
           resident |-> b.resident, dangling |-> b.dangling, leaving |-> b.leaving,
           searching |-> b.searching, due |-> b.due]
  BY DEF Learn
<1> HIDE DEF b
<1>7. b \in Knowledge
  BY <1>2, <1>3, <1>4, <1>5, <1>6, <1>8, <1>9 DEF Knowledge
<1> QED BY <1>7 DEF b

(* The empty script teaches nothing.                                        *)
LEMMA CarriesNothing ==
  ASSUME NEW d, NEW a \in Knowledge
  PROVE  Carries(d, a, << >>, a)
<1> DEFINE tr == [k \in 0 .. 0 |-> a]
<1>1. tr \in [0 .. Len(<< >>) -> Knowledge]
  OBVIOUS
<1>2. tr[0] = a /\ tr[Len(<< >>)] = a /\ 1 .. Len(<< >>) = {}
  OBVIOUS
<1>3. << >> \in Seq(Steps)
  OBVIOUS
<1> HIDE DEF tr
<1> QED BY <1>1, <1>2, <1>3 DEF Carries

(* Nothing is learnt when nothing is left to do.                            *)
LEMMA CarriesEnd ==
  ASSUME NEW d, NEW a, NEW b, Carries(d, a, << >>, b)
  PROVE  a = b /\ a \in Knowledge
  BY DEF Carries

(* A script starts and ends with knowledge and consists of steps.           *)
LEMMA CarriesFrom ==
  ASSUME NEW d, NEW a, NEW b, NEW s, Carries(d, a, s, b)
  PROVE  a \in Knowledge /\ b \in Knowledge /\ s \in Seq(Steps)
  BY DEF Carries

(* A script of one step.                                                    *)
LEMMA CarriesOne ==
  ASSUME NEW d, NEW a \in Knowledge, NEW x \in Steps, May(d, a, x)
  PROVE  Carries(d, a, <<x>>, Learn(a, x))
<1> DEFINE tr == [k \in 0 .. 1 |-> IF k = 0 THEN a ELSE Learn(a, x)]
<1>1. Len(<<x>>) = 1 /\ <<x>> \in Seq(Steps) /\ <<x>>[1] = x
  OBVIOUS
<1>2. tr \in [0 .. 1 -> Knowledge] /\ tr[0] = a /\ tr[1] = Learn(a, x)
  BY LearnType
<1>3. \A k \in 1 .. 1 : k = 1 /\ k - 1 = 0
  OBVIOUS
<1> HIDE DEF tr
<1> QED BY <1>1, <1>2, <1>3 DEF Carries

(* One script after the other.                                              *)
LEMMA CarriesBoth ==
  ASSUME NEW d, NEW a, NEW b, NEW c, NEW s, NEW t,
         Carries(d, a, s, b), Carries(d, b, t, c)
  PROVE  Carries(d, a, s \o t, c)
<1>1. s \in Seq(Steps) /\ t \in Seq(Steps)
  BY DEF Carries
<1> DEFINE m == Len(s)
<1> DEFINE n == Len(t)
<1>2. m \in Nat /\ n \in Nat
  BY <1>1
<1>3. /\ s \o t \in Seq(Steps)
      /\ Len(s \o t) = m + n
      /\ \A k \in 1 .. m + n : (s \o t)[k] = IF k <= m THEN s[k] ELSE t[k - m]
  BY <1>1, ConcatProperties
<1>4. PICK f \in [0 .. m -> Knowledge] :
        /\ f[0] = a
        /\ f[m] = b
        /\ \A k \in 1 .. m : May(d, f[k - 1], s[k]) /\ f[k] = Learn(f[k - 1], s[k])
  BY DEF Carries
<1>5. PICK g \in [0 .. n -> Knowledge] :
        /\ g[0] = b
        /\ g[n] = c
        /\ \A k \in 1 .. n : May(d, g[k - 1], t[k]) /\ g[k] = Learn(g[k - 1], t[k])
  BY DEF Carries
<1> DEFINE h == [k \in 0 .. m + n |-> IF k <= m THEN f[k] ELSE g[k - m]]
<1> DEFINE st == s \o t
<1> HIDE DEF m, n, st
<1>9. \A k \in 0 .. m + n : h[k] = IF k <= m THEN f[k] ELSE g[k - m]
  OBVIOUS
<1>6. h \in [0 .. m + n -> Knowledge]
  BY <1>2
<1>7. h[0] = a /\ h[m + n] = c
  <2>1. h[0] = f[0]
    BY <1>2
  <2>2. CASE n = 0
    BY <1>2, <2>2, <1>4, <1>5, <2>1
  <2>3. CASE n # 0
    BY <1>2, <2>3, <1>4, <1>5, <2>1
  <2> QED BY <2>2, <2>3
<1>8. ASSUME NEW k \in 1 .. m + n
      PROVE  May(d, h[k - 1], st[k]) /\ h[k] = Learn(h[k - 1], st[k])
  <2> HIDE DEF h
  <2>4. st[k] = IF k <= m THEN s[k] ELSE t[k - m]
    BY <1>3 DEF st
  <2>0. k \in Int /\ k - 1 \in 0 .. m + n /\ k \in 0 .. m + n
    BY <1>2
  <2>1. CASE k <= m
    <3>1. k - 1 <= m /\ k \in 1 .. m
      BY <1>2, <2>0, <2>1
    <3>2. h[k] = f[k] /\ h[k - 1] = f[k - 1] /\ st[k] = s[k]
      BY <1>9, <2>4, <2>0, <2>1, <3>1
    <3> QED BY <3>1, <3>2, <1>4
  <2>2. CASE k = m + 1
    <3>1. ~(k <= m) /\ k - 1 = m /\ k - m = 1 /\ 1 \in 1 .. n /\ m <= m /\ 1 - 1 = 0
      BY <1>2, <2>0, <2>2
    <3>2. h[k] = g[1] /\ h[k - 1] = f[m] /\ st[k] = t[1]
      BY <1>9, <2>4, <2>0, <3>1
    <3>3. May(d, g[0], t[1]) /\ g[1] = Learn(g[0], t[1])
      BY <3>1, <1>5
    <3> QED BY <3>2, <3>3, <1>4, <1>5
  <2>3. CASE k > m + 1
    <3>1. PICK j \in Int : j = k - m
      BY <1>2, <2>0
    <3>2. ~(k <= m) /\ ~(k - 1 <= m) /\ (k - 1) - m = j - 1 /\ j \in 1 .. n
      BY <1>2, <2>0, <2>3, <3>1
    <3>3. h[k] = g[j] /\ h[k - 1] = g[j - 1] /\ st[k] = t[j]
      BY <1>9, <2>4, <2>0, <3>1, <3>2
    <3> QED BY <3>2, <3>3, <1>5
  <2> QED BY <2>0, <1>2, <2>1, <2>2, <2>3
<1> HIDE DEF h
<1> QED BY <1>3, <1>6, <1>7, <1>8 DEF Carries, st

(* The first step of a script may be taken, and the rest is carried from    *)
(* what it teaches.                                                         *)
LEMMA CarriesRest ==
  ASSUME NEW d, NEW a, NEW b, NEW s, s # << >>, Carries(d, a, s, b)
  PROVE  /\ Head(s) \in Steps
         /\ May(d, a, Head(s))
         /\ Carries(d, Learn(a, Head(s)), Tail(s), b)
<1>1. s \in Seq(Steps)
  BY DEF Carries
<1> DEFINE n == Len(s)
<1>2. n \in Nat \ {0} /\ Head(s) = s[1] /\ s[1] \in Steps
  BY <1>1
<1>3. /\ Tail(s) \in Seq(Steps)
      /\ Len(Tail(s)) = n - 1
      /\ \A k \in 1 .. n - 1 : Tail(s)[k] = s[k + 1]
  BY <1>1, HeadTailProperties
<1>4. PICK f \in [0 .. n -> Knowledge] :
        /\ f[0] = a
        /\ f[n] = b
        /\ \A k \in 1 .. n : May(d, f[k - 1], s[k]) /\ f[k] = Learn(f[k - 1], s[k])
  BY DEF Carries
<1> HIDE DEF n
<1>5. May(d, f[0], s[1]) /\ f[1] = Learn(f[0], s[1])
  <2>1. 1 \in 1 .. n /\ 1 - 1 = 0
    BY <1>2
  <2> QED BY <1>4, <2>1
<1> DEFINE g == [k \in 0 .. n - 1 |-> f[k + 1]]
<1>6. g \in [0 .. n - 1 -> Knowledge]
  BY <1>2
<1>7. g[0] = f[1] /\ g[n - 1] = b
  BY <1>2, <1>4
<1>8. ASSUME NEW k \in 1 .. n - 1
      PROVE  May(d, g[k - 1], Tail(s)[k]) /\ g[k] = Learn(g[k - 1], Tail(s)[k])
  <2>1. g[k] = f[k + 1] /\ g[k - 1] = f[k] /\ Tail(s)[k] = s[k + 1]
    BY <1>2, <1>3
  <2>2. k + 1 \in 1 .. n /\ (k + 1) - 1 = k
    BY <1>2
  <2>3. May(d, f[k], s[k + 1]) /\ f[k + 1] = Learn(f[k], s[k + 1])
    BY <2>2, <1>4
  <2> QED BY <2>1, <2>3
<1> HIDE DEF g
<1> QED BY <1>2, <1>3, <1>4, <1>5, <1>6, <1>7, <1>8 DEF Carries

(* A loop: knowledge f[i] after i rounds.                                   *)
LEMMA CarriesLoop ==
  ASSUME NEW d, NEW n \in Nat, NEW seqs, NEW f,
         seqs = [i \in 1 .. n |-> seqs[i]],
         f[0] \in Knowledge,
         \A i \in 1 .. n : Carries(d, f[i - 1], seqs[i], f[i])
  PROVE  Carries(d, f[0], FlattenSeq(seqs), f[n])
<1>0. seqs \in [1 .. n -> Seq(Steps)]
  BY CarriesFrom
<1>1. Len(seqs) = n
  BY <1>0
<1>2. CASE n = 0
  <2>1. seqs = << >>
    BY <1>0, <1>2
  <2>2. FlattenSeq(seqs) = << >>
    BY <2>1 DEF FlattenSeq
  <2> QED BY <1>2, <2>2, CarriesNothing
<1>3. CASE n # 0
  <2>1. PICK g : /\ g[1] = seqs[1]
                 /\ \A i \in 2 .. n : g[i] = g[i - 1] \o seqs[i]
                 /\ FlattenSeq(seqs) = g[n]
    BY <1>1, <1>3, FlattenUnrolls
  <2> DEFINE S == {i \in Nat : i + 1 <= n => Carries(d, f[0], g[i + 1], f[i + 1])}
  <2>2. 0 \in S
    <3>1. 1 \in 1 .. n /\ 1 - 1 = 0 /\ 0 + 1 = 1
      BY <1>3
    <3>2. Carries(d, f[0], seqs[1], f[1])
      BY <3>1
    <3> QED BY <2>1, <3>1, <3>2
  <2>3. ASSUME NEW i \in S PROVE i + 1 \in S
    <3>1. i \in Nat /\ i + 1 \in Nat
      OBVIOUS
    <3>2. SUFFICES ASSUME i + 2 <= n PROVE Carries(d, f[0], g[i + 2], f[i + 2])
      BY <3>1
    <3>3. Carries(d, f[0], g[i + 1], f[i + 1])
      BY <3>1, <3>2
    <3>4. i + 2 \in 2 .. n /\ i + 2 \in 1 .. n /\ (i + 2) - 1 = i + 1
      BY <3>1, <3>2
    <3>5. g[i + 2] = g[i + 1] \o seqs[i + 2]
      BY <3>4, <2>1
    <3>6. Carries(d, f[i + 1], seqs[i + 2], f[i + 2])
      BY <3>4
    <3> QED BY <3>3, <3>5, <3>6, CarriesBoth
  <2>4. S \in SUBSET Nat
    OBVIOUS
  <2> HIDE DEF S
  <2>5. S = Nat
    BY <2>2, <2>3, <2>4, Induction
  <2>6. n - 1 \in S /\ (n - 1) + 1 = n
    BY <1>3, <2>5
  <2>7. Carries(d, f[0], g[n], f[n])
    BY <2>6 DEF S
  <2> QED BY <2>1, <2>7
<1> QED BY <1>2, <1>3

(***************************************************************************)
(* The primitive steps of the reader.                                      *)
(***************************************************************************)
Know(p, t, n, c, r, g, l, s, u) ==
  [parked |-> p, there |-> t, size |-> n, current |-> c, resident |-> r, dangling |-> g,
   leaving |-> l, searching |-> s, due |-> u]

(* Know builds knowledge.                                                   *)
LEMMA KnowType ==
  ASSUME NEW p \in SUBSET Threads, NEW t \in SUBSET Threads, NEW n \in Int,
         NEW c \in SUBSET Threads, NEW r \in SUBSET Threads, NEW g \in SUBSET Threads,
         NEW l \in SUBSET Threads, NEW s \in BOOLEAN, NEW u \in Due
  PROVE  Know(p, t, n, c, r, g, l, s, u) \in Knowledge
  BY DEF Know, Knowledge

(* Knowledge is its fields.                                                 *)
LEMMA KnowIs ==
  ASSUME NEW a \in Knowledge
  PROVE  a = Know(a.parked, a.there, a.size, a.current, a.resident, a.dangling, a.leaving,
                  a.searching, a.due)
  BY DEF Know, Knowledge

(* The steps from which nothing is learnt.                                  *)
LEMMA LearnsNothing ==
  ASSUME NEW a \in Knowledge, NEW x,
         x.op \notin {"wait", "put", "start", "join", "exit", "arm", "setRoot", "replaceNet",
                      "rehand", "spin", "bestmove"}
  PROVE  Learn(a, x) = a
<1>1. Learn(a, x) = Know(a.parked, a.there, a.size, a.current, a.resident, a.dangling,
                         a.leaving, a.searching, a.due)
  BY DEF Learn, Know
<1> QED BY <1>1, KnowIs

(* The pool has a main thread.                                              *)
LEMMA MainIsAThread == Main \in Threads /\ MaxThreads \in Nat \ {0}
  BY DEF Main

Op(op, th, f) == [op |-> op, th |-> th, job |-> f]

(* The fields of a step.                                                    *)
LEMMA OpIs ==
  ASSUME NEW op \in Ops, NEW th \in Threads, NEW f \in Jobs \cup {NoJob}
  PROVE  /\ Op(op, th, f) \in Steps
         /\ Op(op, th, f).op = op
         /\ Op(op, th, f).th = th
         /\ Op(op, th, f).job = f
  BY DEF Steps, Op

(* The guarded steps are steps.                                             *)
LEMMA GuardedAreOps ==
  /\ "arm" \in Ops /\ "setRoot" \in Ops
  /\ "replaceNet" \in Ops /\ "rehand" \in Ops
<1>1. \A op \in {"arm", "setRoot", "replaceNet", "rehand"} : op \in Guarded
  BY DEF Guarded
<1>2. Guarded \subseteq Ops
  BY DEF Ops
<1> QED BY <1>1, <1>2

(* Writing what a search reads.                                             *)
LEMMA WriteCarries ==
  ASSUME NEW a \in Knowledge, a.parked = Threads, ~a.searching,
         NEW op \in Writes
  PROVE  Carries("reader", a, Do(op), a)
<1> DEFINE x == Op(op, Main, NoJob)
<1>1. x \in Steps /\ x.op = op
  BY OpIs, MainIsAThread DEF Ops, Guarded
<1>2. May("reader", a, x)
  BY <1>1 DEF May, ReaderMay, Writes
<1>3. Learn(a, x) = a
  BY <1>1, LearnsNothing DEF Writes
<1>4. Do(op) = <<x>>
  BY DEF Do, Op
<1> HIDE DEF x
<1> QED BY <1>1, <1>2, <1>3, <1>4, CarriesOne

(* The reader may always raise stop.                                        *)
LEMMA StopCarries ==
  ASSUME NEW a \in Knowledge
  PROVE  Carries("reader", a, Do("stop"), a)
<1> DEFINE x == Op("stop", Main, NoJob)
<1>1. x \in Steps /\ x.op = "stop"
  BY OpIs, MainIsAThread DEF Ops, ThreadOps
<1>2. May("reader", a, x)
  BY <1>1 DEF May, ReaderMay, Guarded, Writes
<1>3. Learn(a, x) = a
  BY <1>1, LearnsNothing
<1>4. Do("stop") = <<x>>
  BY DEF Do, Op
<1> HIDE DEF x
<1> QED BY <1>1, <1>2, <1>3, <1>4, CarriesOne

(* wait_for_search_finished.                                                *)
LEMMA WaitMainCarries ==
  ASSUME NEW a \in Knowledge
  PROVE  Carries("reader", a, WaitMain,
                 Know(a.parked \cup {Main}, a.there, a.size, a.current, a.resident,
                      a.dangling, a.leaving, FALSE, a.due))
<1> DEFINE x == Op("wait", Main, NoJob)
<1>1. x \in Steps /\ x.op = "wait" /\ x.th = Main
  BY OpIs, MainIsAThread DEF Ops, ThreadOps
<1>2. May("reader", a, x)
  BY <1>1 DEF May, ReaderMay, Guarded, Writes
<1>3. Learn(a, x) = Know(a.parked \cup {Main}, a.there, a.size, a.current, a.resident,
                         a.dangling, a.leaving, FALSE, a.due)
  BY <1>1 DEF Learn, Know
<1>4. WaitMain = <<x>>
  BY DEF WaitMain, WaitFor, On, Op
<1> HIDE DEF x
<1> QED BY <1>1, <1>2, <1>3, <1>4, CarriesOne

(* Waiting again for a search that has ended teaches nothing.               *)
LEMMA WaitMainAgain ==
  ASSUME NEW a \in Knowledge, a.parked = Threads, ~a.searching
  PROVE  Carries("reader", a, WaitMain, a)
<1>1. a.parked \cup {Main} = a.parked /\ a.searching = FALSE
  BY MainIsAThread DEF Knowledge
<1>2. a = Know(a.parked \cup {Main}, a.there, a.size, a.current, a.resident, a.dangling,
               a.leaving, FALSE, a.due)
  BY <1>1, KnowIs
<1> QED BY <1>2, WaitMainCarries

(* Waiting for a thread shows that it is parked.                            *)
LEMMA WaitCarries ==
  ASSUME NEW a \in Knowledge, ~a.searching, NEW th \in Threads
  PROVE  Carries("reader", a, WaitFor(th),
                 Know(a.parked \cup {th}, a.there, a.size, a.current, a.resident,
                      a.dangling, a.leaving, FALSE, a.due))
<1> DEFINE x == Op("wait", th, NoJob)
<1>1. x \in Steps /\ x.op = "wait" /\ x.th = th
  BY OpIs DEF Ops, ThreadOps
<1>2. May("reader", a, x)
  BY <1>1 DEF May, ReaderMay, Guarded, Writes
<1>3. Learn(a, x) = Know(a.parked \cup {th}, a.there, a.size, a.current, a.resident,
                         a.dangling, a.leaving, FALSE, a.due)
  <2>1. a.searching = FALSE
    BY DEF Knowledge
  <2> QED BY <1>1, <2>1 DEF Learn, Know
<1>4. WaitFor(th) = <<x>>
  BY DEF WaitFor, On, Op
<1> HIDE DEF x
<1> QED BY <1>1, <1>2, <1>3, <1>4, CarriesOne

(* A job that is not a search, or the one a leaving thread never runs.      *)
LEMMA RunCarries ==
  ASSUME NEW a \in Knowledge, ~a.searching, NEW th \in Threads, NEW f \in Jobs,
         f = "search" => th \in a.leaving,
         f = "clear" => th \notin a.dangling
  PROVE  Carries("reader", a, Run(th, f),
                 Know(a.parked \ {th}, a.there, a.size, a.current, a.resident,
                      a.dangling, a.leaving, FALSE, a.due))
<1> DEFINE x == Op("put", th, f)
<1> DEFINE y == Op("notify", th, NoJob)
<1> DEFINE b == Know(a.parked \ {th}, a.there, a.size, a.current, a.resident,
                     a.dangling, a.leaving, FALSE, a.due)
<1>1. x \in Steps /\ x.op = "put" /\ x.th = th /\ x.job = f
  BY OpIs DEF Ops, ThreadOps
<1>2. y \in Steps /\ y.op = "notify"
  BY OpIs DEF Ops, ThreadOps
<1>3. Run(th, f) = <<x>> \o <<y>>
  BY DEF Run, Op
<1> HIDE DEF x, y
<1>4. May("reader", a, x)
  BY <1>1 DEF May, ReaderMay, Guarded, Writes
<1>5. Learn(a, x) = b
  BY <1>1 DEF Learn, Know
<1>6. b \in Knowledge /\ b.searching = FALSE
  BY LearnType, <1>1, <1>5 DEF Know
<1> HIDE DEF b
<1>7. Carries("reader", a, <<x>>, b)
  BY <1>1, <1>4, <1>5, CarriesOne
<1>8. May("reader", b, y)
  BY <1>2, <1>6 DEF May, ReaderMay, Guarded, Writes
<1>9. Learn(b, y) = b
  BY <1>2, <1>6, LearnsNothing
<1>10. Carries("reader", b, <<y>>, b)
  BY <1>2, <1>6, <1>8, <1>9, CarriesOne
<1>11. Carries("reader", a, Run(th, f), b)
  BY <1>3, <1>7, <1>10, CarriesBoth
<1> QED BY <1>11 DEF b

(* ~Thread.                                                                 *)
LEMMA DestroyCarries ==
  ASSUME NEW a \in Knowledge, a.parked = Threads, ~a.searching, a.leaving = {},
         NEW th \in Threads
  PROVE  Carries("reader", a, DestroyThread(th),
                 Know(Threads, a.there \ {th}, a.size - 1, a.current \ {th},
                      a.resident \ {th}, a.dangling \ {th}, {}, FALSE, a.due))
<1> DEFINE x == Op("exit", th, NoJob)
<1> DEFINE y == Op("join", th, NoJob)
<1> DEFINE b == Know(Threads, a.there, a.size, a.current, a.resident, a.dangling, {th}, FALSE,
                     a.due)
<1> DEFINE c == Know(Threads \ {th}, a.there, a.size, a.current, a.resident, a.dangling,
                     {th}, FALSE, a.due)
<1> DEFINE e == Know(Threads, a.there \ {th}, a.size - 1, a.current \ {th},
                     a.resident \ {th}, a.dangling \ {th}, {}, FALSE, a.due)
<1>1. x \in Steps /\ x.op = "exit" /\ x.th = th
  BY OpIs DEF Ops, ThreadOps
<1>2. y \in Steps /\ y.op = "join" /\ y.th = th
  BY OpIs DEF Ops, ThreadOps
<1>3. DestroyThread(th) = (<<x>> \o Run(th, "search")) \o <<y>>
  BY DEF DestroyThread, On, Op
<1> HIDE DEF x, y
<1>4. a.searching = FALSE
  BY DEF Knowledge
<1>5. Carries("reader", a, <<x>>, b)
  <2>1. May("reader", a, x)
    BY <1>1, <1>4 DEF May, ReaderMay
  <2>2. Learn(a, x) = b
    BY <1>1, <1>4 DEF Learn, Know
  <2> QED BY <1>1, <2>1, <2>2, CarriesOne
<1>6. Carries("reader", b, Run(th, "search"), c)
  <2>1. b \in Knowledge
    BY <1>5, CarriesFrom
  <2>2. /\ ~b.searching /\ th \in b.leaving
        /\ c = Know(b.parked \ {th}, b.there, b.size, b.current, b.resident,
                    b.dangling, b.leaving, FALSE, b.due)
    BY DEF Know
  <2> HIDE DEF b, c
  <2> QED BY <2>1, <2>2, RunCarries
<1>7. Carries("reader", c, <<y>>, e)
  <2>1. c \in Knowledge
    BY <1>6, CarriesFrom
  <2>2. May("reader", c, y)
    BY <1>2 DEF May, ReaderMay, Guarded, Writes, Know
  <2>3. (Threads \ {th}) \cup {th} = Threads /\ {th} \ {th} = {}
    OBVIOUS
  <2>4. Learn(c, y) = e
    BY <1>2, <2>3 DEF Learn, Know
  <2> QED BY <1>2, <2>1, <2>2, <2>4, CarriesOne
<1>8. Carries("reader", a, DestroyThread(th), e)
  <2> HIDE DEF b, c, e
  <2> QED BY <1>3, <1>5, <1>6, <1>7, CarriesBoth
<1> QED BY <1>8

(* Thread::Thread.                                                          *)
LEMMA BuildCarries ==
  ASSUME NEW a \in Knowledge, a.parked = Threads, ~a.searching, NEW th \in Threads
  PROVE  Carries("reader", a, BuildThread(th),
                 Know(Threads, a.there \cup {th}, a.size + 1, a.current, a.resident,
                      a.dangling, a.leaving, FALSE, a.due))
<1> DEFINE x == Op("start", th, NoJob)
<1> DEFINE S(p) == Know(p, a.there \cup {th}, a.size + 1, a.current, a.resident, a.dangling,
                        a.leaving, FALSE, a.due)
<1>1. x \in Steps /\ x.op = "start" /\ x.th = th
  <2>1. "start" \in Ops /\ NoJob \in Jobs \cup {NoJob}
    BY DEF Ops, ThreadOps
  <2> HIDE DEF S
  <2> QED BY <2>1, OpIs
<1>2. BuildThread(th) = ((<<x>> \o WaitFor(th)) \o Run(th, "build")) \o WaitFor(th)
  BY DEF BuildThread, On, Op
<1> HIDE DEF x
<1>3. a.searching = FALSE
  BY DEF Knowledge
<1>4. Carries("reader", a, <<x>>, S(Threads \ {th}))
  <2>1. May("reader", a, x)
    BY <1>1, <1>3 DEF May, ReaderMay, Guarded, Writes
  <2>2. Learn(a, x) = S(Threads \ {th})
    BY <1>1, <1>3 DEF Learn, Know
  <2> QED BY <1>1, <2>1, <2>2, CarriesOne
<1>5. S(Threads \ {th}) \in Knowledge
  BY <1>4, CarriesFrom
<1>6. (Threads \ {th}) \cup {th} = Threads
  OBVIOUS
<1>7. Carries("reader", S(Threads \ {th}), WaitFor(th), S(Threads))
  <2> DEFINE b == S(Threads \ {th})
  <2>1. /\ ~b.searching
        /\ S(Threads) = Know(b.parked \cup {th}, b.there, b.size, b.current, b.resident,
                             b.dangling, b.leaving, FALSE, b.due)
    BY <1>6 DEF Know
  <2> HIDE DEF b
  <2>2. Carries("reader", b, WaitFor(th), S(Threads))
    BY <1>5, <2>1, WaitCarries DEF b
  <2> QED BY <2>2 DEF b
<1>8. Carries("reader", S(Threads), Run(th, "build"), S(Threads \ {th}))
  <2> DEFINE b == S(Threads)
  <2>1. /\ ~b.searching
        /\ S(Threads \ {th}) = Know(b.parked \ {th}, b.there, b.size, b.current, b.resident,
                                    b.dangling, b.leaving, FALSE, b.due)
    BY DEF Know
  <2>2. b \in Knowledge
    BY <1>7, CarriesFrom
  <2> HIDE DEF b
  <2>3. Carries("reader", b, Run(th, "build"), S(Threads \ {th}))
    BY <2>1, <2>2, RunCarries
  <2> QED BY <2>3 DEF b
<1> HIDE DEF S
<1>9. Carries("reader", a, <<x>> \o WaitFor(th), S(Threads))
  BY <1>4, <1>7, CarriesBoth
<1>10. Carries("reader", a, (<<x>> \o WaitFor(th)) \o Run(th, "build"), S(Threads \ {th}))
  BY <1>8, <1>9, CarriesBoth
<1>11. Carries("reader", a, ((<<x>> \o WaitFor(th)) \o Run(th, "build")) \o WaitFor(th),
               S(Threads))
  BY <1>7, <1>10, CarriesBoth
<1> QED BY <1>2, <1>11 DEF S

(* A parked worker is given the root.                                       *)
LEMMA SetRootCarries ==
  ASSUME NEW a \in Knowledge, a.parked = Threads, ~a.searching, NEW th \in Threads
  PROVE  Carries("reader", a, On("setRoot", th),
                 Know(Threads, a.there, a.size, a.current \cup {th}, a.resident,
                      a.dangling, a.leaving, FALSE, a.due))
<1> DEFINE x == Op("setRoot", th, NoJob)
<1>1. x \in Steps /\ x.op = "setRoot" /\ x.th = th
  BY OpIs, GuardedAreOps
<1>2. a.searching = FALSE
  BY DEF Knowledge
<1>3. On("setRoot", th) = <<x>>
  BY DEF On, Op
<1> HIDE DEF x
<1>4. May("reader", a, x)
  BY <1>1, <1>2 DEF May, ReaderMay
<1>5. Learn(a, x) = Know(Threads, a.there, a.size, a.current \cup {th}, a.resident,
                         a.dangling, a.leaving, FALSE, a.due)
  BY <1>1, <1>2 DEF Learn, Know
<1> QED BY <1>1, <1>3, <1>4, <1>5, CarriesOne

(* A search is accepted when no answer is due; then one is.                 *)
LEMMA ArmCarries ==
  ASSUME NEW a \in Knowledge, a.parked = Threads, ~a.searching, a.due = "no"
  PROVE  Carries("reader", a, Do("arm"),
                 Know(Threads, a.there, a.size, {}, a.resident, a.dangling, a.leaving, FALSE,
                      "held"))
<1> DEFINE x == Op("arm", Main, NoJob)
<1>1. x \in Steps /\ x.op = "arm"
  BY OpIs, GuardedAreOps, MainIsAThread
<1>2. a.searching = FALSE
  BY DEF Knowledge
<1>3. Do("arm") = <<x>>
  BY DEF Do, Op
<1> HIDE DEF x
<1>4. May("reader", a, x)
  BY <1>1, <1>2 DEF May, ReaderMay
<1>5. Learn(a, x) = Know(Threads, a.there, a.size, {}, a.resident, a.dangling, a.leaving, FALSE,
                         "held")
  BY <1>1, <1>2 DEF Learn, Know
<1> QED BY <1>1, <1>3, <1>4, <1>5, CarriesOne

(* Every replica is destroyed.                                              *)
LEMMA ReplaceNetCarries ==
  ASSUME NEW a \in Knowledge, a.parked = Threads, ~a.searching
  PROVE  Carries("reader", a, Do("replaceNet"),
                 Know(Threads, a.there, a.size, a.current, {}, a.dangling \cup a.resident,
                      a.leaving, FALSE, a.due))
<1> DEFINE x == Op("replaceNet", Main, NoJob)
<1>1. x \in Steps /\ x.op = "replaceNet"
  BY OpIs, GuardedAreOps, MainIsAThread
<1>2. a.searching = FALSE
  BY DEF Knowledge
<1>3. Do("replaceNet") = <<x>>
  BY DEF Do, Op
<1> HIDE DEF x
<1>4. May("reader", a, x)
  BY <1>1, <1>2 DEF May, ReaderMay
<1>5. Learn(a, x) = Know(Threads, a.there, a.size, a.current, {}, a.dangling \cup a.resident,
                         a.leaving, FALSE, a.due)
  BY <1>1, <1>2 DEF Learn, Know
<1> QED BY <1>1, <1>3, <1>4, <1>5, CarriesOne

(* Every worker there is gets the new replica.                              *)
LEMMA RehandCarries ==
  ASSUME NEW a \in Knowledge, a.parked = Threads, ~a.searching
  PROVE  Carries("reader", a, Do("rehand"),
                 Know(Threads, a.there, a.size, a.current, {th \in Threads : th < a.size},
                      {}, a.leaving, FALSE, a.due))
<1> DEFINE x == Op("rehand", Main, NoJob)
<1>1. x \in Steps /\ x.op = "rehand"
  BY OpIs, GuardedAreOps, MainIsAThread
<1>2. a.searching = FALSE
  BY DEF Knowledge
<1>3. Do("rehand") = <<x>>
  BY DEF Do, Op
<1> HIDE DEF x
<1>4. May("reader", a, x)
  BY <1>1, <1>2 DEF May, ReaderMay
<1>5. Learn(a, x) = Know(Threads, a.there, a.size, a.current, {th \in Threads : th < a.size},
                         {}, a.leaving, FALSE, a.due)
  BY <1>1, <1>2 DEF Learn, Know
<1> QED BY <1>1, <1>3, <1>4, <1>5, CarriesOne

(* The main worker is given the search.                                     *)
LEMMA SearchCarries ==
  ASSUME NEW a \in Knowledge, a.parked = Threads, ~a.searching, a.leaving = {},
         a.due = "held", a.size \in 1 .. MaxThreads, a.there = 0 .. a.size - 1,
         a.there \subseteq a.current \cap a.resident
  PROVE  Carries("reader", a, Run(Main, "search"),
                 Know(Helpers, a.there, a.size, a.current, a.resident, a.dangling, {}, TRUE,
                      "no"))
<1> DEFINE x == Op("put", Main, "search")
<1> DEFINE y == Op("notify", Main, NoJob)
<1> DEFINE b == Know(Helpers, a.there, a.size, a.current, a.resident, a.dangling, {}, TRUE,
                      "no")
<1>1. x \in Steps /\ x.op = "put" /\ x.th = Main /\ x.job = "search"
  BY OpIs, MainIsAThread DEF Ops, ThreadOps
<1>2. y \in Steps /\ y.op = "notify" /\ y.th = Main
  BY OpIs, MainIsAThread DEF Ops, ThreadOps
<1>3. Run(Main, "search") = <<x>> \o <<y>>
  BY DEF Run, Op
<1> HIDE DEF x, y
<1>4. May("reader", a, x)
  BY <1>1 DEF May, ReaderMay, Guarded, Writes
<1>5. Learn(a, x) = b
  BY <1>1 DEF Learn, Know, Helpers
<1>6. b \in Knowledge
  BY LearnType, <1>1, <1>5
<1> HIDE DEF b
<1>7. Carries("reader", a, <<x>>, b)
  BY <1>1, <1>4, <1>5, CarriesOne
<1>8. May("reader", b, y)
  BY <1>2, <1>6 DEF May, ReaderMay, Guarded, Writes
<1>9. Learn(b, y) = b
  BY <1>2, <1>6, LearnsNothing
<1>10. Carries("reader", b, <<y>>, b)
  BY <1>2, <1>6, <1>8, <1>9, CarriesOne
<1>11. Carries("reader", a, <<x>> \o <<y>>, b)
  BY <1>7, <1>10, CarriesBoth
<1> QED BY <1>3, <1>11 DEF b

(***************************************************************************)
(* The loops over the pool.                                                *)
(***************************************************************************)
AtRest(a, n) ==
  /\ a \in Knowledge
  /\ a.parked = Threads
  /\ a.there = 0 .. n - 1
  /\ a.size = n
  /\ a.leaving = {}
  /\ a.searching = FALSE
  /\ a.due = "no"

(* The first threads of a pool, and their numbers.                          *)
LEMMA FirstThreads ==
  ASSUME NEW n \in 0 .. MaxThreads
  PROVE  /\ n \in Nat
         /\ 0 .. n - 1 \subseteq Threads
         /\ \A i \in 1 .. n : i - 1 \in Threads /\ i \in Nat /\ i - 1 \in 0 .. n - 1
                               /\ i \in 0 .. n /\ i - 1 \in 0 .. n
         /\ 0 \in 0 .. n /\ n \in 0 .. n
  OBVIOUS

(* The same job for the first n threads of a parked pool.                   *)
LEMMA PutAllCarries ==
  ASSUME NEW n \in 0 .. MaxThreads, NEW a, AtRest(a, n), NEW f \in Jobs,
         f # "search", f = "clear" => a.dangling = {}
  PROVE  Carries("reader", a, FlattenSeq([i \in 1 .. n |-> Run(i - 1, f)]),
                 Know(Threads \ (0 .. n - 1), a.there, n, a.current, a.resident, a.dangling,
                      {}, FALSE, a.due))
<1> DEFINE K(j) == Know(Threads \ (0 .. j - 1), a.there, n, a.current, a.resident, a.dangling,
                        {}, FALSE, a.due)
<1> DEFINE k == [j \in 0 .. n |-> K(j)]
<1> DEFINE seqs == [i \in 1 .. n |-> Run(i - 1, f)]
<1>1. \A j \in 0 .. n : k[j] = K(j)
  <2> HIDE DEF K
  <2> QED OBVIOUS
<1>2. K(0) = a
  <2>1. Threads \ (0 .. 0 - 1) = Threads
    OBVIOUS
  <2>2. a = Know(Threads, a.there, n, a.current, a.resident, a.dangling, {}, FALSE, a.due)
    BY KnowIs DEF AtRest
  <2> QED BY <2>1, <2>2
<1>3. ASSUME NEW i \in 1 .. n PROVE Carries("reader", k[i - 1], seqs[i], k[i])
  <2> DEFINE b == K(i - 1)
  <2>1. seqs[i] = Run(i - 1, f)
    OBVIOUS
  <2>2. k[i - 1] = b /\ k[i] = K(i)
    <3> HIDE DEF K, k
    <3> QED BY <1>1, FirstThreads
  <2>3. b \in Knowledge
    BY FirstThreads, KnowType DEF AtRest, Knowledge
  <2>4. (Threads \ (0 .. (i - 1) - 1)) \ {i - 1} = Threads \ (0 .. i - 1)
    BY FirstThreads
  <2>5. /\ ~b.searching /\ b.dangling = a.dangling
        /\ K(i) = Know(b.parked \ {i - 1}, b.there, b.size, b.current, b.resident,
                       b.dangling, b.leaving, FALSE, b.due)
    BY <2>4 DEF Know
  <2> HIDE DEF b, k, seqs, K
  <2>6. i - 1 \in Threads /\ (f = "clear" => i - 1 \notin b.dangling)
    BY <2>5, FirstThreads
  <2>7. Carries("reader", b, Run(i - 1, f),
                Know(b.parked \ {i - 1}, b.there, b.size, b.current, b.resident,
                     b.dangling, b.leaving, FALSE, b.due))
    BY <2>3, <2>5, <2>6, RunCarries
  <2> QED BY <2>1, <2>2, <2>5, <2>7
<1>4. seqs = [i \in 1 .. n |-> seqs[i]]
  OBVIOUS
<1>5. Carries("reader", k[0], FlattenSeq(seqs), k[n])
  <2>1. k[0] \in Knowledge
    <3> HIDE DEF K, k
    <3> QED BY <1>1, <1>2, FirstThreads DEF AtRest
  <2> HIDE DEF k, seqs, K
  <2> QED BY <1>3, <1>4, <2>1, FirstThreads, CarriesLoop
<1>6. k[0] = a /\ k[n] = K(n)
  <2> HIDE DEF K, k
  <2> QED BY <1>1, <1>2, FirstThreads
<1>7. Carries("reader", a, FlattenSeq(seqs), K(n))
  <2> HIDE DEF K, k, seqs
  <2> QED BY <1>5, <1>6
<1> QED BY <1>7

(* Waiting for the first n threads.                                         *)
LEMMA WaitAllCarries ==
  ASSUME NEW n \in 0 .. MaxThreads, NEW a \in Knowledge, a.searching = FALSE
  PROVE  Carries("reader", a, FlattenSeq([i \in 1 .. n |-> WaitFor(i - 1)]),
                 Know(a.parked \cup (0 .. n - 1), a.there, a.size, a.current, a.resident,
                      a.dangling, a.leaving, FALSE, a.due))
<1> DEFINE K(j) == Know(a.parked \cup (0 .. j - 1), a.there, a.size, a.current, a.resident,
                        a.dangling, a.leaving, FALSE, a.due)
<1> DEFINE k == [j \in 0 .. n |-> K(j)]
<1> DEFINE seqs == [i \in 1 .. n |-> WaitFor(i - 1)]
<1>1. \A j \in 0 .. n : k[j] = K(j)
  <2> HIDE DEF K
  <2> QED OBVIOUS
<1>2. K(0) = a
  <2>1. a.parked \cup (0 .. 0 - 1) = a.parked
    OBVIOUS
  <2>2. a = Know(a.parked, a.there, a.size, a.current, a.resident, a.dangling, a.leaving,
                 FALSE, a.due)
    BY KnowIs
  <2> QED BY <2>1, <2>2
<1>3. ASSUME NEW i \in 1 .. n PROVE Carries("reader", k[i - 1], seqs[i], k[i])
  <2> DEFINE b == K(i - 1)
  <2>1. seqs[i] = WaitFor(i - 1)
    OBVIOUS
  <2>2. k[i - 1] = b /\ k[i] = K(i)
    <3> HIDE DEF K, k
    <3> QED BY <1>1, FirstThreads
  <2>3. b \in Knowledge
    <3>1. 0 .. (i - 1) - 1 \subseteq Threads
      BY FirstThreads
    <3>2. /\ a.parked \cup (0 .. (i - 1) - 1) \in SUBSET Threads /\ a.size \in Int
          /\ a.there \in SUBSET Threads
          /\ a.current \in SUBSET Threads /\ a.resident \in SUBSET Threads
          /\ a.dangling \in SUBSET Threads /\ a.leaving \in SUBSET Threads
          /\ FALSE \in BOOLEAN /\ a.due \in Due
      BY <3>1 DEF Knowledge
    <3> QED BY <3>2, KnowType
  <2>4. (a.parked \cup (0 .. (i - 1) - 1)) \cup {i - 1} = a.parked \cup (0 .. i - 1)
    BY FirstThreads
  <2>5. /\ ~b.searching
        /\ K(i) = Know(b.parked \cup {i - 1}, b.there, b.size, b.current, b.resident,
                       b.dangling, b.leaving, FALSE, b.due)
    BY <2>4 DEF Know
  <2> HIDE DEF b, k, seqs, K
  <2>6. i - 1 \in Threads
    BY FirstThreads
  <2>7. Carries("reader", b, WaitFor(i - 1),
                Know(b.parked \cup {i - 1}, b.there, b.size, b.current, b.resident,
                     b.dangling, b.leaving, FALSE, b.due))
    BY <2>3, <2>5, <2>6, WaitCarries
  <2> QED BY <2>1, <2>2, <2>5, <2>7
<1>4. seqs = [i \in 1 .. n |-> seqs[i]]
  OBVIOUS
<1>5. Carries("reader", k[0], FlattenSeq(seqs), k[n])
  <2>1. k[0] \in Knowledge
    <3> HIDE DEF K, k
    <3> QED BY <1>1, <1>2, FirstThreads DEF AtRest
  <2> HIDE DEF k, seqs, K
  <2> QED BY <1>3, <1>4, <2>1, FirstThreads, CarriesLoop
<1>6. k[0] = a /\ k[n] = K(n)
  <2> HIDE DEF K, k
  <2> QED BY <1>1, <1>2, FirstThreads
<1>7. Carries("reader", a, FlattenSeq(seqs), K(n))
  <2> HIDE DEF K, k, seqs
  <2> QED BY <1>5, <1>6
<1> QED BY <1>7

(* All threads of a parked pool destroyed.                                  *)
LEMMA DestroyAllCarries ==
  ASSUME NEW n \in 0 .. MaxThreads, NEW a, AtRest(a, n)
  PROVE  Carries("reader", a, FlattenSeq([i \in 1 .. n |-> DestroyThread(i - 1)]),
                 Know(Threads, n .. n - 1, n - n, a.current \ (0 .. n - 1),
                      a.resident \ (0 .. n - 1), a.dangling \ (0 .. n - 1), {}, FALSE, a.due))
<1> DEFINE K(j) == Know(Threads, j .. n - 1, n - j, a.current \ (0 .. j - 1),
                        a.resident \ (0 .. j - 1), a.dangling \ (0 .. j - 1), {}, FALSE, a.due)
<1> DEFINE k == [j \in 0 .. n |-> K(j)]
<1> DEFINE seqs == [i \in 1 .. n |-> DestroyThread(i - 1)]
<1>1. \A j \in 0 .. n : k[j] = K(j)
  <2> HIDE DEF K
  <2> QED OBVIOUS
<1>2. K(0) = a
  <2>1. /\ 0 .. 0 - 1 = {} /\ n - 0 = n /\ \A s \in SUBSET Threads : s \ {} = s
        /\ a.current \in SUBSET Threads /\ a.resident \in SUBSET Threads
        /\ a.dangling \in SUBSET Threads
    BY FirstThreads DEF AtRest, Knowledge
  <2>2. a = Know(Threads, 0 .. n - 1, n, a.current, a.resident, a.dangling, {}, FALSE, a.due)
    BY KnowIs DEF AtRest
  <2> QED BY <2>1, <2>2
<1>3. ASSUME NEW i \in 1 .. n PROVE Carries("reader", k[i - 1], seqs[i], k[i])
  <2> DEFINE b == K(i - 1)
  <2>1. seqs[i] = DestroyThread(i - 1)
    OBVIOUS
  <2>2. k[i - 1] = b /\ k[i] = K(i)
    <3> HIDE DEF K, k
    <3> QED BY <1>1, FirstThreads
  <2>3. b \in Knowledge
    <3>1. /\ (i - 1) .. n - 1 \in SUBSET Threads /\ n - (i - 1) \in Int
          /\ FALSE \in BOOLEAN /\ a.due \in Due
          /\ {} \in SUBSET Threads /\ Threads \in SUBSET Threads
      BY FirstThreads DEF AtRest, Knowledge
    <3>2. /\ a.current \ (0 .. (i - 1) - 1) \in SUBSET Threads
          /\ a.resident \ (0 .. (i - 1) - 1) \in SUBSET Threads
          /\ a.dangling \ (0 .. (i - 1) - 1) \in SUBSET Threads
      BY DEF AtRest, Knowledge
    <3> QED BY <3>1, <3>2, KnowType
  <2>4. /\ ((i - 1) .. n - 1) \ {i - 1} = i .. n - 1
        /\ (n - (i - 1)) - 1 = n - i
        /\ \A s \in SUBSET Threads :
              (s \ (0 .. (i - 1) - 1)) \ {i - 1} = s \ (0 .. i - 1)
    BY FirstThreads
  <2>8. /\ a.current \in SUBSET Threads /\ a.resident \in SUBSET Threads
        /\ a.dangling \in SUBSET Threads
    BY DEF AtRest, Knowledge
  <2>5. /\ ~b.searching /\ b.parked = Threads /\ b.leaving = {}
        /\ K(i) = Know(Threads, b.there \ {i - 1}, b.size - 1, b.current \ {i - 1},
                       b.resident \ {i - 1}, b.dangling \ {i - 1}, {}, FALSE, b.due)
    BY <2>4, <2>8 DEF Know
  <2> HIDE DEF b, k, seqs, K
  <2>6. i - 1 \in Threads
    BY FirstThreads
  <2>7. Carries("reader", b, DestroyThread(i - 1),
                Know(Threads, b.there \ {i - 1}, b.size - 1, b.current \ {i - 1},
                     b.resident \ {i - 1}, b.dangling \ {i - 1}, {}, FALSE, b.due))
    BY <2>3, <2>5, <2>6, DestroyCarries
  <2> QED BY <2>1, <2>2, <2>5, <2>7
<1>4. seqs = [i \in 1 .. n |-> seqs[i]]
  OBVIOUS
<1>5. Carries("reader", k[0], FlattenSeq(seqs), k[n])
  <2>1. k[0] \in Knowledge
    <3> HIDE DEF K, k
    <3> QED BY <1>1, <1>2, FirstThreads DEF AtRest
  <2> HIDE DEF k, seqs, K
  <2> QED BY <1>3, <1>4, <2>1, FirstThreads, CarriesLoop
<1>6. k[0] = a /\ k[n] = K(n)
  <2> HIDE DEF K, k
  <2> QED BY <1>1, <1>2, FirstThreads
<1>7. Carries("reader", a, FlattenSeq(seqs), K(n))
  <2> HIDE DEF K, k, seqs
  <2> QED BY <1>5, <1>6
<1> QED BY <1>7

(* n threads built into an empty pool.                                      *)
LEMMA BuildAllCarries ==
  ASSUME NEW n \in 0 .. MaxThreads, NEW a, AtRest(a, 0)
  PROVE  Carries("reader", a, FlattenSeq([i \in 1 .. n |-> BuildThread(i - 1)]),
                 Know(Threads, 0 .. n - 1, n, a.current, a.resident, a.dangling, {}, FALSE, a.due))
<1> DEFINE K(j) == Know(Threads, 0 .. j - 1, j, a.current, a.resident, a.dangling, {}, FALSE, a.due)
<1> DEFINE k == [j \in 0 .. n |-> K(j)]
<1> DEFINE seqs == [i \in 1 .. n |-> BuildThread(i - 1)]
<1>1. \A j \in 0 .. n : k[j] = K(j)
  <2> HIDE DEF K
  <2> QED OBVIOUS
<1>2. K(0) = a
  <2> QED BY KnowIs DEF AtRest
<1>3. ASSUME NEW i \in 1 .. n PROVE Carries("reader", k[i - 1], seqs[i], k[i])
  <2> DEFINE b == K(i - 1)
  <2>1. seqs[i] = BuildThread(i - 1)
    OBVIOUS
  <2>2. k[i - 1] = b /\ k[i] = K(i)
    <3> HIDE DEF K, k
    <3> QED BY <1>1, FirstThreads
  <2>3. b \in Knowledge
    <3>1. 0 .. (i - 1) - 1 \in SUBSET Threads /\ i - 1 \in Int
      BY FirstThreads
    <3> QED BY <3>1, KnowType DEF AtRest, Knowledge
  <2>4. (0 .. (i - 1) - 1) \cup {i - 1} = 0 .. i - 1 /\ (i - 1) + 1 = i
    BY FirstThreads
  <2>5. /\ ~b.searching /\ b.parked = Threads
        /\ K(i) = Know(Threads, b.there \cup {i - 1}, b.size + 1, b.current, b.resident,
                       b.dangling, b.leaving, FALSE, b.due)
    BY <2>4 DEF Know
  <2> HIDE DEF b, k, seqs, K
  <2>6. i - 1 \in Threads
    BY FirstThreads
  <2>7. Carries("reader", b, BuildThread(i - 1),
                Know(Threads, b.there \cup {i - 1}, b.size + 1, b.current, b.resident,
                     b.dangling, b.leaving, FALSE, b.due))
    BY <2>3, <2>5, <2>6, BuildCarries
  <2> QED BY <2>1, <2>2, <2>5, <2>7
<1>4. seqs = [i \in 1 .. n |-> seqs[i]]
  OBVIOUS
<1>5. Carries("reader", k[0], FlattenSeq(seqs), k[n])
  <2>1. k[0] \in Knowledge
    <3> HIDE DEF K, k
    <3> QED BY <1>1, <1>2, FirstThreads DEF AtRest
  <2> HIDE DEF k, seqs, K
  <2> QED BY <1>3, <1>4, <2>1, FirstThreads, CarriesLoop
<1>6. k[0] = a /\ k[n] = K(n)
  <2> HIDE DEF K, k
  <2> QED BY <1>1, <1>2, FirstThreads
<1>7. Carries("reader", a, FlattenSeq(seqs), K(n))
  <2> HIDE DEF K, k, seqs
  <2> QED BY <1>5, <1>6
<1> QED BY <1>7

(* The root of the next search in the first n threads.                      *)
LEMMA SetRootAllCarries ==
  ASSUME NEW n \in 0 .. MaxThreads, NEW a \in Knowledge, a.parked = Threads, a.size = n,
         a.leaving = {}, a.searching = FALSE
  PROVE  Carries("reader", a, FlattenSeq([i \in 1 .. n |-> On("setRoot", i - 1)]),
                 Know(Threads, a.there, n, a.current \cup (0 .. n - 1), a.resident, a.dangling,
                      {}, FALSE, a.due))
<1> DEFINE K(j) == Know(Threads, a.there, n, a.current \cup (0 .. j - 1), a.resident, a.dangling,
                        {}, FALSE, a.due)
<1> DEFINE k == [j \in 0 .. n |-> K(j)]
<1> DEFINE seqs == [i \in 1 .. n |-> On("setRoot", i - 1)]
<1>1. \A j \in 0 .. n : k[j] = K(j)
  <2> HIDE DEF K
  <2> QED OBVIOUS
<1>2. K(0) = a
  <2>1. a.current \cup (0 .. 0 - 1) = a.current
    OBVIOUS
  <2> QED BY <2>1, KnowIs
<1>3. ASSUME NEW i \in 1 .. n PROVE Carries("reader", k[i - 1], seqs[i], k[i])
  <2> DEFINE b == K(i - 1)
  <2>1. seqs[i] = On("setRoot", i - 1)
    OBVIOUS
  <2>2. k[i - 1] = b /\ k[i] = K(i)
    <3> HIDE DEF K, k
    <3> QED BY <1>1, FirstThreads
  <2>3. b \in Knowledge
    <3>1. 0 .. (i - 1) - 1 \in SUBSET Threads /\ n \in Int
      BY FirstThreads
    <3>2. a.current \cup (0 .. (i - 1) - 1) \in SUBSET Threads
      BY <3>1 DEF Knowledge
    <3> QED BY <3>1, <3>2, KnowType DEF Knowledge
  <2>4. (a.current \cup (0 .. (i - 1) - 1)) \cup {i - 1} = a.current \cup (0 .. i - 1)
    BY FirstThreads
  <2>5. /\ ~b.searching /\ b.parked = Threads
        /\ K(i) = Know(Threads, b.there, b.size, b.current \cup {i - 1}, b.resident,
                       b.dangling, b.leaving, FALSE, b.due)
    BY <2>4 DEF Know
  <2> HIDE DEF b, k, seqs, K
  <2>6. i - 1 \in Threads
    BY FirstThreads
  <2>7. Carries("reader", b, On("setRoot", i - 1),
                Know(Threads, b.there, b.size, b.current \cup {i - 1}, b.resident,
                     b.dangling, b.leaving, FALSE, b.due))
    BY <2>3, <2>5, <2>6, SetRootCarries
  <2> QED BY <2>1, <2>2, <2>5, <2>7
<1>4. seqs = [i \in 1 .. n |-> seqs[i]]
  OBVIOUS
<1>5. Carries("reader", k[0], FlattenSeq(seqs), k[n])
  <2>1. k[0] \in Knowledge
    <3> HIDE DEF K, k
    <3> QED BY <1>1, <1>2, FirstThreads
  <2> HIDE DEF k, seqs, K
  <2> QED BY <1>3, <1>4, <2>1, FirstThreads, CarriesLoop
<1>6. k[0] = a /\ k[n] = K(n)
  <2> HIDE DEF K, k
  <2> QED BY <1>1, <1>2, FirstThreads
<1>7. Carries("reader", a, FlattenSeq(seqs), K(n))
  <2> HIDE DEF K, k, seqs
  <2> QED BY <1>5, <1>6
<1> QED BY <1>7

(* Waiting for the helpers of a parked pool.                                *)
LEMMA WaitHelpersCarries ==
  ASSUME NEW n \in 0 .. MaxThreads, NEW a, AtRest(a, n)
  PROVE  Carries("reader", a, EachHelper(n, WaitFor), a)
<1> DEFINE seqs == [i \in 1 .. n - 1 |-> WaitFor(i)]
<1>1. EachHelper(n, WaitFor) = FlattenSeq(seqs)
  BY DEF EachHelper
<1>2. CASE n = 0
  <2>1. seqs = << >>
    BY <1>2
  <2>2. FlattenSeq(seqs) = << >>
    BY <2>1 DEF FlattenSeq
  <2> QED BY <1>1, <2>2, CarriesNothing DEF AtRest
<1>3. CASE n # 0
  <2> DEFINE k == [i \in 0 .. n - 1 |-> a]
  <2>1. n - 1 \in Nat
    BY <1>3, FirstThreads
  <2>2. ASSUME NEW i \in 1 .. n - 1 PROVE Carries("reader", k[i - 1], seqs[i], k[i])
    <3>1. i \in Threads /\ i - 1 \in 0 .. n - 1 /\ i \in 0 .. n - 1
      BY FirstThreads
    <3>2. k[i - 1] = a /\ k[i] = a /\ seqs[i] = WaitFor(i)
      BY <3>1
    <3>3. a \in Knowledge /\ ~a.searching /\ a.searching = FALSE /\ a.parked \cup {i} = a.parked
      BY <3>1 DEF AtRest
    <3>4. a = Know(a.parked \cup {i}, a.there, a.size, a.current, a.resident, a.dangling,
                   a.leaving, FALSE, a.due)
      BY <3>3, KnowIs
    <3>5. Carries("reader", a, WaitFor(i), a)
      BY <3>1, <3>3, <3>4, WaitCarries
    <3> QED BY <3>2, <3>5
  <2>3. seqs = [i \in 1 .. n - 1 |-> seqs[i]]
    OBVIOUS
  <2>4. k[0] = a /\ k[n - 1] = a /\ a \in Knowledge
    BY <2>1 DEF AtRest
  <2>5. Carries("reader", k[0], FlattenSeq(seqs), k[n - 1])
    <3> HIDE DEF k, seqs
    <3> QED BY <2>1, <2>2, <2>3, <2>4, CarriesLoop
  <2> HIDE DEF k, seqs
  <2> QED BY <1>1, <2>4, <2>5
<1> QED BY <1>2, <1>3

(***************************************************************************)
(* The commands.                                                           *)
(***************************************************************************)
LEMMA RestCarries ==
  ASSUME NEW n \in 0 .. MaxThreads, NEW a, AtRest(a, n)
  PROVE  /\ Carries("reader", a, WaitMain, a)
         /\ \A op \in Writes : Carries("reader", a, Do(op), a)
  BY WaitMainAgain, WriteCarries DEF AtRest

(* The jobs a pool thread is given, none of them "no job".                  *)
LEMMA JobsThere == "zero" \in Jobs /\ "clear" \in Jobs /\ "build" \in Jobs /\ "search" \in Jobs
  OBVIOUS

(* The same job for all the threads of a pool, and the wait for them.       *)
LEMMA RunAllCarries ==
  ASSUME NEW n \in 0 .. MaxThreads, NEW a, AtRest(a, n), NEW f \in Jobs,
         f # "search", f = "clear" => a.dangling = {}
  PROVE  \E b : /\ Carries("reader", a, FlattenSeq([i \in 1 .. n |-> Run(i - 1, f)]), b)
                /\ Carries("reader", b, FlattenSeq([i \in 1 .. n |-> WaitFor(i - 1)]), a)
<1> DEFINE b == Know(Threads \ (0 .. n - 1), a.there, n, a.current, a.resident, a.dangling,
                     {}, FALSE, a.due)
<1>1. Carries("reader", a, FlattenSeq([i \in 1 .. n |-> Run(i - 1, f)]), b)
  BY PutAllCarries
<1>2. b \in Knowledge
  BY <1>1, CarriesFrom
<1>3. (Threads \ (0 .. n - 1)) \cup (0 .. n - 1) = Threads
  BY FirstThreads
<1>4. a = Know(Threads, a.there, n, a.current, a.resident, a.dangling, {}, FALSE, a.due)
  BY KnowIs DEF AtRest
<1>5. /\ b.searching = FALSE
      /\ a = Know(b.parked \cup (0 .. n - 1), b.there, b.size, b.current, b.resident,
                  b.dangling, b.leaving, FALSE, b.due)
  BY <1>3, <1>4 DEF Know
<1> HIDE DEF b
<1>6. Carries("reader", b, FlattenSeq([i \in 1 .. n |-> WaitFor(i - 1)]), a)
  BY <1>2, <1>5, WaitAllCarries
<1> QED BY <1>1, <1>6

(* The table is zeroed by a pool at rest, which is at rest again            *)
(* afterwards.                                                              *)
LEMMA ZeroTableCarries ==
  ASSUME NEW n \in 0 .. MaxThreads, NEW a, AtRest(a, n)
  PROVE  Carries("reader", a, ZeroTable(n), a)
<1> DEFINE puts == FlattenSeq([i \in 1 .. n |-> Run(i - 1, "zero")])
<1> DEFINE waits == FlattenSeq([i \in 1 .. n |-> WaitFor(i - 1)])
<1>1. ZeroTable(n) = (Do("resetAge") \o puts) \o waits
  BY DEF ZeroTable, Each
<1>2. PICK b : Carries("reader", a, puts, b) /\ Carries("reader", b, waits, a)
  BY RunAllCarries, JobsThere
<1>3. Carries("reader", a, Do("resetAge"), a)
  BY RestCarries DEF Writes
<1> HIDE DEF puts, waits
<1>4. Carries("reader", a, Do("resetAge") \o puts, b)
  BY <1>2, <1>3, CarriesBoth
<1>5. Carries("reader", a, (Do("resetAge") \o puts) \o waits, a)
  BY <1>2, <1>4, CarriesBoth
<1> QED BY <1>1, <1>5

(* Engine::set_tt_size.                                                     *)
LEMMA SetTTSizeCarries ==
  ASSUME NEW n \in 0 .. MaxThreads, NEW a, AtRest(a, n)
  PROVE  Carries("reader", a, SetTTSize(n), a)
<1>1. Carries("reader", a, Do("freeTable"), a)
  BY RestCarries DEF Writes
<1>2. Carries("reader", a, WaitMain \o Do("freeTable"), a)
  BY <1>1, RestCarries, CarriesBoth
<1>3. Carries("reader", a, (WaitMain \o Do("freeTable")) \o ZeroTable(n), a)
  BY <1>2, ZeroTableCarries, CarriesBoth
<1> QED BY <1>3 DEF SetTTSize

(* ThreadPool::clear, if no network is dangling.                            *)
LEMMA ClearPoolCarries ==
  ASSUME NEW n \in 0 .. MaxThreads, NEW a, AtRest(a, n), a.dangling = {}
  PROVE  Carries("reader", a, ClearPool(n), a)
<1> DEFINE puts == FlattenSeq([i \in 1 .. n |-> Run(i - 1, "clear")])
<1> DEFINE waits == FlattenSeq([i \in 1 .. n |-> WaitFor(i - 1)])
<1>1. ClearPool(n) = (puts \o waits) \o Do("resetManagers")
  BY DEF ClearPool, Each
<1>2. PICK b : Carries("reader", a, puts, b) /\ Carries("reader", b, waits, a)
  BY RunAllCarries, JobsThere
<1>3. Carries("reader", a, Do("resetManagers"), a)
  BY RestCarries DEF Writes
<1> HIDE DEF puts, waits
<1>4. Carries("reader", a, puts \o waits, a)
  BY <1>2, CarriesBoth
<1>5. Carries("reader", a, (puts \o waits) \o Do("resetManagers"), a)
  BY <1>3, <1>4, CarriesBoth
<1> QED BY <1>1, <1>5

(* Engine::search_clear, if no network is dangling.                         *)
LEMMA SearchClearCarries ==
  ASSUME NEW n \in 0 .. MaxThreads, NEW a, AtRest(a, n), a.dangling = {}
  PROVE  Carries("reader", a, SearchClear(n), a)
<1>1. Carries("reader", a, WaitMain \o ZeroTable(n), a)
  BY RestCarries, ZeroTableCarries, CarriesBoth
<1>2. Carries("reader", a, (WaitMain \o ZeroTable(n)) \o ClearPool(n), a)
  BY <1>1, ClearPoolCarries, CarriesBoth
<1>3. Carries("reader", a, Do("tbInit"), a)
  BY RestCarries DEF Writes
<1>4. Carries("reader", a, ((WaitMain \o ZeroTable(n)) \o ClearPool(n)) \o Do("tbInit"), a)
  BY <1>2, <1>3, CarriesBoth
<1> QED BY <1>4 DEF SearchClear

(* A pool of n threads at rest whose workers have their network.            *)
Furnished(a, n) == AtRest(a, n) /\ a.resident = 0 .. n - 1 /\ a.dangling = {}

(* Handing the network out again furnishes a pool at rest.                  *)
LEMMA RehandAtRest ==
  ASSUME NEW n \in 0 .. MaxThreads, NEW a, AtRest(a, n)
  PROVE  \E b : Furnished(b, n) /\ Carries("reader", a, Do("rehand"), b)
<1> DEFINE b == Know(Threads, a.there, a.size, a.current, {th \in Threads : th < a.size},
                     {}, a.leaving, FALSE, a.due)
<1>1. Carries("reader", a, Do("rehand"), b)
  BY RehandCarries DEF AtRest
<1>2. b \in Knowledge
  BY <1>1, CarriesFrom
<1>3. {th \in Threads : th < n} = 0 .. n - 1
  BY FirstThreads
<1>4. Furnished(b, n)
  BY <1>2, <1>3 DEF Furnished, AtRest, Know
<1> QED BY <1>1, <1>4

(* Destroying the replicas leaves the pool at rest.                         *)
LEMMA ReplaceNetAtRest ==
  ASSUME NEW n \in 0 .. MaxThreads, NEW a, AtRest(a, n)
  PROVE  \E b : AtRest(b, n) /\ Carries("reader", a, Do("replaceNet"), b)
<1> DEFINE b == Know(Threads, a.there, a.size, a.current, {}, a.dangling \cup a.resident,
                     a.leaving, FALSE, a.due)
<1>1. Carries("reader", a, Do("replaceNet"), b)
  BY ReplaceNetCarries DEF AtRest
<1>2. b \in Knowledge
  BY <1>1, CarriesFrom
<1>3. AtRest(b, n)
  BY <1>2 DEF AtRest, Know
<1> QED BY <1>1, <1>3

(* A pool at rest is destroyed.                                             *)
LEMMA DestroyAllAtRest ==
  ASSUME NEW n \in 0 .. MaxThreads, NEW a, AtRest(a, n)
  PROVE  \E b : /\ AtRest(b, 0)
                /\ Carries("reader", a, Each(n, DestroyThread), b)
<1> DEFINE b == Know(Threads, n .. n - 1, n - n, a.current \ (0 .. n - 1),
                     a.resident \ (0 .. n - 1), a.dangling \ (0 .. n - 1), {}, FALSE, a.due)
<1>1. Carries("reader", a, Each(n, DestroyThread), b)
  BY DestroyAllCarries DEF Each
<1>2. b \in Knowledge
  BY <1>1, CarriesFrom
<1>3. n .. n - 1 = 0 .. 0 - 1 /\ n - n = 0
  BY FirstThreads
<1>4. AtRest(b, 0)
  BY <1>2, <1>3 DEF AtRest, Know
<1> QED BY <1>1, <1>4

(* A pool is built, and is at rest.                                         *)
LEMMA BuildAllAtRest ==
  ASSUME NEW n \in 0 .. MaxThreads, NEW a, AtRest(a, 0)
  PROVE  \E b : /\ AtRest(b, n)
                /\ Carries("reader", a, Each(n, BuildThread), b)
<1> DEFINE b == Know(Threads, 0 .. n - 1, n, a.current, a.resident, a.dangling, {}, FALSE, a.due)
<1>1. Carries("reader", a, Each(n, BuildThread), b)
  BY BuildAllCarries DEF Each
<1>2. b \in Knowledge
  BY <1>1, CarriesFrom
<1>3. AtRest(b, n)
  BY <1>2 DEF AtRest, Know
<1> QED BY <1>1, <1>3

(* Engine::resize_threads leaves a furnished pool of the size asked for.    *)
LEMMA ResizeCarries ==
  ASSUME NEW n \in 0 .. MaxThreads, NEW k \in 1 .. MaxThreads, NEW a, AtRest(a, n)
  PROVE  \E b : Furnished(b, k) /\ Carries("reader", a, ResizeThreads(n, k), b)
<1> DEFINE destroy == IF n > 0 THEN WaitMain \o Each(n, DestroyThread) ELSE << >>
<1> DEFINE s1 == EachHelper(n, WaitFor) \o Do("setOptions")
<1> DEFINE s2 == s1 \o destroy
<1> DEFINE s3 == s2 \o Each(k, BuildThread)
<1> DEFINE s4 == s3 \o Do("resetManagers")
<1> DEFINE s5 == s4 \o WaitMain
<1> DEFINE s6 == s5 \o SetTTSize(k)
<1>1. ResizeThreads(n, k) = s6 \o Do("rehand")
  BY DEF ResizeThreads
<1>2. Carries("reader", a, s1, a)
  <2>1. Carries("reader", a, Do("setOptions"), a)
    BY RestCarries DEF Writes
  <2> QED BY <2>1, WaitHelpersCarries, CarriesBoth
<1>3. \E b : AtRest(b, 0) /\ Carries("reader", a, destroy, b)
  <2>1. CASE n > 0
    <3>1. PICK b : AtRest(b, 0) /\ Carries("reader", a, Each(n, DestroyThread), b)
      BY DestroyAllAtRest
    <3>2. Carries("reader", a, WaitMain \o Each(n, DestroyThread), b)
      BY <3>1, RestCarries, CarriesBoth
    <3> QED BY <2>1, <3>1, <3>2
  <2>2. CASE ~(n > 0)
    <3>1. n = 0
      BY <2>2, FirstThreads
    <3>2. Carries("reader", a, << >>, a)
      BY CarriesNothing DEF AtRest
    <3> QED BY <3>1, <3>2
  <2> QED BY <2>1, <2>2
<1> HIDE DEF destroy, s1
<1>4. PICK b : AtRest(b, 0) /\ Carries("reader", a, destroy, b)
  BY <1>3
<1>5. Carries("reader", a, s2, b)
  BY <1>2, <1>4, CarriesBoth
<1>6. k \in 0 .. MaxThreads
  OBVIOUS
<1>7. PICK c : AtRest(c, k) /\ Carries("reader", b, Each(k, BuildThread), c)
  BY <1>4, <1>6, BuildAllAtRest
<1> HIDE DEF s2
<1>8. Carries("reader", a, s3, c)
  BY <1>5, <1>7, CarriesBoth
<1> HIDE DEF s3
<1>9. Carries("reader", a, s4, c)
  <2>1. Carries("reader", c, Do("resetManagers"), c)
    BY <1>6, <1>7, RestCarries DEF Writes
  <2> QED BY <1>8, <2>1, CarriesBoth
<1> HIDE DEF s4
<1>10. Carries("reader", a, s5, c)
  BY <1>6, <1>7, <1>9, RestCarries, CarriesBoth
<1> HIDE DEF s5
<1>11. Carries("reader", a, s6, c)
  BY <1>6, <1>7, <1>10, SetTTSizeCarries, CarriesBoth
<1> HIDE DEF s6
<1>12. PICK e : Furnished(e, k) /\ Carries("reader", c, Do("rehand"), e)
  BY <1>6, <1>7, RehandAtRest
<1>13. Carries("reader", a, s6 \o Do("rehand"), e)
  BY <1>11, <1>12, CarriesBoth
<1> QED BY <1>1, <1>12, <1>13


(* Between two commands: the main worker may be searching, with the helpers *)
(* at its disposal; otherwise the pool is at rest.                          *)
Fit(a) == /\ a \in Knowledge
          /\ Helpers \subseteq a.parked
          /\ a.size \in 1 .. MaxThreads
          /\ a.there = 0 .. a.size - 1
          /\ a.resident = a.there
          /\ a.dangling = {}
          /\ a.leaving = {}
          /\ a.due = "no"

(* A furnished pool is ready for the next command.                          *)
LEMMA FurnishedIsFit ==
  ASSUME NEW n \in 1 .. MaxThreads, NEW a, Furnished(a, n)
  PROVE  Fit(a)
  BY DEF Furnished, AtRest, Fit, Helpers

(* After waiting for the search the pool is at rest, and furnished.         *)
LEMMA WaitMainFromFit ==
  ASSUME NEW a, Fit(a)
  PROVE  \E b : Furnished(b, a.size) /\ Carries("reader", a, WaitMain, b)
<1> DEFINE b == Know(a.parked \cup {Main}, a.there, a.size, a.current, a.resident,
                     a.dangling, a.leaving, FALSE, a.due)
<1>1. Carries("reader", a, WaitMain, b)
  BY WaitMainCarries DEF Fit
<1>2. b \in Knowledge
  BY <1>1, CarriesFrom
<1>3. a.parked \cup {Main} = Threads
  BY MainIsAThread DEF Fit, Helpers, Knowledge
<1>4. Furnished(b, a.size)
  BY <1>2, <1>3 DEF Furnished, AtRest, Know, Fit
<1> QED BY <1>1, <1>4

(* UCIEngine::apply_idle.                                                   *)
LEMMA ApplyIdleFromFit ==
  ASSUME NEW a, Fit(a)
  PROVE  \E b : Furnished(b, a.size) /\ Carries("reader", a, ApplyIdle, b)
<1>1. PICK b : Furnished(b, a.size) /\ Carries("reader", a, WaitMain, b)
  BY WaitMainFromFit
<1>2. Carries("reader", a, Do("stop"), a)
  BY StopCarries DEF Fit
<1>3. Carries("reader", a, Do("stop") \o WaitMain, b)
  BY <1>1, <1>2, CarriesBoth
<1> QED BY <1>1, <1>3 DEF ApplyIdle

(* Engine::go.                                                              *)
LEMMA GoCarries ==
  ASSUME NEW n \in 1 .. MaxThreads, NEW a, Fit(a), a.size = n
  PROVE  \E b : Fit(b) /\ Carries("reader", a, GoScript(n), b)
<1> DEFINE waits == FlattenSeq([i \in 1 .. n |-> WaitFor(i - 1)])
<1> DEFINE roots == FlattenSeq([i \in 1 .. n |-> On("setRoot", i - 1)])
<1> DEFINE s1 == WaitMain \o Do("setOptions")
<1> DEFINE s2 == s1 \o WaitMain
<1> DEFINE s3 == s2 \o Do("arm")
<1> DEFINE s4 == s3 \o waits
<1> DEFINE s5 == s4 \o roots
<1>1. GoScript(n) = s5 \o Run(Main, "search")
  BY DEF GoScript, Each
<1>2. n \in 0 .. MaxThreads
  OBVIOUS
<1>3. PICK b : Furnished(b, n) /\ Carries("reader", a, WaitMain, b)
  BY WaitMainFromFit
<1>4. AtRest(b, n) /\ b.resident = 0 .. n - 1 /\ b.dangling = {}
  BY <1>3 DEF Furnished
<1>5. Carries("reader", a, s1, b)
  <2>1. Carries("reader", b, Do("setOptions"), b)
    BY <1>2, <1>4, RestCarries DEF Writes
  <2> QED BY <1>3, <2>1, CarriesBoth
<1> HIDE DEF s1
<1>6. Carries("reader", a, s2, b)
  BY <1>2, <1>4, <1>5, RestCarries, CarriesBoth
<1> HIDE DEF s2
<1> DEFINE c == Know(Threads, b.there, b.size, {}, b.resident, b.dangling, b.leaving, FALSE,
                     "held")
<1>7. Carries("reader", b, Do("arm"), c)
  BY <1>4, ArmCarries DEF AtRest
<1>8. /\ c \in Knowledge /\ c.parked = Threads /\ c.there = 0 .. n - 1 /\ c.size = n
      /\ c.leaving = {} /\ c.searching = FALSE /\ c.due = "held"
      /\ c.resident = 0 .. n - 1 /\ c.dangling = {} /\ c.current = {}
  <2>1. c \in Knowledge
    BY <1>7, CarriesFrom
  <2> QED BY <1>4, <2>1 DEF AtRest, Know
<1> HIDE DEF c
<1>9. Carries("reader", a, s3, c)
  BY <1>6, <1>7, CarriesBoth
<1> HIDE DEF s3
<1>10. Carries("reader", c, waits, c)
  <2>1. c.searching = FALSE /\ c \in Knowledge /\ c.parked \cup (0 .. n - 1) = c.parked
    BY <1>2, <1>8, FirstThreads
  <2>2. c = Know(c.parked \cup (0 .. n - 1), c.there, c.size, c.current, c.resident,
                 c.dangling, c.leaving, FALSE, c.due)
    <3>1. c = Know(c.parked, c.there, c.size, c.current, c.resident, c.dangling, c.leaving,
                   c.searching, c.due)
      BY <2>1, KnowIs
    <3> QED BY <2>1, <3>1
  <2> QED BY <1>2, <2>1, <2>2, WaitAllCarries
<1> HIDE DEF waits
<1>11. Carries("reader", a, s4, c)
  BY <1>9, <1>10, CarriesBoth
<1> HIDE DEF s4
<1> DEFINE e == Know(Threads, c.there, n, c.current \cup (0 .. n - 1), c.resident, c.dangling,
                     {}, FALSE, c.due)
<1>12. Carries("reader", c, roots, e)
  BY <1>2, <1>8, SetRootAllCarries
<1> HIDE DEF roots
<1>13. Carries("reader", a, s5, e)
  BY <1>11, <1>12, CarriesBoth
<1> HIDE DEF s5
<1>14. /\ e \in Knowledge /\ e.parked = Threads /\ ~e.searching /\ e.leaving = {}
       /\ e.due = "held" /\ e.size = n /\ e.there = 0 .. n - 1 /\ e.current = 0 .. n - 1
       /\ e.resident = 0 .. n - 1 /\ e.dangling = {}
  <2>1. e \in Knowledge
    BY <1>12, CarriesFrom
  <2> QED BY <1>8, <2>1 DEF Know
<1> HIDE DEF e
<1> DEFINE g == Know(Helpers, e.there, e.size, e.current, e.resident, e.dangling, {}, TRUE, "no")
<1>15. Carries("reader", e, Run(Main, "search"), g)
  BY <1>14, SearchCarries
<1>16. Fit(g)
  <2>1. g \in Knowledge
    BY <1>15, CarriesFrom
  <2> QED BY <1>14, <2>1 DEF Fit, Know
<1> HIDE DEF g
<1>17. Carries("reader", a, s5 \o Run(Main, "search"), g)
  BY <1>13, <1>15, CarriesBoth
<1> QED BY <1>1, <1>16, <1>17

(* "quit" from a pool ready for a command.                                  *)
LEMMA QuitCarries ==
  ASSUME NEW a, Fit(a)
  PROVE  \E b : Carries("reader", a, QuitScript(a.size), b)
<1>1. a.size \in 0 .. MaxThreads
  BY DEF Fit
<1>2. Carries("reader", a, Do("stop"), a)
  BY StopCarries DEF Fit
<1>3. PICK b : Furnished(b, a.size) /\ Carries("reader", a, WaitMain, b)
  BY WaitMainFromFit
<1> DEFINE n == a.size
<1> HIDE DEF n
<1>4. AtRest(b, n) /\ n \in 0 .. MaxThreads
  BY <1>1, <1>3 DEF Furnished, n
<1>5. Carries("reader", b, Do("resetSeams"), b)
  BY <1>4, RestCarries DEF Writes
<1>6. Carries("reader", a, WaitMain \o Do("resetSeams"), b)
  BY <1>3, <1>5, CarriesBoth
<1>7. Carries("reader", a, (WaitMain \o Do("resetSeams")) \o WaitMain, b)
  BY <1>4, <1>6, RestCarries, CarriesBoth
<1>8. PICK c : AtRest(c, 0) /\ Carries("reader", b, Each(n, DestroyThread), c)
  BY <1>4, DestroyAllAtRest
<1>9. Carries("reader", a, ((WaitMain \o Do("resetSeams")) \o WaitMain)
                             \o Each(n, DestroyThread), c)
  BY <1>7, <1>8, CarriesBoth
<1>10. Carries("reader", a, Shutdown(n), c)
  BY <1>9 DEF Shutdown
<1>11. Carries("reader", a, Do("stop") \o Shutdown(n), c)
  BY <1>2, <1>10, CarriesBoth
<1> QED BY <1>11 DEF QuitScript, n

(* Every command the reader may execute carries it from between two         *)
(* commands to between two commands.                                        *)
LEMMA CommandCarries ==
  ASSUME NEW a, Fit(a), a.size = size, NEW c \in Commands, NEW k \in 1 .. MaxThreads
  PROVE  \E b : Fit(b) /\ Carries("reader", a, CommandScript(c, k), b)
<1>0. size \in 1 .. MaxThreads /\ size \in 0 .. MaxThreads
  BY DEF Fit
<1>1. PICK b : Furnished(b, size) /\ Carries("reader", a, ApplyIdle, b)
  BY ApplyIdleFromFit
<1>2. PICK w : Furnished(w, size) /\ Carries("reader", a, WaitMain, w)
  BY WaitMainFromFit
<1>3. AtRest(b, size) /\ b.dangling = {} /\ AtRest(w, size) /\ w.dangling = {}
  BY <1>1, <1>2 DEF Furnished
<1>4. Fit(b)
  BY <1>0, <1>1, FurnishedIsFit
<1>5. CASE c = "stop"
  BY <1>5, StopCarries DEF CommandScript, Fit
<1>6. CASE c = "go"
  BY <1>0, <1>6, GoCarries DEF CommandScript
<1>7. CASE c = "ucinewgame"
  <2>1. Carries("reader", a, SearchClear(size), w)
    <3>1. Carries("reader", a, WaitMain \o ZeroTable(size), w)
      BY <1>0, <1>2, <1>3, ZeroTableCarries, CarriesBoth
    <3>2. Carries("reader", a, (WaitMain \o ZeroTable(size)) \o ClearPool(size), w)
      BY <1>0, <1>3, <3>1, ClearPoolCarries, CarriesBoth
    <3>3. Carries("reader", w, Do("tbInit"), w)
      BY <1>0, <1>3, RestCarries DEF Writes
    <3>4. Carries("reader", a, ((WaitMain \o ZeroTable(size)) \o ClearPool(size))
                                 \o Do("tbInit"), w)
      BY <3>2, <3>3, CarriesBoth
    <3> QED BY <3>4 DEF SearchClear
  <2>2. Fit(w)
    BY <1>0, <1>2, FurnishedIsFit
  <2>3. CommandScript(c, k) = SearchClear(size)
    BY <1>7 DEF CommandScript
  <2> QED BY <2>1, <2>2, <2>3
<1>8. CASE c = "Hash"
  <2>1. Carries("reader", a, ApplyIdle \o SetTTSize(size), b)
    BY <1>0, <1>1, <1>3, SetTTSizeCarries, CarriesBoth
  <2>2. CommandScript(c, k) = ApplyIdle \o SetTTSize(size)
    BY <1>8 DEF CommandScript
  <2> QED BY <1>4, <2>1, <2>2
<1>9. CASE c = "Threads"
  <2>1. PICK e : Furnished(e, k) /\ Carries("reader", b, ResizeThreads(size, k), e)
    BY <1>0, <1>3, ResizeCarries
  <2>2. Carries("reader", a, ApplyIdle \o ResizeThreads(size, k), e)
    BY <1>1, <2>1, CarriesBoth
  <2>3. CommandScript(c, k) = ApplyIdle \o ResizeThreads(size, k)
    BY <1>9 DEF CommandScript
  <2> QED BY <2>1, <2>2, <2>3, FurnishedIsFit
<1>10. CASE c = "NumaPolicy"
  <2>1. PICK d : AtRest(d, size) /\ Carries("reader", b, Do("replaceNet"), d)
    BY <1>0, <1>3, ReplaceNetAtRest
  <2>2. Carries("reader", a, ApplyIdle \o Do("replaceNet"), d)
    BY <1>1, <2>1, CarriesBoth
  <2>3. PICK e : Furnished(e, size) /\ Carries("reader", d, ResizeThreads(size, size), e)
    BY <1>0, <2>1, ResizeCarries
  <2>4. Carries("reader", a, (ApplyIdle \o Do("replaceNet")) \o ResizeThreads(size, size), e)
    BY <2>2, <2>3, CarriesBoth
  <2>5. AtRest(e, size)
    BY <2>3 DEF Furnished
  <2>6. PICK f : Furnished(f, size) /\ Carries("reader", e, Do("rehand"), f)
    BY <1>0, <2>5, RehandAtRest
  <2>7. Carries("reader", a, ((ApplyIdle \o Do("replaceNet")) \o ResizeThreads(size, size))
                               \o Do("rehand"), f)
    BY <2>4, <2>6, CarriesBoth
  <2>8. CommandScript(c, k) = ((ApplyIdle \o Do("replaceNet")) \o ResizeThreads(size, size))
                                \o Do("rehand")
    BY <1>10 DEF CommandScript
  <2> QED BY <1>0, <2>6, <2>7, <2>8, FurnishedIsFit
<1>11. PICK d : AtRest(d, size) /\ Carries("reader", b, Do("replaceNet"), d)
  BY <1>0, <1>3, ReplaceNetAtRest
<1>12. PICK e : Furnished(e, size) /\ Carries("reader", d, Do("rehand"), e)
  BY <1>0, <1>11, RehandAtRest
<1>13. AtRest(e, size) /\ e.dangling = {} /\ Fit(e)
  BY <1>0, <1>12, FurnishedIsFit DEF Furnished
<1>14. CASE c = "EvalFile"
  <2>1. Carries("reader", b, Do("replaceNet") \o Do("rehand"), e)
    BY <1>11, <1>12, CarriesBoth
  <2>2. Carries("reader", b, (Do("replaceNet") \o Do("rehand")) \o ClearPool(size), e)
    BY <1>0, <1>13, <2>1, ClearPoolCarries, CarriesBoth
  <2>3. Carries("reader", a, ApplyIdle \o ((Do("replaceNet") \o Do("rehand"))
                                            \o ClearPool(size)), e)
    BY <1>1, <2>2, CarriesBoth
  <2>4. CommandScript(c, k) = ApplyIdle \o ((Do("replaceNet") \o Do("rehand"))
                                            \o ClearPool(size))
    BY <1>14 DEF CommandScript, LoadNetwork
  <2> QED BY <1>13, <2>3, <2>4
<1>15. CASE c = "export_net"
  <2>1. Carries("reader", a, ApplyIdle \o Do("replaceNet"), d)
    BY <1>1, <1>11, CarriesBoth
  <2>2. Carries("reader", a, (ApplyIdle \o Do("replaceNet")) \o Do("rehand"), e)
    BY <1>12, <2>1, CarriesBoth
  <2>3. CommandScript(c, k) = (ApplyIdle \o Do("replaceNet")) \o Do("rehand")
    BY <1>15 DEF CommandScript
  <2> QED BY <1>13, <2>2, <2>3
<1>16. CASE c = "Clear Hash"
  <2>1. Carries("reader", a, ApplyIdle \o SearchClear(size), b)
    BY <1>0, <1>1, <1>3, SearchClearCarries, CarriesBoth
  <2>2. CommandScript(c, k) = ApplyIdle \o SearchClear(size)
    BY <1>16 DEF CommandScript
  <2> QED BY <1>4, <2>1, <2>2
<1>17. CASE c = "SyzygyPath"
  <2>1. Carries("reader", b, Do("tbInit"), b)
    BY <1>0, <1>3, RestCarries DEF Writes
  <2>2. Carries("reader", a, ApplyIdle \o Do("tbInit"), b)
    BY <1>1, <2>1, CarriesBoth
  <2>3. CommandScript(c, k) = ApplyIdle \o Do("tbInit")
    BY <1>17 DEF CommandScript
  <2> QED BY <1>4, <2>2, <2>3
<1>18. CASE c = "error"
  <2>1. Carries("reader", b, Do("die"), b)
    BY <1>0, <1>3, RestCarries DEF Writes
  <2>2. Carries("reader", a, ApplyIdle \o Do("die"), b)
    BY <1>1, <2>1, CarriesBoth
  <2>3. CommandScript(c, k) = ApplyIdle \o Do("die")
    BY <1>18 DEF CommandScript
  <2> QED BY <1>4, <2>2, <2>3
<1>19. c \in CommandNames
  OBVIOUS
<1> QED BY <1>5, <1>6, <1>7, <1>8, <1>9, <1>10, <1>14, <1>15, <1>16, <1>17, <1>18, <1>19
        DEF CommandNames

(* The session begins with the construction of a pool of one thread.        *)
LEMMA FirstScriptCarries ==
  ASSUME NEW a, AtRest(a, 0)
  PROVE  \E b : Fit(b) /\ Carries("reader", a, ResizeThreads(0, 1), b)
<1>1. 0 \in 0 .. MaxThreads /\ 1 \in 1 .. MaxThreads
  OBVIOUS
<1> QED BY <1>1, ResizeCarries, FurnishedIsFit

(***************************************************************************)
(* start_searching on the main worker.                                     *)
(***************************************************************************)
LEMMA FirstHelpers ==
  ASSUME NEW n \in 0 .. MaxThreads - 1
  PROVE  /\ n \in Nat
         /\ 1 .. n \subseteq Helpers
         /\ \A i \in 1 .. n : /\ i \in Helpers /\ i \in Threads /\ i # Main /\ i \in Nat
                              /\ i - 1 \in 0 .. n /\ i \in 0 .. n
         /\ 0 \in 0 .. n /\ n \in 0 .. n
  BY DEF Helpers, Main

(* A step of the main worker that concerns no pool thread.                  *)
LEMMA OwnStepCarries ==
  ASSUME NEW a \in Knowledge,
         NEW op \in {"newSearch", "iterate", "halt", "vote"},
         op = "vote" => Helpers \subseteq a.parked,
         op = "halt" => a.due = "free"
  PROVE  Carries("main", a, Do(op), a)
<1> DEFINE x == Op(op, Main, NoJob)
<1>0. op \in Ops
  BY DEF Ops
<1>1. x \in Steps /\ x.op = op
  BY <1>0, OpIs, MainIsAThread
<1>2. May("main", a, x)
  BY <1>1 DEF May, MainMay, ThreadOps
<1>3. Learn(a, x) = a
  BY <1>1, LearnsNothing
<1>4. Do(op) = <<x>>
  BY DEF Do, Op
<1> HIDE DEF x
<1> QED BY <1>1, <1>2, <1>3, <1>4, CarriesOne

(* The busy wait frees the answer, the bestmove gives it.                   *)
LEMMA AnswerCarries ==
  ASSUME NEW a \in Knowledge
  PROVE  /\ a.due # "no" =>
              Carries("main", a, Do("spin"),
                      Know(a.parked, a.there, a.size, a.current, a.resident, a.dangling,
                           a.leaving, a.searching, "free"))
         /\ a.due = "free" =>
              Carries("main", a, Do("bestmove"),
                      Know(a.parked, a.there, a.size, a.current, a.resident, a.dangling,
                           a.leaving, a.searching, "no"))
<1>1. "spin" \in Ops /\ "bestmove" \in Ops
  BY DEF Ops
<1> DEFINE x == Op("spin", Main, NoJob)
<1> DEFINE y == Op("bestmove", Main, NoJob)
<1>2. x \in Steps /\ x.op = "spin" /\ Do("spin") = <<x>>
  BY <1>1, OpIs, MainIsAThread DEF Do, Op
<1>3. y \in Steps /\ y.op = "bestmove" /\ Do("bestmove") = <<y>>
  BY <1>1, OpIs, MainIsAThread DEF Do, Op
<1> HIDE DEF x, y
<1>4. (a.due # "no" => May("main", a, x)) /\ (a.due = "free" => May("main", a, y))
  BY <1>2, <1>3 DEF May, MainMay, ThreadOps
<1>5. Learn(a, x) = Know(a.parked, a.there, a.size, a.current, a.resident, a.dangling,
                         a.leaving, a.searching, "free")
  BY <1>2 DEF Learn, Know
<1>6. Learn(a, y) = Know(a.parked, a.there, a.size, a.current, a.resident, a.dangling,
                         a.leaving, a.searching, "no")
  BY <1>3 DEF Learn, Know
<1> QED BY <1>2, <1>3, <1>4, <1>5, <1>6, CarriesOne

(* The main worker hands the search to one helper.                          *)
LEMMA LaunchCarries ==
  ASSUME NEW a \in Knowledge, a.searching = FALSE, NEW n \in 0 .. MaxThreads - 1,
         a.size = n + 1, NEW th \in 1 .. n
  PROVE  Carries("main", a, Run(th, "search"),
                 Know(a.parked \ {th}, a.there, a.size, a.current, a.resident,
                      a.dangling, a.leaving, FALSE, a.due))
<1> DEFINE x == Op("put", th, "search")
<1> DEFINE y == Op("notify", th, NoJob)
<1> DEFINE b == Know(a.parked \ {th}, a.there, a.size, a.current, a.resident,
                     a.dangling, a.leaving, FALSE, a.due)
<1>0. th \in Threads /\ th # Main /\ th \in 1 .. a.size - 1
  BY FirstHelpers
<1>1. x \in Steps /\ x.op = "put" /\ x.th = th /\ x.job = "search"
  BY <1>0, OpIs DEF Ops, ThreadOps
<1>2. y \in Steps /\ y.op = "notify" /\ y.th = th
  BY <1>0, OpIs DEF Ops, ThreadOps
<1>3. Run(th, "search") = <<x>> \o <<y>>
  BY DEF Run, Op
<1> HIDE DEF x, y
<1>4. May("main", a, x)
  BY <1>0, <1>1 DEF May, MainMay
<1>5. Learn(a, x) = b
  BY <1>0, <1>1 DEF Learn, Know
<1>6. b \in Knowledge /\ b.size = a.size
  BY LearnType, <1>1, <1>5 DEF Know
<1> HIDE DEF b
<1>7. Carries("main", a, <<x>>, b)
  BY <1>1, <1>4, <1>5, CarriesOne
<1>8. May("main", b, y)
  BY <1>0, <1>2, <1>6 DEF May, MainMay
<1>9. Learn(b, y) = b
  BY <1>2, <1>6, LearnsNothing
<1>10. Carries("main", b, <<y>>, b)
  BY <1>2, <1>6, <1>8, <1>9, CarriesOne
<1>11. Carries("main", a, <<x>> \o <<y>>, b)
  BY <1>7, <1>10, CarriesBoth
<1> QED BY <1>3, <1>11 DEF b

(* The main worker waits for one helper.                                    *)
LEMMA GatherCarries ==
  ASSUME NEW a \in Knowledge, a.searching = FALSE, NEW n \in 0 .. MaxThreads - 1,
         a.size = n + 1, NEW th \in 1 .. n
  PROVE  Carries("main", a, WaitFor(th),
                 Know(a.parked \cup {th}, a.there, a.size, a.current, a.resident,
                      a.dangling, a.leaving, FALSE, a.due))
<1> DEFINE x == Op("wait", th, NoJob)
<1>0. th \in Threads /\ th # Main /\ th \in 1 .. a.size - 1
  BY FirstHelpers
<1>1. x \in Steps /\ x.op = "wait" /\ x.th = th
  BY <1>0, OpIs DEF Ops, ThreadOps
<1>2. May("main", a, x)
  BY <1>0, <1>1 DEF May, MainMay
<1>3. Learn(a, x) = Know(a.parked \cup {th}, a.there, a.size, a.current, a.resident,
                         a.dangling, a.leaving, FALSE, a.due)
  BY <1>0, <1>1 DEF Learn, Know
<1>4. WaitFor(th) = <<x>>
  BY DEF WaitFor, On, Op
<1> HIDE DEF x
<1> QED BY <1>1, <1>2, <1>3, <1>4, CarriesOne

(* The helpers launched one after the other.                                *)
LEMMA LaunchAllCarries ==
  ASSUME NEW n \in 0 .. MaxThreads - 1, NEW a \in Knowledge, a.searching = FALSE,
         a.size = n + 1
  PROVE  Carries("main", a, FlattenSeq([i \in 1 .. n |-> Run(i, "search")]),
                 Know(a.parked \ (1 .. n), a.there, a.size, a.current, a.resident,
                      a.dangling, a.leaving, FALSE, a.due))
<1> DEFINE K(j) == Know(a.parked \ (1 .. j), a.there, a.size, a.current, a.resident,
                        a.dangling, a.leaving, FALSE, a.due)
<1> DEFINE k == [j \in 0 .. n |-> K(j)]
<1> DEFINE seqs == [i \in 1 .. n |-> Run(i, "search")]
<1>1. \A j \in 0 .. n : k[j] = K(j)
  <2> HIDE DEF K
  <2> QED OBVIOUS
<1>2. K(0) = a
  <2>1. a.parked \ (1 .. 0) = a.parked
    BY DEF Knowledge
  <2> QED BY <2>1, KnowIs
<1>3. ASSUME NEW i \in 1 .. n PROVE Carries("main", k[i - 1], seqs[i], k[i])
  <2> DEFINE b == K(i - 1)
  <2>1. seqs[i] = Run(i, "search")
    OBVIOUS
  <2>2. k[i - 1] = b /\ k[i] = K(i)
    <3> HIDE DEF K, k
    <3> QED BY <1>1, FirstHelpers
  <2>3. b \in Knowledge
    <3>1. /\ a.parked \ (1 .. i - 1) \in SUBSET Threads /\ a.size \in Int
          /\ a.there \in SUBSET Threads
          /\ a.current \in SUBSET Threads /\ a.resident \in SUBSET Threads
          /\ a.dangling \in SUBSET Threads /\ a.leaving \in SUBSET Threads
          /\ FALSE \in BOOLEAN /\ a.due \in Due
      BY DEF Knowledge
    <3> QED BY <3>1, KnowType
  <2>4. (a.parked \ (1 .. i - 1)) \ {i} = a.parked \ (1 .. i)
    BY FirstHelpers DEF Knowledge
  <2>5. /\ b.searching = FALSE /\ b.size = n + 1
        /\ K(i) = Know(b.parked \ {i}, b.there, b.size, b.current, b.resident,
                       b.dangling, b.leaving, FALSE, b.due)
    BY <2>4 DEF Know
  <2> HIDE DEF b, k, seqs, K
  <2>6. i \in 1 .. n
    OBVIOUS
  <2>7. Carries("main", b, Run(i, "search"),
                Know(b.parked \ {i}, b.there, b.size, b.current, b.resident, b.dangling,
                     b.leaving, FALSE, b.due))
    BY <2>3, <2>5, <2>6, LaunchCarries
  <2> QED BY <2>1, <2>2, <2>5, <2>7
<1>4. seqs = [i \in 1 .. n |-> seqs[i]]
  OBVIOUS
<1>5. Carries("main", k[0], FlattenSeq(seqs), k[n])
  <2>1. k[0] \in Knowledge
    <3> HIDE DEF K, k
    <3> QED BY <1>1, <1>2, FirstHelpers
  <2> HIDE DEF k, seqs, K
  <2> QED BY <1>3, <1>4, <2>1, FirstHelpers, CarriesLoop
<1>6. k[0] = a /\ k[n] = K(n)
  <2> HIDE DEF K, k
  <2> QED BY <1>1, <1>2, FirstHelpers
<1>7. Carries("main", a, FlattenSeq(seqs), K(n))
  <2> HIDE DEF K, k, seqs
  <2> QED BY <1>5, <1>6
<1> QED BY <1>7

(* The helpers gathered one after the other.                                *)
LEMMA GatherAllCarries ==
  ASSUME NEW n \in 0 .. MaxThreads - 1, NEW a \in Knowledge, a.searching = FALSE,
         a.size = n + 1
  PROVE  Carries("main", a, FlattenSeq([i \in 1 .. n |-> WaitFor(i)]),
                 Know(a.parked \cup (1 .. n), a.there, a.size, a.current, a.resident,
                      a.dangling, a.leaving, FALSE, a.due))
<1> DEFINE K(j) == Know(a.parked \cup (1 .. j), a.there, a.size, a.current, a.resident,
                        a.dangling, a.leaving, FALSE, a.due)
<1> DEFINE k == [j \in 0 .. n |-> K(j)]
<1> DEFINE seqs == [i \in 1 .. n |-> WaitFor(i)]
<1>1. \A j \in 0 .. n : k[j] = K(j)
  <2> HIDE DEF K
  <2> QED OBVIOUS
<1>2. K(0) = a
  <2>1. a.parked \cup (1 .. 0) = a.parked
    BY DEF Knowledge
  <2> QED BY <2>1, KnowIs
<1>3. ASSUME NEW i \in 1 .. n PROVE Carries("main", k[i - 1], seqs[i], k[i])
  <2> DEFINE b == K(i - 1)
  <2>1. seqs[i] = WaitFor(i)
    OBVIOUS
  <2>2. k[i - 1] = b /\ k[i] = K(i)
    <3> HIDE DEF K, k
    <3> QED BY <1>1, FirstHelpers
  <2>3. b \in Knowledge
    <3>1. 1 .. i - 1 \subseteq Threads
      BY FirstHelpers
    <3>2. /\ a.parked \cup (1 .. i - 1) \in SUBSET Threads /\ a.size \in Int
          /\ a.there \in SUBSET Threads
          /\ a.current \in SUBSET Threads /\ a.resident \in SUBSET Threads
          /\ a.dangling \in SUBSET Threads /\ a.leaving \in SUBSET Threads
          /\ FALSE \in BOOLEAN /\ a.due \in Due
      BY <3>1 DEF Knowledge
    <3> QED BY <3>2, KnowType
  <2>4. (a.parked \cup (1 .. i - 1)) \cup {i} = a.parked \cup (1 .. i)
    BY FirstHelpers DEF Knowledge
  <2>5. /\ b.searching = FALSE /\ b.size = n + 1
        /\ K(i) = Know(b.parked \cup {i}, b.there, b.size, b.current, b.resident,
                       b.dangling, b.leaving, FALSE, b.due)
    BY <2>4 DEF Know
  <2> HIDE DEF b, k, seqs, K
  <2>6. i \in 1 .. n
    OBVIOUS
  <2>7. Carries("main", b, WaitFor(i),
                Know(b.parked \cup {i}, b.there, b.size, b.current, b.resident, b.dangling,
                     b.leaving, FALSE, b.due))
    BY <2>3, <2>5, <2>6, GatherCarries
  <2> QED BY <2>1, <2>2, <2>5, <2>7
<1>4. seqs = [i \in 1 .. n |-> seqs[i]]
  OBVIOUS
<1>5. Carries("main", k[0], FlattenSeq(seqs), k[n])
  <2>1. k[0] \in Knowledge
    <3> HIDE DEF K, k
    <3> QED BY <1>1, <1>2, FirstHelpers
  <2> HIDE DEF k, seqs, K
  <2> QED BY <1>3, <1>4, <2>1, FirstHelpers, CarriesLoop
<1>6. k[0] = a /\ k[n] = K(n)
  <2> HIDE DEF K, k
  <2> QED BY <1>1, <1>2, FirstHelpers
<1>7. Carries("main", a, FlattenSeq(seqs), K(n))
  <2> HIDE DEF K, k, seqs
  <2> QED BY <1>5, <1>6
<1> QED BY <1>7

(* A search starts with the helpers parked and ends with them parked; the   *)
(* vote comes when they are.                                                *)
LEMMA MainScriptCarries ==
  ASSUME NEW n \in 1 .. MaxThreads, NEW a \in Knowledge, a.searching = FALSE, a.size = n,
         Helpers \subseteq a.parked, a.due = IF hasMoves THEN "held" ELSE "free"
  PROVE  \E b : /\ Carries("main", a, MainScript(n), b)
                /\ Helpers \subseteq b.parked /\ b.size = n /\ b.due = "no"
<1> DEFINE puts == FlattenSeq([i \in 1 .. n - 1 |-> Run(i, "search")])
<1> DEFINE waits == FlattenSeq([i \in 1 .. n - 1 |-> WaitFor(i)])
<1> DEFINE s1 == puts \o Do("iterate")
<1> DEFINE s2 == s1 \o Do("spin")
<1> DEFINE s3 == s2 \o Do("halt")
<1> DEFINE s4 == s3 \o waits
<1> DEFINE s5 == s4 \o Do("vote")
<1> DEFINE m == IF hasMoves THEN s5 ELSE << >>
<1>1. MainScript(n) = (Do("newSearch") \o m) \o Do("bestmove")
  BY DEF MainScript, EachHelper
<1>2. n - 1 \in 0 .. MaxThreads - 1 /\ a.size = (n - 1) + 1
  OBVIOUS
<1> DEFINE b == Know(a.parked \ (1 .. n - 1), a.there, a.size, a.current, a.resident,
                     a.dangling, a.leaving, FALSE, a.due)
<1>3. Carries("main", a, puts, b)
  BY <1>2, LaunchAllCarries
<1>4. b \in Knowledge /\ b.searching = FALSE /\ b.size = n /\ b.due # "no"
  BY <1>3, CarriesFrom DEF Know
<1>5. (a.parked \ (1 .. n - 1)) \cup (1 .. n - 1) = a.parked \cup (1 .. n - 1)
  OBVIOUS
<1>6. b.parked \cup (1 .. n - 1) = a.parked \cup (1 .. n - 1)
  BY <1>5 DEF Know
<1> HIDE DEF b, puts
<1>7. Carries("main", a, s1, b)
  BY <1>3, <1>4, OwnStepCarries, CarriesBoth
<1> HIDE DEF s1
<1> DEFINE f == Know(b.parked, b.there, b.size, b.current, b.resident, b.dangling, b.leaving,
                     b.searching, "free")
<1>20. Carries("main", b, Do("spin"), f)
  BY <1>4, AnswerCarries
<1>21. /\ f \in Knowledge /\ f.searching = FALSE /\ f.size = n /\ f.due = "free"
       /\ f.parked = b.parked
  <2>1. f \in Knowledge
    BY <1>20, CarriesFrom
  <2> QED BY <1>4, <2>1 DEF Know
<1> HIDE DEF f
<1>8. Carries("main", a, s2, f)
  BY <1>7, <1>20, CarriesBoth
<1> HIDE DEF s2
<1>9. Carries("main", a, s3, f)
  BY <1>21, <1>8, OwnStepCarries, CarriesBoth
<1> HIDE DEF s3
<1> DEFINE c == Know(f.parked \cup (1 .. n - 1), f.there, f.size, f.current, f.resident,
                     f.dangling, f.leaving, FALSE, f.due)
<1>10. Carries("main", f, waits, c)
  <2>1. f.size = (n - 1) + 1
    BY <1>2, <1>21
  <2> QED BY <1>2, <1>21, <2>1, GatherAllCarries
<1>11. c \in Knowledge /\ c.size = n /\ Helpers \subseteq c.parked /\ c.due = "free"
  <2>1. c \in Knowledge
    BY <1>10, CarriesFrom
  <2> QED BY <1>21, <1>6, <2>1 DEF Know
<1> HIDE DEF c, waits
<1>12. Carries("main", a, s4, c)
  BY <1>9, <1>10, CarriesBoth
<1> HIDE DEF s4
<1>13. Carries("main", a, s5, c)
  BY <1>11, <1>12, OwnStepCarries, CarriesBoth
<1> HIDE DEF s5
<1>14. \E e : /\ Carries("main", a, m, e)
              /\ e \in Knowledge /\ Helpers \subseteq e.parked /\ e.size = n /\ e.due = "free"
  <2>1. CASE hasMoves
    BY <1>11, <1>13, <2>1
  <2>2. CASE ~hasMoves
    BY <2>2, CarriesNothing
  <2> QED BY <2>1, <2>2
<1> HIDE DEF m
<1>15. PICK e : /\ Carries("main", a, m, e)
                /\ e \in Knowledge /\ Helpers \subseteq e.parked /\ e.size = n
                /\ e.due = "free"
  BY <1>14
<1>16. Carries("main", a, Do("newSearch"), a)
  BY OwnStepCarries
<1>17. Carries("main", a, Do("newSearch") \o m, e)
  BY <1>15, <1>16, CarriesBoth
<1> DEFINE g == Know(e.parked, e.there, e.size, e.current, e.resident, e.dangling, e.leaving,
                     e.searching, "no")
<1>18. Carries("main", e, Do("bestmove"), g)
  BY <1>15, AnswerCarries
<1>19. Carries("main", a, (Do("newSearch") \o m) \o Do("bestmove"), g)
  <2> HIDE DEF g
  <2> QED BY <1>17, <1>18, CarriesBoth
<1>22. Helpers \subseteq g.parked /\ g.size = n /\ g.due = "no"
  BY <1>15 DEF Know
<1> QED BY <1>1, <1>19, <1>22

(***************************************************************************)
(* The inductive invariant.                                                *)
(***************************************************************************)
Idling == {th \in Threads : slot[th] \in {"none", "idle"}}

(* The main worker has been given a search, or runs it.                     *)
MainSearches == slot[Main] \in {"full", "busy"} /\ held[Main] = "search" /\ ~exiting[Main]

Typed == /\ SlotTypeOK
         /\ script \in [Drivers -> Seq(Steps)]
         /\ size \in Int
         /\ root \in [Threads -> {"none", "old", "current"}]
         /\ network \in [Threads -> {"none", "resident", "dangling"}]

(* A search is stopped only when its answer may be given.                   *)
StopIsDue == ~(stop /\ HeldBack)

(* What the reader knows is so: while the main worker searches, the helpers *)
(* are the main worker's and count as parked.                               *)
Holds(a) == /\ a.parked \subseteq IF MainSearches THEN Helpers ELSE Idling
            /\ a.there = {th \in Threads : slot[th] # "none"}
            /\ a.size = size
            /\ a.current = {th \in Threads : root[th] = "current"}
            /\ a.resident = {th \in Threads : network[th] = "resident"}
            /\ a.dangling = {th \in Threads : network[th] = "dangling"}
            /\ a.leaving = {th \in Threads : exiting[th]}
            /\ MainSearches => a.searching /\ a.due = "no"
            /\ ~MainSearches => owed = IF a.due = "no" THEN 0 ELSE 1

(* The reader may execute what is left of its script, and is then ready for *)
(* the next command.                                                        *)
ReaderInv == \E a, b : /\ Holds(a)
                       /\ Carries("reader", a, script["reader"], b)
                       /\ leaving = "no" => Fit(b)

(* The main worker may execute what is left of its search, which ends with  *)
(* the helpers parked.                                                      *)
MainInv == MainSearches =>
             \E a, b : /\ a.parked \subseteq Idling
                       /\ a.size = size
                       /\ owed = IF slot[Main] = "busy" /\ a.due = "no" THEN 0 ELSE 1
                       /\ slot[Main] = "busy" /\ a.due = "free" => ~HeldBack
                       /\ Carries("main", a, script["main"], b)
                       /\ Helpers \subseteq b.parked
                       /\ slot[Main] = "busy" => b.due = "no"

(* While the main worker searches, the pool is complete and furnished.      *)
SearchIsReady == MainSearches =>
                   /\ size \in 1 .. MaxThreads
                   /\ \A th \in Threads : th < size => /\ slot[th] # "none"
                                                       /\ ~exiting[th]
                                                       /\ root[th] = "current"
                                                       /\ network[th] = "resident"
                   /\ \A th \in Threads : slot[th] # "none" => th < size

SlotsRest == /\ ~MainSearches \/ slot[Main] = "full" => script["main"] = << >>
             /\ \A th \in Threads :
                   /\ slot[th] \in {"none", "idle"} => held[th] = NoJob
                   /\ exiting[th] => slot[th] \in {"idle", "full", "dead"}
                   /\ held[th] = "search" /\ ~exiting[th] /\ th # Main => MainSearches
                   /\ slot[th] \in {"full", "busy"} /\ held[th] = "clear"
                        => network[th] # "dangling"

IInv == Typed /\ ReaderInv /\ MainInv /\ SearchIsReady /\ SlotsRest /\ StopIsDue

(* The constructor of the engine builds a pool of one thread.               *)
LEMMA InitEstablishesInvariant == Init => IInv
<1> SUFFICES ASSUME Init PROVE IInv
  OBVIOUS
<1> DEFINE a == Know(Threads, {}, 0, {}, {}, {}, {}, FALSE, "no")
<1>1. ~MainSearches /\ Idling = Threads
  BY MainIsAThread DEF Init, SlotInit, MainSearches, Idling
<1>2. a \in Knowledge
  BY DEF Know, Knowledge, Due
<1>3. AtRest(a, 0)
  BY <1>2 DEF AtRest, Know
<1>4. Holds(a)
  BY <1>1 DEF Holds, Know, Init, SlotInit
<1> HIDE DEF a
<1>5. PICK b : Fit(b) /\ Carries("reader", a, ResizeThreads(0, 1), b)
  BY <1>3, FirstScriptCarries
<1>6. ResizeThreads(0, 1) \in Seq(Steps)
  BY <1>5, CarriesFrom
<1>7. Typed
  BY <1>6 DEF Typed, SlotTypeOK, Init, SlotInit, Drivers
<1>8. script["reader"] = ResizeThreads(0, 1) /\ script["main"] = << >>
  BY DEF Init, Drivers
<1>9. ReaderInv
  BY <1>4, <1>5, <1>8 DEF ReaderInv
<1>10. MainInv /\ SearchIsReady
  BY <1>1 DEF MainInv, SearchIsReady
<1>11. SlotsRest
  BY <1>8 DEF SlotsRest, Init, SlotInit
<1>12. StopIsDue
  BY DEF StopIsDue, Init
<1> QED BY <1>7, <1>9, <1>10, <1>11, <1>12 DEF IInv

(***************************************************************************)
(* The drivers' next steps.                                                *)
(***************************************************************************)
(* What the invariant says of the reader's next step.                       *)
LEMMA ReaderKnows ==
  ASSUME Typed, ReaderInv, script["reader"] # << >>
  PROVE  \E a, b : /\ a \in Knowledge /\ Holds(a)
                   /\ Step("reader") \in Steps
                   /\ ReaderMay(a, Step("reader"))
                   /\ Carries("reader", Learn(a, Step("reader")), Tail(script["reader"]), b)
                   /\ leaving = "no" => Fit(b)
<1>1. PICK a, b : /\ Holds(a)
                  /\ Carries("reader", a, script["reader"], b)
                  /\ leaving = "no" => Fit(b)
  BY DEF ReaderInv
<1>2. a \in Knowledge
  BY <1>1, CarriesFrom
<1>3. /\ Step("reader") \in Steps
      /\ May("reader", a, Step("reader"))
      /\ Carries("reader", Learn(a, Step("reader")), Tail(script["reader"]), b)
  BY <1>1, CarriesRest DEF Step
<1> QED BY <1>1, <1>2, <1>3 DEF May

(* A guarded step finds every thread parked.                                *)
LEMMA GuardedMeansParked ==
  ASSUME Typed, NEW a \in Knowledge, Holds(a), a.parked = Threads
  PROVE  ~MainSearches /\ Idling = Threads
  BY MainIsAThread DEF Holds, Helpers, Idling

(* What the invariant says of the main worker's next step.                  *)
LEMMA MainKnows ==
  ASSUME Typed, MainInv, MainSearches, slot[Main] = "busy", script["main"] # << >>
  PROVE  \E a, b : /\ a \in Knowledge /\ a.parked \subseteq Idling /\ a.size = size
                   /\ owed = IF a.due = "no" THEN 0 ELSE 1
                   /\ a.due = "free" => ~HeldBack
                   /\ Step("main") \in Steps
                   /\ MainMay(a, Step("main"))
                   /\ Carries("main", Learn(a, Step("main")), Tail(script["main"]), b)
                   /\ Helpers \subseteq b.parked /\ b.due = "no"
<1>1. PICK a, b : /\ a.parked \subseteq Idling
                  /\ a.size = size
                  /\ owed = IF a.due = "no" THEN 0 ELSE 1
                  /\ a.due = "free" => ~HeldBack
                  /\ Carries("main", a, script["main"], b)
                  /\ Helpers \subseteq b.parked /\ b.due = "no"
  BY DEF MainInv
<1>2. a \in Knowledge
  BY <1>1, CarriesFrom
<1>3. /\ Step("main") \in Steps
      /\ May("main", a, Step("main"))
      /\ Carries("main", Learn(a, Step("main")), Tail(script["main"]), b)
  BY <1>1, CarriesRest DEF Step
<1> QED BY <1>1, <1>2, <1>3 DEF May

(* Advancing one driver.                                                    *)
LEMMA AdvanceIs ==
  ASSUME Typed, NEW d \in Drivers, Advance(d), script[d] # << >>
  PROVE  /\ script' \in [Drivers -> Seq(Steps)]
         /\ script'[d] = Tail(script[d])
         /\ \A e \in Drivers : e # d => script'[e] = script[e]
<1>1. script[d] \in Seq(Steps) /\ Tail(script[d]) \in Seq(Steps)
  BY DEF Typed
<1> QED BY <1>1 DEF Advance, Typed

(* A reader step keeps ReaderInv if what the reader learns from it is so.   *)
LEMMA ReaderInvKept ==
  ASSUME NEW a, NEW b, Holds(a)', leaving' = leaving,
         Carries("reader", a, script["reader"]', b), leaving = "no" => Fit(b)
  PROVE  ReaderInv'
  BY DEF ReaderInv

(* MainInv goes on if no thread starts to run, the main worker's slot and   *)
(* script do not change, and the GUI holds no more back than before.        *)
LEMMA MainInvKept ==
  ASSUME MainInv, UNCHANGED <<size, owed>>, MainSearches' = MainSearches,
         MainSearches => slot'[Main] = slot[Main], Idling \subseteq Idling',
         script'["main"] = script["main"], HeldBack' => HeldBack
  PROVE  MainInv'
<1>1. SUFFICES ASSUME MainSearches PROVE MainInv'
  BY DEF MainInv
<1>2. PICK a, b : /\ a.parked \subseteq Idling
                  /\ a.size = size
                  /\ owed = IF slot[Main] = "busy" /\ a.due = "no" THEN 0 ELSE 1
                  /\ slot[Main] = "busy" /\ a.due = "free" => ~HeldBack
                  /\ Carries("main", a, script["main"], b)
                  /\ Helpers \subseteq b.parked
                  /\ slot[Main] = "busy" => b.due = "no"
  BY <1>1 DEF MainInv
<1>3. /\ a.parked \subseteq Idling'
      /\ a.size = size'
      /\ owed' = IF slot'[Main] = "busy" /\ a.due = "no" THEN 0 ELSE 1
      /\ slot'[Main] = "busy" /\ a.due = "free" => ~HeldBack'
      /\ Carries("main", a, script'["main"], b)
      /\ slot'[Main] = "busy" => b.due = "no"
  BY <1>1, <1>2
<1> QED BY <1>2, <1>3 DEF MainInv

(***************************************************************************)
(* Steps that touch neither slots nor scripts nor pool.                    *)
(***************************************************************************)
LEMMA FramePreserves ==
  ASSUME IInv, UNCHANGED <<slots, script, pool, leaving, owed>>,
         HeldBack' => HeldBack, StopIsDue'
  PROVE  IInv'
<1> USE DEF slots, pool
<1>1. MainSearches' = MainSearches /\ Idling' = Idling
  BY DEF MainSearches, Idling
<1>2. Typed'
  BY DEF IInv, Typed, SlotTypeOK
<1>3. ReaderInv'
  <2>1. PICK a, b : /\ Holds(a)
                    /\ Carries("reader", a, script["reader"], b)
                    /\ leaving = "no" => Fit(b)
    BY DEF IInv, ReaderInv
  <2>2. Holds(a)'
    BY <1>1, <2>1 DEF Holds
  <2> QED BY <2>1, <2>2, ReaderInvKept
<1>4. MainInv'
  BY <1>1, MainInvKept DEF IInv
<1>5. SearchIsReady'
  BY <1>1 DEF IInv, SearchIsReady
<1>6. SlotsRest'
  BY <1>1 DEF IInv, SlotsRest
<1> QED BY <1>2, <1>3, <1>4, <1>5, <1>6 DEF IInv

(* Steps that write no flag of the search.                                  *)
LEMMA NothingHeld ==
  ASSUME StopIsDue, UNCHANGED <<search, promised>>
  PROVE  HeldBack' = HeldBack /\ StopIsDue'
  BY DEF StopIsDue, HeldBack, Held, EndsItself, search, promised

(***************************************************************************)
(* The steps of the reader.                                                *)
(***************************************************************************)
(* A step that only advances the reader, and teaches it nothing it could    *)
(* not see.                                                                 *)
LEMMA ReaderAdvancePreserves ==
  ASSUME IInv, script["reader"] # << >>, Advance("reader"),
         UNCHANGED <<slots, pool, leaving, owed>>,
         HeldBack' => HeldBack, StopIsDue',
         \A a \in Knowledge : Holds(a) => Holds(Learn(a, Step("reader")))
  PROVE  IInv'
<1> USE DEF slots, pool
<1>1. MainSearches' = MainSearches /\ Idling' = Idling
  BY DEF MainSearches, Idling
<1>2. /\ script' \in [Drivers -> Seq(Steps)]
      /\ script'["reader"] = Tail(script["reader"])
      /\ script'["main"] = script["main"]
  BY AdvanceIs DEF IInv, Drivers
<1>3. Typed'
  BY <1>2 DEF IInv, Typed, SlotTypeOK
<1>4. ReaderInv'
  <2>1. PICK a, b : /\ a \in Knowledge /\ Holds(a)
                    /\ Carries("reader", Learn(a, Step("reader")), Tail(script["reader"]), b)
                    /\ leaving = "no" => Fit(b)
    BY ReaderKnows DEF IInv
  <2> DEFINE c == Learn(a, Step("reader"))
  <2>2. Holds(c)
    BY <2>1
  <2>3. PICK e : e = c
    OBVIOUS
  <2>4. Holds(e) /\ Carries("reader", e, script["reader"]', b)
    BY <1>2, <2>1, <2>2, <2>3
  <2>5. Holds(e)'
    BY <1>1, <2>4 DEF Holds
  <2> QED BY <2>1, <2>4, <2>5, ReaderInvKept
<1>5. MainInv'
  BY <1>1, <1>2, MainInvKept DEF IInv
<1>6. SearchIsReady'
  BY <1>1 DEF IInv, SearchIsReady
<1>7. SlotsRest'
  BY <1>1, <1>2 DEF IInv, SlotsRest
<1> QED BY <1>3, <1>4, <1>5, <1>6, <1>7 DEF IInv

(* What the reader knows stays so if it learns nothing.                     *)
LEMMA LearnsNothingHolds ==
  ASSUME NEW x, NEW a \in Knowledge, Holds(a),
         x.op \notin {"wait", "put", "start", "join", "exit", "arm", "setRoot", "replaceNet",
                      "rehand", "spin", "bestmove"}
  PROVE  Holds(Learn(a, x))
<1>1. Learn(a, x) = a
  BY LearnsNothing
<1> QED BY <1>1

(* The fields of what is learnt from a wait.                                *)
LEMMA WaitLearns ==
  ASSUME NEW a, NEW x, x.op = "wait"
  PROVE  /\ Learn(a, x).parked = a.parked \cup {x.th}
         /\ Learn(a, x).there = a.there
         /\ Learn(a, x).size = a.size
         /\ Learn(a, x).current = a.current
         /\ Learn(a, x).resident = a.resident
         /\ Learn(a, x).dangling = a.dangling
         /\ Learn(a, x).leaving = a.leaving
         /\ Learn(a, x).due = a.due
         /\ x.th # Main => Learn(a, x).searching = a.searching
  BY DEF Learn

(* The reader sees a thread parked.                                         *)
LEMMA ReaderWaitPreserves ==
  ASSUME IInv, Wait("reader")
  PROVE  IInv'
<1> DEFINE x == Step("reader")
<1>1. script["reader"] # << >> /\ x.op = "wait" /\ slot[x.th] = "idle"
  BY DEF Wait, Ready, Step
<1>2. x \in Steps
  BY <1>1, ReaderKnows DEF IInv
<1>3. x.th \in Threads
  BY <1>2 DEF Steps
<1>4. MainSearches => x.th # Main
  BY <1>1 DEF MainSearches
<1>5. x.th \in Idling
  BY <1>1, <1>3 DEF Idling
<1>6. x.th # Main => x.th \in Helpers
  BY <1>3 DEF Helpers
<1> HIDE DEF x
<1>7. ASSUME NEW a \in Knowledge, Holds(a) PROVE Holds(Learn(a, x))
  BY <1>1, <1>4, <1>5, <1>6, <1>7, WaitLearns DEF Holds
<1>8. Advance("reader") /\ UNCHANGED <<slots, pool, leaving, search, promised>>
  BY DEF Wait, gui
<1>9. owed' = owed /\ HeldBack' = HeldBack /\ StopIsDue'
  BY <1>8, NothingHeld DEF IInv, promised
<1> QED BY <1>1, <1>7, <1>8, <1>9, ReaderAdvancePreserves DEF x

(* The steps of the reader from which it learns nothing.                    *)
LEMMA ReaderPlainPreserves ==
  ASSUME IInv, NotifyThread("reader") \/ Stop \/ WriteShared
  PROVE  IInv'
<1> DEFINE x == Step("reader")
<1>1. /\ script["reader"] # << >>
      /\ x.op \notin {"wait", "put", "start", "join", "exit", "arm", "setRoot", "replaceNet",
                      "rehand", "spin", "bestmove"}
  BY DEF NotifyThread, Stop, WriteShared, Writes, Ready, Step
<1>2. Advance("reader") /\ UNCHANGED <<slots, pool, leaving, owed>>
  BY DEF NotifyThread, Stop, WriteShared, pool, gui, promised
<1>4. (HeldBack' => HeldBack) /\ StopIsDue'
  <2>1. CASE Stop
    BY <2>1 DEF Stop, HeldBack, Held, StopIsDue
  <2>2. CASE ~Stop
    BY <2>2, NothingHeld DEF IInv, NotifyThread, WriteShared
  <2> QED BY <2>1, <2>2
<1> HIDE DEF x
<1>3. \A a \in Knowledge : Holds(a) => Holds(Learn(a, x))
  BY <1>1, LearnsNothingHolds
<1> QED BY <1>1, <1>2, <1>3, <1>4, ReaderAdvancePreserves DEF x

(* The guarded steps write roots and networks while every thread is parked. *)
LEMMA GuardedPreserves ==
  ASSUME IInv, script["reader"] # << >>, Advance("reader"),
         UNCHANGED <<slots, size, leaving>>,
         Step("reader").op \in Guarded,
         root' \in [Threads -> {"none", "old", "current"}],
         network' \in [Threads -> {"none", "resident", "dangling"}],
         StopIsDue',
         \A a \in Knowledge : Holds(a) /\ ReaderMay(a, Step("reader")) /\ ~MainSearches =>
            /\ owed' = IF Learn(a, Step("reader")).due = "no" THEN 0 ELSE 1
            /\ Learn(a, Step("reader")).parked = a.parked
            /\ Learn(a, Step("reader")).there = a.there
            /\ Learn(a, Step("reader")).size = a.size
            /\ Learn(a, Step("reader")).current = {th \in Threads : root'[th] = "current"}
            /\ Learn(a, Step("reader")).resident = {th \in Threads : network'[th] = "resident"}
            /\ Learn(a, Step("reader")).dangling = {th \in Threads : network'[th] = "dangling"}
            /\ Learn(a, Step("reader")).leaving = a.leaving
  PROVE  IInv'
<1> USE DEF slots
<1>1. PICK a, b : /\ a \in Knowledge /\ Holds(a)
                  /\ ReaderMay(a, Step("reader"))
                  /\ Carries("reader", Learn(a, Step("reader")), Tail(script["reader"]), b)
                  /\ leaving = "no" => Fit(b)
  BY ReaderKnows DEF IInv
<1>2. a.parked = Threads
  BY <1>1 DEF ReaderMay
<1>3. ~MainSearches /\ Idling = Threads
  BY <1>1, <1>2, GuardedMeansParked DEF IInv
<1>4. ~MainSearches' /\ Idling' = Threads
  BY <1>3 DEF MainSearches, Idling
<1>5. /\ script' \in [Drivers -> Seq(Steps)]
      /\ script'["reader"] = Tail(script["reader"])
      /\ script'["main"] = script["main"]
  BY AdvanceIs DEF IInv, Drivers
<1>6. Typed'
  BY <1>5 DEF IInv, Typed, SlotTypeOK
<1>7. ReaderInv'
  <2>1. PICK e : e = Learn(a, Step("reader"))
    OBVIOUS
  <2>2. Carries("reader", e, script["reader"]', b)
    BY <1>1, <1>5, <2>1
  <2>3. /\ e.parked = a.parked /\ e.there = a.there /\ e.size = a.size /\ e.leaving = a.leaving
        /\ e.current = {th \in Threads : root'[th] = "current"}
        /\ e.resident = {th \in Threads : network'[th] = "resident"}
        /\ e.dangling = {th \in Threads : network'[th] = "dangling"}
        /\ owed' = IF e.due = "no" THEN 0 ELSE 1
    BY <1>1, <1>3, <2>1
  <2>4. Holds(e)'
    BY <1>1, <1>2, <1>4, <2>3 DEF Holds
  <2> QED BY <1>1, <2>2, <2>4, ReaderInvKept
<1>8. MainInv' /\ SearchIsReady' /\ StopIsDue'
  BY <1>4 DEF MainInv, SearchIsReady
<1>9. SlotsRest'
  <2>1. script'["main"] = << >>
    BY <1>3, <1>5 DEF IInv, SlotsRest
  <2>2. \A th \in Threads : slot[th] \in {"none", "idle"}
    BY <1>3 DEF Idling
  <2> QED BY <1>3, <1>4, <2>1, <2>2 DEF IInv, SlotsRest
<1> QED BY <1>6, <1>7, <1>8, <1>9 DEF IInv

(* A parked worker gets the root of the search to come.                     *)
LEMMA SetRootPreserves ==
  ASSUME IInv, SetRoot
  PROVE  IInv'
<1> DEFINE x == Step("reader")
<1>1. /\ script["reader"] # << >> /\ x.op = "setRoot" /\ x.op \in Guarded
      /\ root' = [root EXCEPT ![x.th] = "current"] /\ network' = network /\ size' = size
  BY DEF SetRoot, Ready, Step, Guarded
<1>2. x \in Steps
  BY <1>1, ReaderKnows DEF IInv
<1>3. x.th \in Threads
  BY <1>2 DEF Steps
<1>4. Advance("reader") /\ UNCHANGED <<slots, size, leaving, owed>>
  BY DEF SetRoot, gui, promised
<1>7. StopIsDue'
  BY NothingHeld DEF IInv, SetRoot, search, promised, StopIsDue, HeldBack, Held, EndsItself
<1> HIDE DEF x
<1>5. /\ root' \in [Threads -> {"none", "old", "current"}]
      /\ network' \in [Threads -> {"none", "resident", "dangling"}]
  BY <1>1, <1>3 DEF IInv, Typed
<1>6. ASSUME NEW a \in Knowledge, Holds(a), ReaderMay(a, x), ~MainSearches
      PROVE  /\ owed' = IF Learn(a, x).due = "no" THEN 0 ELSE 1
             /\ Learn(a, x).parked = a.parked
             /\ Learn(a, x).there = a.there
             /\ Learn(a, x).size = a.size
             /\ Learn(a, x).current = {th \in Threads : root'[th] = "current"}
             /\ Learn(a, x).resident = {th \in Threads : network'[th] = "resident"}
             /\ Learn(a, x).dangling = {th \in Threads : network'[th] = "dangling"}
             /\ Learn(a, x).leaving = a.leaving
  <2>1. {th \in Threads : root'[th] = "current"}
          = {th \in Threads : root[th] = "current"} \cup {x.th}
    BY <1>1, <1>3 DEF IInv, Typed
  <2> QED BY <1>1, <1>4, <1>6, <2>1 DEF Learn, Holds
<1> QED BY <1>1, <1>4, <1>5, <1>6, <1>7, GuardedPreserves DEF x

(* A search is accepted.                                                    *)
LEMMA ArmPreserves ==
  ASSUME IInv, NEW l \in LimitSet, NEW m \in BOOLEAN, Arm(l, m)
  PROVE  IInv'
<1> DEFINE x == Step("reader")
<1>1. /\ script["reader"] # << >> /\ x.op = "arm" /\ x.op \in Guarded
      /\ root' = [th \in Threads |-> IF root[th] = "current" THEN "old" ELSE root[th]]
      /\ network' = network /\ size' = size
  BY DEF Arm, Ready, Step, Guarded
<1>7. StopIsDue' /\ owed' = owed + 1
  BY DEF Arm, StopIsDue
<1>4. Advance("reader") /\ UNCHANGED <<slots, size, leaving>>
  BY DEF Arm, gui
<1> HIDE DEF x
<1>5. /\ root' \in [Threads -> {"none", "old", "current"}]
      /\ network' \in [Threads -> {"none", "resident", "dangling"}]
  BY <1>1 DEF IInv, Typed
<1>6. ASSUME NEW a \in Knowledge, Holds(a), ReaderMay(a, x), ~MainSearches
      PROVE  /\ owed' = IF Learn(a, x).due = "no" THEN 0 ELSE 1
             /\ Learn(a, x).parked = a.parked
             /\ Learn(a, x).there = a.there
             /\ Learn(a, x).size = a.size
             /\ Learn(a, x).current = {th \in Threads : root'[th] = "current"}
             /\ Learn(a, x).resident = {th \in Threads : network'[th] = "resident"}
             /\ Learn(a, x).dangling = {th \in Threads : network'[th] = "dangling"}
             /\ Learn(a, x).leaving = a.leaving
  <2>1. {th \in Threads : root'[th] = "current"} = {}
    BY <1>1
  <2>2. a.due = "no" /\ owed = 0
    BY <1>1, <1>6 DEF ReaderMay, Holds
  <2>3. Learn(a, x).due = "held"
    BY <1>1 DEF Learn
  <2> QED BY <1>1, <1>6, <1>7, <2>1, <2>2, <2>3 DEF Learn, Holds
<1> QED BY <1>1, <1>4, <1>5, <1>6, <1>7, GuardedPreserves DEF x

(* The replicas are destroyed while every thread is parked.                 *)
LEMMA ReplaceNetworkPreserves ==
  ASSUME IInv, ReplaceNetwork
  PROVE  IInv'
<1> DEFINE x == Step("reader")
<1>1. /\ script["reader"] # << >> /\ x.op = "replaceNet" /\ x.op \in Guarded
      /\ network' = [th \in Threads |-> IF network[th] = "none" THEN "none" ELSE "dangling"]
      /\ root' = root /\ size' = size
  BY DEF ReplaceNetwork, Ready, Step, Guarded
<1>4. Advance("reader") /\ UNCHANGED <<slots, size, leaving, owed>>
  BY DEF ReplaceNetwork, gui, promised
<1>7. StopIsDue'
  BY NothingHeld DEF IInv, ReplaceNetwork, search, promised, StopIsDue, HeldBack, Held, EndsItself
<1> HIDE DEF x
<1>5. /\ root' \in [Threads -> {"none", "old", "current"}]
      /\ network' \in [Threads -> {"none", "resident", "dangling"}]
  BY <1>1 DEF IInv, Typed
<1>6. ASSUME NEW a \in Knowledge, Holds(a), ReaderMay(a, x), ~MainSearches
      PROVE  /\ owed' = IF Learn(a, x).due = "no" THEN 0 ELSE 1
             /\ Learn(a, x).parked = a.parked
             /\ Learn(a, x).there = a.there
             /\ Learn(a, x).size = a.size
             /\ Learn(a, x).current = {th \in Threads : root'[th] = "current"}
             /\ Learn(a, x).resident = {th \in Threads : network'[th] = "resident"}
             /\ Learn(a, x).dangling = {th \in Threads : network'[th] = "dangling"}
             /\ Learn(a, x).leaving = a.leaving
  <2>1. {th \in Threads : network'[th] = "resident"} = {}
    BY <1>1
  <2>2. {th \in Threads : network'[th] = "dangling"}
          = {th \in Threads : network[th] = "dangling"}
              \cup {th \in Threads : network[th] = "resident"}
    BY <1>1 DEF IInv, Typed
  <2> QED BY <1>1, <1>4, <1>6, <2>1, <2>2 DEF Learn, Holds
<1> QED BY <1>1, <1>4, <1>5, <1>6, <1>7, GuardedPreserves DEF x

(* The workers get the replicas that are resident.                          *)
LEMMA EnsurePreserves ==
  ASSUME IInv, EnsureNetworkReplicated
  PROVE  IInv'
<1> DEFINE x == Step("reader")
<1>1. /\ script["reader"] # << >> /\ x.op = "rehand" /\ x.op \in Guarded
      /\ network' = [th \in Threads |-> IF th < size THEN "resident" ELSE "none"]
      /\ root' = root /\ size' = size
  BY DEF EnsureNetworkReplicated, Ready, Step, Guarded
<1>4. Advance("reader") /\ UNCHANGED <<slots, size, leaving, owed>>
  BY DEF EnsureNetworkReplicated, gui, promised
<1>7. StopIsDue'
  BY NothingHeld DEF IInv, EnsureNetworkReplicated, promised
<1> HIDE DEF x
<1>5. /\ root' \in [Threads -> {"none", "old", "current"}]
      /\ network' \in [Threads -> {"none", "resident", "dangling"}]
  BY <1>1 DEF IInv, Typed
<1>6. ASSUME NEW a \in Knowledge, Holds(a), ReaderMay(a, x), ~MainSearches
      PROVE  /\ owed' = IF Learn(a, x).due = "no" THEN 0 ELSE 1
             /\ Learn(a, x).parked = a.parked
             /\ Learn(a, x).there = a.there
             /\ Learn(a, x).size = a.size
             /\ Learn(a, x).current = {th \in Threads : root'[th] = "current"}
             /\ Learn(a, x).resident = {th \in Threads : network'[th] = "resident"}
             /\ Learn(a, x).dangling = {th \in Threads : network'[th] = "dangling"}
             /\ Learn(a, x).leaving = a.leaving
  <2>1. {th \in Threads : network'[th] = "resident"} = {th \in Threads : th < size}
    BY <1>1
  <2>2. {th \in Threads : network'[th] = "dangling"} = {}
    BY <1>1
  <2> QED BY <1>1, <1>4, <1>6, <2>1, <2>2 DEF Learn, Holds
<1> QED BY <1>1, <1>4, <1>5, <1>6, <1>7, GuardedPreserves DEF x

(* Starting a thread.                                                       *)
LEMMA StartThreadPreserves ==
  ASSUME IInv, StartThread
  PROVE  IInv'
<1> DEFINE x == Step("reader")
<1>1. PICK a, b : /\ a \in Knowledge /\ Holds(a)
                  /\ x \in Steps
                  /\ ReaderMay(a, x)
                  /\ Carries("reader", Learn(a, x), Tail(script["reader"]), b)
                  /\ leaving = "no" => Fit(b)
  BY ReaderKnows DEF IInv, StartThread, Ready
<1>2. /\ x.op = "start" /\ x.th \in Threads /\ slot[x.th] = "none"
      /\ slot' = [slot EXCEPT ![x.th] = "busy"]
      /\ UNCHANGED <<held, exiting, root, network, leaving>>
      /\ size' = size + 1
      /\ script["reader"] # << >> /\ Advance("reader")
  BY <1>1 DEF StartThread, Start, Ready, Step, gui, Steps
<1>13. owed' = owed /\ StopIsDue'
  BY NothingHeld DEF StartThread, IInv, promised
<1> HIDE DEF x
<1>3. ~MainSearches
  BY <1>1, <1>2 DEF ReaderMay, Holds
<1>4. /\ held[x.th] = NoJob /\ ~exiting[x.th] /\ NoJob # "search" /\ NoJob # "clear"
  BY <1>2, JobsThere DEF IInv, SlotsRest
<1>5. \A th \in Threads : slot'[th] = IF th = x.th THEN "busy" ELSE slot[th]
  BY <1>2 DEF IInv, Typed, SlotTypeOK
<1>6. ~MainSearches'
  BY <1>2, <1>3, <1>4, <1>5, MainIsAThread DEF MainSearches
<1>7. Idling' = Idling \ {x.th}
  BY <1>5 DEF Idling
<1>8. /\ script' \in [Drivers -> Seq(Steps)]
      /\ script'["reader"] = Tail(script["reader"])
      /\ script'["main"] = script["main"]
  BY <1>2, AdvanceIs DEF IInv, Drivers
<1>9. Typed'
  BY <1>2, <1>8 DEF IInv, Typed, SlotTypeOK
<1>10. ReaderInv'
  <2>1. PICK e : e = Learn(a, x)
    OBVIOUS
  <2>2. Carries("reader", e, script["reader"]', b)
    BY <1>1, <1>8, <2>1
  <2>3. /\ e.parked = a.parked \ {x.th} /\ e.there = a.there \cup {x.th}
        /\ e.size = a.size + 1 /\ e.due = a.due /\ e.leaving = a.leaving /\ e.current = a.current
        /\ e.resident = a.resident /\ e.dangling = a.dangling
    BY <1>2, <2>1 DEF Learn
  <2>4. {th \in Threads : slot'[th] # "none"} = {th \in Threads : slot[th] # "none"} \cup {x.th}
    BY <1>2, <1>5
  <2>5. Holds(e)'
    BY <1>1, <1>2, <1>13, <1>3, <1>6, <1>7, <2>3, <2>4 DEF Holds
  <2> QED BY <1>1, <1>2, <2>2, <2>5, ReaderInvKept
<1>11. MainInv' /\ SearchIsReady'
  BY <1>6 DEF MainInv, SearchIsReady
<1>12. SlotsRest'
  <2>1. script'["main"] = << >>
    BY <1>3, <1>8 DEF IInv, SlotsRest
  <2>2. ASSUME NEW th \in Threads
        PROVE  /\ slot'[th] \in {"none", "idle"} => held'[th] = NoJob
               /\ exiting'[th] => slot'[th] \in {"idle", "full", "dead"}
               /\ held'[th] = "search" /\ ~exiting'[th] /\ th # Main => MainSearches'
               /\ slot'[th] \in {"full", "busy"} /\ held'[th] = "clear"
                    => network'[th] # "dangling"
    BY <1>2, <1>3, <1>4, <1>5 DEF IInv, SlotsRest
  <2> QED BY <2>1, <2>2 DEF SlotsRest
<1> QED BY <1>9, <1>10, <1>11, <1>12, <1>13 DEF IInv

(* Telling a thread to exit.                                                *)
LEMMA ExitThreadPreserves ==
  ASSUME IInv, ExitThread
  PROVE  IInv'
<1> DEFINE x == Step("reader")
<1>1. PICK a, b : /\ a \in Knowledge /\ Holds(a)
                  /\ x \in Steps
                  /\ ReaderMay(a, x)
                  /\ Carries("reader", Learn(a, x), Tail(script["reader"]), b)
                  /\ leaving = "no" => Fit(b)
  BY ReaderKnows DEF IInv, ExitThread, Ready
<1>2. /\ x.op = "exit" /\ x.th \in Threads /\ slot[x.th] = "idle"
      /\ exiting' = [exiting EXCEPT ![x.th] = TRUE]
      /\ UNCHANGED <<slot, held, size, root, network, leaving>>
      /\ script["reader"] # << >> /\ Advance("reader")
  BY <1>1 DEF ExitThread, Exit, Ready, Step, gui, Steps, pool
<1>13. owed' = owed /\ StopIsDue'
  BY NothingHeld DEF ExitThread, IInv, promised
<1> HIDE DEF x
<1>3. a.parked = Threads
  BY <1>1, <1>2 DEF ReaderMay, Guarded
<1>4. ~MainSearches /\ Idling = Threads
  BY <1>1, <1>3, GuardedMeansParked DEF IInv
<1>5. \A th \in Threads : exiting'[th] = IF th = x.th THEN TRUE ELSE exiting[th]
  BY <1>2 DEF IInv, Typed, SlotTypeOK
<1>6. ~MainSearches' /\ Idling' = Threads
  BY <1>2, <1>4, MainIsAThread DEF MainSearches, Idling
<1>8. /\ script' \in [Drivers -> Seq(Steps)]
      /\ script'["reader"] = Tail(script["reader"])
      /\ script'["main"] = script["main"]
  BY <1>2, AdvanceIs DEF IInv, Drivers
<1>9. Typed'
  BY <1>2, <1>8 DEF IInv, Typed, SlotTypeOK
<1>10. ReaderInv'
  <2>1. PICK e : e = Learn(a, x)
    OBVIOUS
  <2>2. Carries("reader", e, script["reader"]', b)
    BY <1>1, <1>8, <2>1
  <2>3. /\ e.parked = a.parked /\ e.there = a.there
        /\ e.size = a.size /\ e.due = a.due /\ e.current = a.current
        /\ e.leaving = a.leaving \cup {x.th}
        /\ e.resident = a.resident /\ e.dangling = a.dangling
    BY <1>2, <2>1 DEF Learn
  <2>4. {th \in Threads : exiting'[th]} = {th \in Threads : exiting[th]} \cup {x.th}
    BY <1>2, <1>5
  <2>5. Holds(e)'
    BY <1>1, <1>2, <1>13, <1>4, <1>6, <2>3, <2>4 DEF Holds
  <2> QED BY <1>1, <1>2, <2>2, <2>5, ReaderInvKept
<1>11. MainInv' /\ SearchIsReady'
  BY <1>6 DEF MainInv, SearchIsReady
<1>12. SlotsRest'
  <2>1. script'["main"] = << >>
    BY <1>4, <1>8 DEF IInv, SlotsRest
  <2>2. \A th \in Threads : slot[th] \in {"none", "idle"}
    BY <1>4 DEF Idling
  <2>3. ASSUME NEW th \in Threads
        PROVE  /\ slot'[th] \in {"none", "idle"} => held'[th] = NoJob
               /\ exiting'[th] => slot'[th] \in {"idle", "full", "dead"}
               /\ held'[th] = "search" /\ ~exiting'[th] /\ th # Main => MainSearches'
               /\ slot'[th] \in {"full", "busy"} /\ held'[th] = "clear"
                    => network'[th] # "dangling"
    BY <1>2, <1>4, <1>5, <2>2 DEF IInv, SlotsRest
  <2> QED BY <2>1, <2>3 DEF SlotsRest
<1> QED BY <1>9, <1>10, <1>11, <1>12, <1>13 DEF IInv

(* Joining a thread that has returned.                                      *)
LEMMA JoinThreadPreserves ==
  ASSUME IInv, JoinThread
  PROVE  IInv'
<1> DEFINE x == Step("reader")
<1>1. PICK a, b : /\ a \in Knowledge /\ Holds(a)
                  /\ x \in Steps
                  /\ ReaderMay(a, x)
                  /\ Carries("reader", Learn(a, x), Tail(script["reader"]), b)
                  /\ leaving = "no" => Fit(b)
  BY ReaderKnows DEF IInv, JoinThread, Ready
<1>2. /\ x.op = "join" /\ x.th \in Threads /\ slot[x.th] = "dead"
      /\ slot' = [slot EXCEPT ![x.th] = "none"]
      /\ held' = [held EXCEPT ![x.th] = NoJob]
      /\ exiting' = [exiting EXCEPT ![x.th] = FALSE]
      /\ root' = [root EXCEPT ![x.th] = "none"]
      /\ network' = [network EXCEPT ![x.th] = "none"]
      /\ size' = size - 1
      /\ leaving' = leaving
      /\ script["reader"] # << >> /\ Advance("reader")
  BY <1>1 DEF JoinThread, Join, Ready, Step, gui, Steps
<1>13. owed' = owed /\ StopIsDue'
  BY NothingHeld DEF JoinThread, IInv, promised
<1> HIDE DEF x
<1>3. ~MainSearches
  BY <1>1, <1>2 DEF ReaderMay, Holds
<1>4. \A th \in Threads : slot'[th] = IF th = x.th THEN "none" ELSE slot[th]
  BY <1>2 DEF IInv, Typed, SlotTypeOK
<1>5. /\ held'[x.th] = NoJob /\ ~exiting'[x.th] /\ network'[x.th] = "none" /\ root'[x.th] = "none"
      /\ \A th \in Threads \ {x.th} : /\ held'[th] = held[th] /\ exiting'[th] = exiting[th]
                                      /\ network'[th] = network[th] /\ root'[th] = root[th]
  BY <1>2 DEF IInv, Typed, SlotTypeOK
<1>6. ~MainSearches'
  BY <1>3, <1>4, <1>5, MainIsAThread DEF MainSearches
<1>7. Idling' = Idling \cup {x.th}
  BY <1>2, <1>4 DEF Idling
<1>8. /\ script' \in [Drivers -> Seq(Steps)]
      /\ script'["reader"] = Tail(script["reader"])
      /\ script'["main"] = script["main"]
  BY <1>2, AdvanceIs DEF IInv, Drivers
<1>9. Typed'
  BY <1>2, <1>8 DEF IInv, Typed, SlotTypeOK
<1>10. ReaderInv'
  <2>1. PICK e : e = Learn(a, x)
    OBVIOUS
  <2>2. Carries("reader", e, script["reader"]', b)
    BY <1>1, <1>8, <2>1
  <2>3. /\ e.parked = a.parked \cup {x.th} /\ e.there = a.there \ {x.th}
        /\ e.size = a.size - 1 /\ e.due = a.due /\ e.leaving = a.leaving \ {x.th}
        /\ e.current = a.current \ {x.th}
        /\ e.resident = a.resident \ {x.th} /\ e.dangling = a.dangling \ {x.th}
    BY <1>2, <2>1 DEF Learn
  <2>4. {th \in Threads : slot'[th] # "none"} = {th \in Threads : slot[th] # "none"} \ {x.th}
    BY <1>4
  <2>8. {th \in Threads : exiting'[th]} = {th \in Threads : exiting[th]} \ {x.th}
    BY <1>5
  <2>5. {th \in Threads : root'[th] = "current"}
             = {th \in Threads : root[th] = "current"} \ {x.th}
    BY <1>5
  <2>6. /\ {th \in Threads : network'[th] = "resident"}
             = {th \in Threads : network[th] = "resident"} \ {x.th}
        /\ {th \in Threads : network'[th] = "dangling"}
             = {th \in Threads : network[th] = "dangling"} \ {x.th}
    BY <1>5
  <2>7. Holds(e)'
    BY <1>1, <1>2, <1>13, <1>3, <1>6, <1>7, <2>3, <2>4, <2>5, <2>6, <2>8 DEF Holds
  <2> QED BY <1>1, <1>2, <2>2, <2>7, ReaderInvKept
<1>11. MainInv' /\ SearchIsReady'
  BY <1>6 DEF MainInv, SearchIsReady
<1>12. SlotsRest'
  <2>1. script'["main"] = << >>
    BY <1>3, <1>8 DEF IInv, SlotsRest
  <2>2. NoJob # "search" /\ NoJob # "clear"
    BY JobsThere
  <2>3. ASSUME NEW th \in Threads
        PROVE  /\ slot'[th] \in {"none", "idle"} => held'[th] = NoJob
               /\ exiting'[th] => slot'[th] \in {"idle", "full", "dead"}
               /\ held'[th] = "search" /\ ~exiting'[th] /\ th # Main => MainSearches'
               /\ slot'[th] \in {"full", "busy"} /\ held'[th] = "clear"
                    => network'[th] # "dangling"
    <3>1. CASE th = x.th
      BY <1>4, <1>5, <2>2, <3>1
    <3>2. CASE th # x.th
      <4>1. /\ slot'[th] = slot[th] /\ held'[th] = held[th] /\ exiting'[th] = exiting[th]
            /\ network'[th] = network[th]
        BY <1>4, <1>5, <3>2
      <4>2. /\ slot[th] \in {"none", "idle"} => held[th] = NoJob
            /\ exiting[th] => slot[th] \in {"idle", "full", "dead"}
            /\ ~(held[th] = "search" /\ ~exiting[th] /\ th # Main)
            /\ slot[th] \in {"full", "busy"} /\ held[th] = "clear"
                 => network[th] # "dangling"
        BY <1>3 DEF IInv, SlotsRest
      <4> QED BY <4>1, <4>2
    <3> QED BY <3>1, <3>2
  <2> QED BY <2>1, <2>3 DEF SlotsRest
<1> QED BY <1>9, <1>10, <1>11, <1>12, <1>13 DEF IInv

(* The reader hands a job to a thread: the search to the main worker, which *)
(* finds every thread parked and the pool furnished; any other job; or the  *)
(* order to return, to a thread that leaves.                                *)
LEMMA ReaderPutPreserves ==
  ASSUME IInv, PutJob("reader")
  PROVE  IInv'
<1> DEFINE x == Step("reader")
<1>1. PICK a, b : /\ a \in Knowledge /\ Holds(a)
                  /\ x \in Steps
                  /\ ReaderMay(a, x)
                  /\ Carries("reader", Learn(a, x), Tail(script["reader"]), b)
                  /\ leaving = "no" => Fit(b)
  BY ReaderKnows DEF IInv, PutJob, Ready
<1>2. /\ x.op = "put" /\ x.th \in Threads /\ x.job \in Jobs \cup {NoJob}
      /\ slot[x.th] = "idle"
      /\ slot' = [slot EXCEPT ![x.th] = "full"]
      /\ held' = [held EXCEPT ![x.th] = x.job]
      /\ UNCHANGED <<exiting, size, root, network, leaving>>
      /\ script["reader"] # << >> /\ Advance("reader")
      /\ UNCHANGED <<search, promised>>
  BY <1>1 DEF PutJob, Put, Ready, Step, gui, pool, Steps
<1>14. owed' = owed /\ StopIsDue'
  BY <1>2, NothingHeld DEF IInv, promised
<1> HIDE DEF x
<1>3. ~MainSearches
  BY <1>1, <1>2 DEF ReaderMay, Holds
<1>4. /\ slot'[x.th] = "full" /\ held'[x.th] = x.job
      /\ \A th \in Threads \ {x.th} : slot'[th] = slot[th] /\ held'[th] = held[th]
  BY <1>2 DEF IInv, Typed, SlotTypeOK
<1>5. Idling' = Idling \ {x.th}
  BY <1>4 DEF Idling
<1>6. /\ script' \in [Drivers -> Seq(Steps)]
      /\ script'["reader"] = Tail(script["reader"])
      /\ script'["main"] = << >>
  BY <1>2, <1>3, AdvanceIs DEF IInv, Drivers, SlotsRest
<1>7. Typed'
  BY <1>2, <1>6 DEF IInv, Typed, SlotTypeOK
<1>8. PICK e : e = Learn(a, x)
  OBVIOUS
<1>9. Carries("reader", e, script["reader"]', b) /\ e \in Knowledge
  BY <1>1, <1>6, <1>8, LearnType
<1>10. /\ e.parked = a.parked \ {x.th} /\ e.there = a.there
       /\ e.size = a.size /\ e.leaving = a.leaving /\ e.current = a.current
       /\ e.resident = a.resident /\ e.dangling = a.dangling
  BY <1>2, <1>8 DEF Learn
<1>11. {th \in Threads : slot'[th] # "none"} = {th \in Threads : slot[th] # "none"}
  BY <1>2, <1>4
<1>12. CASE x.job = "search" /\ ~exiting[x.th]
  <2>1. x.th \notin a.leaving
    BY <1>1, <1>12 DEF Holds
  <2>2. /\ x.th = Main /\ a.due = "held" /\ a.parked = Threads /\ a.leaving = {}
        /\ a.size \in 1 .. MaxThreads /\ a.there = 0 .. a.size - 1
        /\ a.there \subseteq a.current \cap a.resident
    BY <1>1, <1>2, <1>12, <2>1 DEF ReaderMay
  <2>3. e.searching /\ e.due = "no" /\ owed = 1
    BY <1>1, <1>2, <1>3, <1>8, <1>12, <2>1, <2>2 DEF Learn, Holds
  <2>4. Idling = Threads
    BY <1>1, <2>2, GuardedMeansParked DEF IInv
  <2>5. Idling' = Helpers /\ e.parked = Helpers
    BY <1>5, <1>10, <2>2, <2>4 DEF Helpers
  <2>6. MainSearches'
    BY <1>2, <1>4, <1>12, <2>2 DEF MainSearches
  <2>7. Holds(e)'
    BY <1>1, <1>2, <1>10, <1>11, <2>3, <2>5, <2>6 DEF Holds
  <2>8. ReaderInv'
    BY <1>1, <1>2, <1>9, <2>7, ReaderInvKept
  <2>9. MainInv'
    <3>1. Carries("main", e, script'["main"], e)
      BY <1>6, <1>9, CarriesNothing
    <3>2. e.size = size'
      BY <1>1, <1>2, <1>10 DEF Holds
    <3>3. slot'[Main] = "full" /\ owed' = 1
      BY <1>4, <1>14, <2>2, <2>3
    <3> QED BY <2>5, <3>1, <3>2, <3>3 DEF MainInv
  <2>10. SearchIsReady'
    <3>1. size' \in 1 .. MaxThreads /\ size' = a.size
      BY <1>1, <1>2, <2>2 DEF Holds
    <3>2. ASSUME NEW th \in Threads, th < size'
          PROVE  /\ slot'[th] # "none" /\ ~exiting'[th]
                 /\ root'[th] = "current" /\ network'[th] = "resident"
      <4>1. th \in a.there
        BY <2>2, <3>1, <3>2
      <4>2. th \in a.current /\ th \in a.resident /\ th \notin a.leaving
        BY <2>2, <4>1
      <4>3. slot'[th] # "none"
        BY <1>1, <1>11, <4>1 DEF Holds
      <4> QED BY <1>1, <1>2, <4>2, <4>3 DEF Holds
    <3>3. ASSUME NEW th \in Threads, slot'[th] # "none"
          PROVE  th < size'
      <4>1. th \in a.there
        BY <1>1, <1>11, <3>3 DEF Holds
      <4>2. th \in 0 .. a.size - 1 /\ a.size \in Int
        BY <2>2, <4>1
      <4> QED BY <3>1, <4>2
    <3> QED BY <3>1, <3>2, <3>3 DEF SearchIsReady
  <2>11. SlotsRest'
    <3>1. \A th \in Threads : slot[th] \in {"none", "idle"}
      BY <2>4 DEF Idling
    <3>2. ASSUME NEW th \in Threads
          PROVE  /\ slot'[th] \in {"none", "idle"} => held'[th] = NoJob
                 /\ exiting'[th] => slot'[th] \in {"idle", "full", "dead"}
                 /\ slot'[th] \in {"full", "busy"} /\ held'[th] = "clear"
                      => network'[th] # "dangling"
      <4>1. CASE th = x.th
        BY <1>2, <1>4, <1>12, <4>1
      <4>2. CASE th # x.th
        BY <1>2, <1>4, <3>1, <4>2 DEF IInv, SlotsRest
      <4> QED BY <4>1, <4>2
    <3> QED BY <1>6, <2>6, <3>2 DEF SlotsRest
  <2> QED BY <1>7, <1>14, <2>8, <2>9, <2>10, <2>11 DEF IInv
<1>13. CASE ~(x.job = "search" /\ ~exiting[x.th])
  <2>1. ~MainSearches'
    BY <1>2, <1>3, <1>4, <1>13, MainIsAThread DEF MainSearches
  <2>6. e.due = a.due
    BY <1>1, <1>2, <1>8, <1>13 DEF Learn, Holds
  <2>2. Holds(e)'
    BY <1>1, <1>2, <1>3, <1>5, <1>10, <1>11, <1>14, <2>1, <2>6 DEF Holds
  <2>3. ReaderInv'
    BY <1>1, <1>2, <1>9, <2>2, ReaderInvKept
  <2>4. MainInv' /\ SearchIsReady'
    BY <2>1 DEF MainInv, SearchIsReady
  <2>5. SlotsRest'
    <3>1. x.job = "clear" => network[x.th] # "dangling"
      BY <1>1, <1>2 DEF ReaderMay, Holds
    <3>2. ASSUME NEW th \in Threads
          PROVE  /\ slot'[th] \in {"none", "idle"} => held'[th] = NoJob
                 /\ exiting'[th] => slot'[th] \in {"idle", "full", "dead"}
                 /\ held'[th] = "search" /\ ~exiting'[th] /\ th # Main => MainSearches'
                 /\ slot'[th] \in {"full", "busy"} /\ held'[th] = "clear"
                      => network'[th] # "dangling"
      <4>1. CASE th = x.th
        BY <1>2, <1>4, <1>13, <3>1, <4>1
      <4>2. CASE th # x.th
        <5>1. slot'[th] = slot[th] /\ held'[th] = held[th]
          BY <1>4, <4>2
        <5>2. /\ slot[th] \in {"none", "idle"} => held[th] = NoJob
              /\ exiting[th] => slot[th] \in {"idle", "full", "dead"}
              /\ ~(held[th] = "search" /\ ~exiting[th] /\ th # Main)
              /\ slot[th] \in {"full", "busy"} /\ held[th] = "clear"
                   => network[th] # "dangling"
          BY <1>3 DEF IInv, SlotsRest
        <5> QED BY <1>2, <5>1, <5>2
      <4> QED BY <4>1, <4>2
    <3> QED BY <1>6, <3>2 DEF SlotsRest
  <2> QED BY <1>7, <1>14, <2>3, <2>4, <2>5 DEF IInv
<1> QED BY <1>12, <1>13

(* A new command.                                                           *)
LEMMA ReceivePreserves ==
  ASSUME IInv, NEW c \in Commands, NEW k \in 1 .. MaxThreads, Receive(c, k)
  PROVE  IInv'
<1>1. /\ script["reader"] = << >> /\ leaving = "no"
      /\ script' = [script EXCEPT !["reader"] = CommandScript(c, k)]
      /\ UNCHANGED <<slots, pool, search, promised>>
  BY DEF Receive, Listening
<1>2. PICK a, b : /\ Holds(a) /\ Carries("reader", a, script["reader"], b)
                  /\ leaving = "no" => Fit(b)
  BY DEF IInv, ReaderInv
<1>3. a = b /\ Fit(a)
  BY <1>1, <1>2, CarriesEnd
<1>4. a.size = size
  BY <1>2 DEF Holds
<1>5. PICK e : Fit(e) /\ Carries("reader", a, CommandScript(c, k), e)
  BY <1>3, <1>4, CommandCarries
<1>6. CommandScript(c, k) \in Seq(Steps)
  BY <1>5, CarriesFrom
<1>7. /\ script' \in [Drivers -> Seq(Steps)]
      /\ script'["reader"] = CommandScript(c, k)
      /\ script'["main"] = script["main"]
  BY <1>1, <1>6 DEF IInv, Typed, Drivers
<1>8. MainSearches' = MainSearches /\ Idling' = Idling
  BY <1>1 DEF MainSearches, Idling, slots
<1>12. owed' = owed /\ HeldBack' = HeldBack /\ StopIsDue'
  BY <1>1, NothingHeld DEF IInv, promised
<1>9. Typed'
  BY <1>1, <1>7 DEF IInv, Typed, SlotTypeOK, slots, pool
<1>10. ReaderInv'
  <2>1. Holds(a)'
    BY <1>1, <1>2, <1>8, <1>12 DEF Holds, slots, pool
  <2>2. Carries("reader", a, script'["reader"], e)
    BY <1>5, <1>7
  <2> QED BY <1>5, <2>1, <2>2 DEF ReaderInv
<1>11. MainInv' /\ SearchIsReady' /\ SlotsRest'
  BY <1>1, <1>7, <1>8, <1>12, MainInvKept DEF IInv, SearchIsReady, SlotsRest, slots, pool
<1> QED BY <1>9, <1>10, <1>11, <1>12 DEF IInv

(* "quit", and the end of the input.                                        *)
LEMMA QuitPreserves ==
  ASSUME IInv, Quit
  PROVE  IInv'
<1>1. /\ script["reader"] = << >> /\ leaving = "no" /\ leaving' = "quit"
      /\ script' = [script EXCEPT !["reader"] = QuitScript(size)]
      /\ UNCHANGED <<slots, pool, search, promised>>
  BY DEF Quit, Listening
<1>2. PICK a, b : /\ Holds(a) /\ Carries("reader", a, script["reader"], b)
                  /\ leaving = "no" => Fit(b)
  BY DEF IInv, ReaderInv
<1>3. a = b /\ Fit(a)
  BY <1>1, <1>2, CarriesEnd
<1>4. a.size = size
  BY <1>2 DEF Holds
<1>5. PICK e : Carries("reader", a, QuitScript(size), e)
  BY <1>3, <1>4, QuitCarries
<1>6. QuitScript(size) \in Seq(Steps)
  BY <1>5, CarriesFrom
<1>7. /\ script' \in [Drivers -> Seq(Steps)]
      /\ script'["reader"] = QuitScript(size)
      /\ script'["main"] = script["main"]
  BY <1>1, <1>6 DEF IInv, Typed, Drivers
<1>8. MainSearches' = MainSearches /\ Idling' = Idling
  BY <1>1 DEF MainSearches, Idling, slots
<1>12. owed' = owed /\ HeldBack' = HeldBack /\ StopIsDue'
  BY <1>1, NothingHeld DEF IInv, promised
<1>9. Typed'
  BY <1>1, <1>7 DEF IInv, Typed, SlotTypeOK, slots, pool
<1>10. ReaderInv'
  <2>1. Holds(a)'
    BY <1>1, <1>2, <1>8, <1>12 DEF Holds, slots, pool
  <2>2. Carries("reader", a, script'["reader"], e)
    BY <1>5, <1>7
  <2> QED BY <1>1, <2>1, <2>2 DEF ReaderInv
<1>11. MainInv' /\ SearchIsReady' /\ SlotsRest'
  BY <1>1, <1>7, <1>8, <1>12, MainInvKept DEF IInv, SearchIsReady, SlotsRest, slots, pool
<1> QED BY <1>9, <1>10, <1>11, <1>12 DEF IInv

(***************************************************************************)
(* The steps of the main worker.                                           *)
(***************************************************************************)
(* Whoever executes the main worker's script, a search runs on it.          *)
LEMMA ScriptMeansSearching ==
  ASSUME IInv, script["main"] # << >>
  PROVE  MainSearches /\ slot[Main] = "busy"
  BY DEF IInv, SlotsRest, MainSearches

(* A step that only advances the main worker.                               *)
LEMMA MainAdvancePreserves ==
  ASSUME IInv, script["main"] # << >>, Advance("main"),
         UNCHANGED <<slots, pool, leaving>>,
         Step("main").op # "put",
         Step("main").op = "wait" => slot[Step("main").th] = "idle",
         StopIsDue',
         \A a \in Knowledge :
            (/\ MainMay(a, Step("main"))
             /\ owed = IF a.due = "no" THEN 0 ELSE 1
             /\ a.due = "free" => ~HeldBack)
            => (/\ owed' = IF Learn(a, Step("main")).due = "no" THEN 0 ELSE 1
                /\ Learn(a, Step("main")).due = "free" => ~HeldBack')
  PROVE  IInv'
<1> USE DEF slots, pool
<1>1. MainSearches' = MainSearches /\ Idling' = Idling
  BY DEF MainSearches, Idling
<1>2. /\ script' \in [Drivers -> Seq(Steps)]
      /\ script'["main"] = Tail(script["main"])
      /\ script'["reader"] = script["reader"]
  BY AdvanceIs DEF IInv, Drivers
<1>3. MainSearches /\ slot[Main] = "busy"
  BY ScriptMeansSearching
<1>4. Typed'
  BY <1>2 DEF IInv, Typed, SlotTypeOK
<1>5. ReaderInv'
  <2>1. PICK a, b : /\ Holds(a)
                    /\ Carries("reader", a, script["reader"], b)
                    /\ leaving = "no" => Fit(b)
    BY DEF IInv, ReaderInv
  <2>2. Holds(a)'
    BY <1>1, <1>3, <2>1 DEF Holds
  <2> QED BY <1>2, <2>1, <2>2, ReaderInvKept
<1>6. MainInv'
  <2> DEFINE x == Step("main")
  <2>1. PICK a, b : /\ a \in Knowledge /\ a.parked \subseteq Idling /\ a.size = size
                    /\ owed = IF a.due = "no" THEN 0 ELSE 1
                    /\ a.due = "free" => ~HeldBack
                    /\ x \in Steps
                    /\ MainMay(a, x)
                    /\ Carries("main", Learn(a, x), Tail(script["main"]), b)
                    /\ Helpers \subseteq b.parked /\ b.due = "no"
    BY <1>3, MainKnows DEF IInv
  <2>2. x.op # "put" /\ (x.op = "wait" => slot[x.th] = "idle") /\ x.th \in Threads
    BY <2>1 DEF Steps
  <2>9. /\ owed' = IF Learn(a, x).due = "no" THEN 0 ELSE 1
        /\ Learn(a, x).due = "free" => ~HeldBack'
    BY <2>1
  <2> HIDE DEF x
  <2>3. PICK e : e = Learn(a, x)
    OBVIOUS
  <2>4. x.op \notin {"start", "join", "exit"}
    BY <2>1 DEF MainMay, ThreadOps
  <2>5. e.size = a.size
    BY <2>3, <2>4 DEF Learn
  <2>6. e.parked \subseteq Idling
    BY <2>1, <2>2, <2>3, <2>4 DEF Learn, Idling
  <2>7. Carries("main", e, script'["main"], b)
    BY <1>2, <2>1, <2>3
  <2>8. e.parked \subseteq Idling' /\ e.size = size'
    BY <1>1, <2>1, <2>5, <2>6
  <2>10. /\ owed' = IF e.due = "no" THEN 0 ELSE 1
         /\ e.due = "free" => ~HeldBack'
         /\ slot'[Main] = "busy"
    BY <1>3, <2>3, <2>9
  <2> QED BY <2>1, <2>7, <2>8, <2>10 DEF MainInv
<1>7. SearchIsReady'
  BY <1>1 DEF IInv, SearchIsReady
<1>8. SlotsRest'
  BY <1>1, <1>2, <1>3 DEF IInv, SlotsRest
<1> QED BY <1>4, <1>5, <1>6, <1>7, <1>8 DEF IInv

(* The steps of the main worker other than handing a search to a helper.    *)
LEMMA MainPlainPreserves ==
  ASSUME IInv,
         \/ Wait("main") \/ NotifyThread("main")
         \/ NewSearch \/ LeaveDeepening \/ Spin \/ Halt \/ Vote \/ Bestmove
  PROVE  IInv'
<1>1. /\ script["main"] # << >> /\ Advance("main")
      /\ UNCHANGED <<slots, pool, leaving>>
      /\ Step("main").op # "put"
      /\ Step("main").op = "wait" => slot[Step("main").th] = "idle"
      /\ UNCHANGED <<search, promised>> \/ Spin \/ Halt \/ Bestmove
      /\ Step("main").op \in {"spin", "bestmove"} => Spin \/ Bestmove
  <2>1. CASE Wait("main")
    BY <2>1 DEF Wait, Ready, Step, gui
  <2>2. CASE NotifyThread("main")
    BY <2>2 DEF NotifyThread, Ready, Step, gui
  <2>3. CASE NewSearch \/ LeaveDeepening \/ Spin \/ Halt \/ Vote \/ Bestmove
    BY <2>3 DEF NewSearch, LeaveDeepening, Spin, Halt, Vote, Bestmove, MainStep, Ready, Step, gui
  <2> QED BY <2>1, <2>2, <2>3
<1> DEFINE x == Step("main")
<1>2. ASSUME NEW a \in Knowledge, MainMay(a, x),
             owed = IF a.due = "no" THEN 0 ELSE 1,
             a.due = "free" => ~HeldBack
      PROVE  /\ owed' = IF Learn(a, x).due = "no" THEN 0 ELSE 1
             /\ Learn(a, x).due = "free" => ~HeldBack'
             /\ StopIsDue'
  <2>1. CASE Spin
    <3>1. x.op = "spin" /\ UNCHANGED <<search, promised>>
      BY <2>1 DEF Spin, MainStep, Ready, Step
    <3>2. ~HeldBack
      BY <2>1 DEF Spin, IInv, StopIsDue, HeldBack, Held
    <3>3. HeldBack' = HeldBack /\ StopIsDue' /\ owed' = owed
      BY <3>1, NothingHeld DEF IInv, promised
    <3>4. Learn(a, x).due = "free" /\ a.due # "no"
      BY <1>2, <3>1 DEF Learn, MainMay
    <3> QED BY <1>2, <3>2, <3>3, <3>4
  <2>2. CASE Halt
    <3>1. x.op = "halt" /\ UNCHANGED <<ponder, limits, hasMoves, promised>>
      BY <2>2 DEF Halt, MainStep, Ready, Step
    <3>2. ~HeldBack /\ Learn(a, x).due = a.due
      BY <1>2, <3>1 DEF MainMay, Learn
    <3>3. stop' = TRUE
      BY <2>2 DEF Halt
    <3>4. ~HeldBack'
      BY <3>1, <3>2, <3>3 DEF HeldBack, Held, EndsItself, promised
    <3> QED BY <1>2, <3>1, <3>2, <3>4 DEF StopIsDue, promised
  <2>3. CASE Bestmove
    <3>1. x.op = "bestmove" /\ owed' = owed - 1
      BY <2>3 DEF Bestmove, MainStep, Ready, Step
    <3>2. owed' = 0 /\ Learn(a, x).due = "no"
      BY <1>2, <3>1 DEF MainMay, Learn
    <3> QED BY <3>2 DEF StopIsDue, HeldBack, Held
  <2>4. CASE ~(Spin \/ Halt \/ Bestmove)
    <3>1. UNCHANGED <<search, promised>> /\ x.op \notin {"spin", "bestmove", "put"}
      BY <1>1, <2>4
    <3>2. x.op # "arm" => Learn(a, x).due = a.due
      BY <3>1 DEF Learn
    <3>3. x.op # "arm"
      BY <1>1, <2>4 DEF Wait, NotifyThread, NewSearch, LeaveDeepening, Vote, MainStep, Ready, Step
    <3>4. HeldBack' = HeldBack /\ StopIsDue' /\ owed' = owed
      BY <3>1, NothingHeld DEF IInv, promised
    <3> QED BY <1>2, <3>2, <3>3, <3>4
  <2> QED BY <2>1, <2>2, <2>3, <2>4
<1>3. MainSearches /\ slot[Main] = "busy"
  BY <1>1, ScriptMeansSearching
<1>4. PICK a : /\ a \in Knowledge
               /\ owed = IF a.due = "no" THEN 0 ELSE 1
               /\ a.due = "free" => ~HeldBack
               /\ MainMay(a, x)
  BY <1>1, <1>3, MainKnows DEF IInv
<1>5. StopIsDue'
  BY <1>2, <1>4
<1> QED BY <1>1, <1>2, <1>5, MainAdvancePreserves

(* The main worker hands the search to a helper.                            *)
LEMMA MainPutPreserves ==
  ASSUME IInv, PutJob("main")
  PROVE  IInv'
<1> DEFINE x == Step("main")
<1>0. script["main"] # << >> /\ Advance("main") /\ x.op = "put"
  BY DEF PutJob, Ready, Step
<1>1. MainSearches /\ slot[Main] = "busy"
  BY <1>0, ScriptMeansSearching
<1>2. PICK a, b : /\ a \in Knowledge /\ a.parked \subseteq Idling /\ a.size = size
                  /\ owed = IF a.due = "no" THEN 0 ELSE 1
                  /\ a.due = "free" => ~HeldBack
                  /\ x \in Steps
                  /\ MainMay(a, x)
                  /\ Carries("main", Learn(a, x), Tail(script["main"]), b)
                  /\ Helpers \subseteq b.parked /\ b.due = "no"
  BY <1>0, <1>1, MainKnows DEF IInv
<1>3. /\ x.th \in Threads /\ slot[x.th] = "idle"
      /\ slot' = [slot EXCEPT ![x.th] = "full"]
      /\ held' = [held EXCEPT ![x.th] = x.job]
      /\ UNCHANGED <<exiting, size, root, network, leaving>>
  BY <1>2 DEF PutJob, Put, gui, pool, Steps
<1>15. owed' = owed /\ HeldBack' = HeldBack /\ StopIsDue'
  BY NothingHeld DEF PutJob, IInv, promised
<1>4. x.th \in 1 .. a.size - 1 /\ x.job = "search"
  BY <1>0, <1>2 DEF MainMay, ThreadOps
<1> HIDE DEF x
<1>5. x.th # Main /\ x.th < size
  BY <1>2, <1>3, <1>4 DEF IInv, Typed, Main
<1>6. /\ slot'[x.th] = "full" /\ held'[x.th] = "search"
      /\ \A th \in Threads \ {x.th} : slot'[th] = slot[th] /\ held'[th] = held[th]
  BY <1>3, <1>4 DEF IInv, Typed, SlotTypeOK
<1>7. MainSearches' /\ slot'[Main] = "busy"
  BY <1>1, <1>3, <1>5, <1>6, MainIsAThread DEF MainSearches
<1>8. Idling' = Idling \ {x.th}
  BY <1>6 DEF Idling
<1>9. /\ script' \in [Drivers -> Seq(Steps)]
      /\ script'["main"] = Tail(script["main"])
      /\ script'["reader"] = script["reader"]
  BY <1>0, AdvanceIs DEF IInv, Drivers
<1>10. Typed'
  BY <1>3, <1>4, <1>9, JobsThere DEF IInv, Typed, SlotTypeOK
<1>11. ReaderInv'
  <2>1. PICK r, t : /\ Holds(r)
                    /\ Carries("reader", r, script["reader"], t)
                    /\ leaving = "no" => Fit(t)
    BY DEF IInv, ReaderInv
  <2>2. {th \in Threads : slot'[th] # "none"} = {th \in Threads : slot[th] # "none"}
    BY <1>3, <1>6
  <2>3. Holds(r)'
    BY <1>1, <1>3, <1>7, <2>1, <2>2 DEF Holds
  <2> QED BY <1>3, <1>9, <2>1, <2>3, ReaderInvKept
<1>12. MainInv'
  <2>1. PICK e : e = Learn(a, x)
    OBVIOUS
  <2>2. e.size = a.size /\ e.parked = a.parked \ {x.th} /\ e.due = a.due
    BY <1>0, <1>5, <2>1 DEF Learn, x
  <2>3. e.parked \subseteq Idling' /\ e.size = size'
    BY <1>2, <1>3, <1>8, <2>2
  <2>4. Carries("main", e, script'["main"], b)
    BY <1>2, <1>9, <2>1
  <2> QED BY <1>2, <1>7, <1>15, <2>2, <2>3, <2>4 DEF MainInv
<1>13. SearchIsReady'
  <2>1. ASSUME NEW th \in Threads
        PROVE  slot'[th] # "none" <=> slot[th] # "none"
    BY <1>3, <1>6
  <2> QED BY <1>1, <1>3, <2>1 DEF IInv, SearchIsReady
<1>14. SlotsRest'
  <2>1. ~exiting[x.th] /\ network[x.th] = "resident"
    BY <1>1, <1>3, <1>5 DEF IInv, SearchIsReady
  <2>2. ASSUME NEW th \in Threads
        PROVE  /\ slot'[th] \in {"none", "idle"} => held'[th] = NoJob
               /\ exiting'[th] => slot'[th] \in {"idle", "full", "dead"}
               /\ slot'[th] \in {"full", "busy"} /\ held'[th] = "clear"
                    => network'[th] # "dangling"
    <3>1. CASE th = x.th
      BY <1>3, <1>6, <2>1, <3>1
    <3>2. CASE th # x.th
      BY <1>3, <1>6, <3>2 DEF IInv, SlotsRest
    <3> QED BY <3>1, <3>2
  <2> QED BY <1>7, <2>2 DEF SlotsRest
<1> QED BY <1>10, <1>11, <1>12, <1>13, <1>14, <1>15 DEF IInv

(***************************************************************************)
(* The steps of the pool threads.                                          *)
(***************************************************************************)
(* A search whose script is executed, or not yet begun, leaves the helpers  *)
(* parked; it is answered once it is executed and not before it is begun.   *)
LEMMA HelpersRest ==
  ASSUME IInv, MainSearches, script["main"] = << >>
  PROVE  Helpers \subseteq Idling /\ owed = IF slot[Main] = "busy" THEN 0 ELSE 1
<1>1. PICK a, b : /\ a.parked \subseteq Idling
                  /\ owed = IF slot[Main] = "busy" /\ a.due = "no" THEN 0 ELSE 1
                  /\ Carries("main", a, script["main"], b)
                  /\ Helpers \subseteq b.parked
                  /\ slot[Main] = "busy" => b.due = "no"
  BY DEF IInv, MainInv
<1>2. a = b
  BY <1>1, CarriesEnd
<1> QED BY <1>1, <1>2

(* A thread that goes on with its job, without the main worker's search     *)
(* beginning or ending.                                                     *)
LEMMA PoolFramePreserves ==
  ASSUME IInv, UNCHANGED <<script, exiting, pool, leaving, search, promised>>,
         slot' \in [Threads -> {"none", "idle", "full", "busy", "dead"}],
         held' \in [Threads -> Jobs \cup {NoJob}],
         MainSearches' = MainSearches,
         slot'[Main] = "full" => slot[Main] = "full",
         MainSearches => slot'[Main] = slot[Main],
         \A th \in Threads :
            /\ slot[th] \in {"none", "idle"} => slot'[th] \in {"none", "idle"}
            /\ slot'[th] = "none" <=> slot[th] = "none"
            /\ slot'[th] \in {"none", "idle"} => held'[th] = NoJob
            /\ exiting[th] => slot'[th] \in {"idle", "full", "dead"}
            /\ held'[th] = "search" => held[th] = "search"
            /\ slot'[th] \in {"full", "busy"} /\ held'[th] = "clear"
                 => network[th] # "dangling"
  PROVE  IInv'
<1> USE DEF pool
<1>1. Idling \subseteq Idling'
  BY DEF Idling
<1>7. owed' = owed /\ HeldBack' = HeldBack /\ StopIsDue'
  BY NothingHeld DEF IInv, promised
<1>2. Typed'
  BY DEF IInv, Typed, SlotTypeOK
<1>3. ReaderInv'
  <2>1. PICK a, b : /\ Holds(a)
                    /\ Carries("reader", a, script["reader"], b)
                    /\ leaving = "no" => Fit(b)
    BY DEF IInv, ReaderInv
  <2>2. {th \in Threads : slot'[th] # "none"} = {th \in Threads : slot[th] # "none"}
    OBVIOUS
  <2>3. Holds(a)'
    BY <1>1, <1>7, <2>1, <2>2 DEF Holds
  <2> QED BY <2>1, <2>3, ReaderInvKept
<1>4. MainInv'
  BY <1>1, <1>7, MainInvKept DEF IInv
<1>5. SearchIsReady'
  BY DEF IInv, SearchIsReady
<1>6. SlotsRest'
  <2>1. ~MainSearches' \/ slot'[Main] = "full" => script'["main"] = << >>
    BY DEF IInv, SlotsRest
  <2>2. \A th \in Threads : held'[th] = "search" /\ ~exiting'[th] /\ th # Main => MainSearches'
    BY DEF IInv, SlotsRest
  <2> QED BY <2>1, <2>2 DEF SlotsRest
<1> QED BY <1>2, <1>3, <1>4, <1>5, <1>6, <1>7 DEF IInv

(* The main worker begins a search with every helper parked.                *)
LEMMA BeginSearchPreserves ==
  ASSUME IInv, TakeJob(Main), held[Main] = "search"
  PROVE  IInv'
<1>1. /\ slot[Main] = "full" /\ ~exiting[Main]
      /\ slot' = [slot EXCEPT ![Main] = "busy"]
      /\ UNCHANGED <<held, exiting, size, root, network, leaving, search, promised>>
      /\ script' = [script EXCEPT !["main"] = MainScript(size)]
  BY DEF TakeJob, Take, pool, gui
<1>2. MainSearches /\ script["main"] = << >>
  BY <1>1 DEF IInv, MainSearches, SlotsRest
<1>3. Helpers \subseteq Idling /\ owed = 1
  BY <1>1, <1>2, HelpersRest
<1>19. owed' = owed /\ HeldBack' = HeldBack /\ StopIsDue'
  BY <1>1, NothingHeld DEF IInv, promised
<1>4. size \in 1 .. MaxThreads
  BY <1>2 DEF IInv, SearchIsReady
<1> DEFINE u == IF hasMoves THEN "held" ELSE "free"
<1> DEFINE a == Know(Helpers, {}, size, {}, {}, {}, {}, FALSE, u)
<1>5. a \in Knowledge
  <2>1. Helpers \in SUBSET Threads /\ size \in Int /\ FALSE \in BOOLEAN /\ u \in Due
    BY <1>4 DEF Helpers, Due
  <2>2. {} \in SUBSET Threads
    OBVIOUS
  <2> QED BY <2>1, <2>2, KnowType
<1>6. /\ a.searching = FALSE /\ a.size = size /\ a.parked = Helpers
      /\ a.due = IF hasMoves THEN "held" ELSE "free"
  BY DEF Know
<1> HIDE DEF a, u
<1>7. PICK b : /\ Carries("main", a, MainScript(size), b)
               /\ Helpers \subseteq b.parked /\ b.due = "no"
  BY <1>4, <1>5, <1>6, MainScriptCarries
<1>8. MainScript(size) \in Seq(Steps)
  BY <1>7, CarriesFrom
<1>9. /\ script' \in [Drivers -> Seq(Steps)]
      /\ script'["main"] = MainScript(size)
      /\ script'["reader"] = script["reader"]
  BY <1>1, <1>8 DEF IInv, Typed, Drivers
<1>10. slot'[Main] = "busy" /\ \A th \in Threads \ {Main} : slot'[th] = slot[th]
  BY <1>1, MainIsAThread DEF IInv, Typed, SlotTypeOK
<1>11. MainSearches'
  BY <1>1, <1>10 DEF MainSearches
<1>12. Idling' = Idling
  BY <1>1, <1>10, MainIsAThread DEF Idling
<1>13. Typed'
  BY <1>1, <1>9 DEF IInv, Typed, SlotTypeOK
<1>14. {th \in Threads : slot'[th] # "none"} = {th \in Threads : slot[th] # "none"}
  BY <1>1, <1>10
<1>15. ReaderInv'
  <2>1. PICK r, t : /\ Holds(r)
                    /\ Carries("reader", r, script["reader"], t)
                    /\ leaving = "no" => Fit(t)
    BY DEF IInv, ReaderInv
  <2>2. Holds(r)'
    BY <1>1, <1>2, <1>11, <1>14, <1>19, <2>1 DEF Holds
  <2> QED BY <1>1, <1>9, <2>1, <2>2, ReaderInvKept
<1>16. MainInv'
  <2>1. a.parked \subseteq Idling' /\ a.size = size'
    BY <1>1, <1>3, <1>6, <1>12
  <2>2. owed' = IF a.due = "no" THEN 0 ELSE 1
    BY <1>3, <1>6, <1>19
  <2>3. a.due = "free" => ~HeldBack'
    BY <1>6, <1>19 DEF HeldBack, EndsItself
  <2> QED BY <1>7, <1>9, <1>10, <2>1, <2>2, <2>3 DEF MainInv
<1>17. SearchIsReady'
  <2>1. ASSUME NEW th \in Threads
        PROVE  slot'[th] # "none" <=> slot[th] # "none"
    BY <1>1, <1>10
  <2> QED BY <1>1, <1>2, <2>1 DEF IInv, SearchIsReady
<1>18. SlotsRest'
  <2>1. ASSUME NEW th \in Threads
        PROVE  /\ slot'[th] \in {"none", "idle"} => held'[th] = NoJob
               /\ exiting'[th] => slot'[th] \in {"idle", "full", "dead"}
               /\ slot'[th] \in {"full", "busy"} /\ held'[th] = "clear"
                    => network'[th] # "dangling"
    <3>1. CASE th = Main
      BY <1>1, <1>10, <3>1
    <3>2. CASE th # Main
      BY <1>1, <1>10, <3>2 DEF IInv, SlotsRest
    <3> QED BY <3>1, <3>2
  <2> QED BY <1>10, <1>11, <2>1 DEF SlotsRest
<1> QED BY <1>13, <1>15, <1>16, <1>17, <1>18, <1>19 DEF IInv

(* A pool thread takes the job it was handed.                               *)
LEMMA TakeJobPreserves ==
  ASSUME IInv, NEW t \in Threads, TakeJob(t)
  PROVE  IInv'
<1>1. CASE t = Main /\ held[t] = "search"
  BY <1>1, BeginSearchPreserves
<1>2. CASE ~(t = Main /\ held[t] = "search")
  <2>1. /\ slot[t] = "full" /\ ~exiting[t]
        /\ slot' = [slot EXCEPT ![t] = "busy"]
        /\ UNCHANGED <<held, exiting, script, pool, leaving, search, promised>>
    BY <1>2 DEF TakeJob, Take, gui
  <2>2. slot'[t] = "busy" /\ \A th \in Threads \ {t} : slot'[th] = slot[th]
    BY <2>1 DEF IInv, Typed, SlotTypeOK
  <2>3. MainSearches' = MainSearches
    BY <1>2, <2>1, <2>2, MainIsAThread DEF MainSearches
  <2>4. /\ slot' \in [Threads -> {"none", "idle", "full", "busy", "dead"}]
        /\ held' \in [Threads -> Jobs \cup {NoJob}]
    BY <2>1 DEF IInv, Typed, SlotTypeOK
  <2>5. ASSUME NEW th \in Threads
        PROVE  /\ slot[th] \in {"none", "idle"} => slot'[th] \in {"none", "idle"}
               /\ slot'[th] = "none" <=> slot[th] = "none"
               /\ slot'[th] \in {"none", "idle"} => held'[th] = NoJob
               /\ exiting[th] => slot'[th] \in {"idle", "full", "dead"}
               /\ held'[th] = "search" => held[th] = "search"
               /\ slot'[th] \in {"full", "busy"} /\ held'[th] = "clear"
                    => network[th] # "dangling"
    <3>1. CASE th = t
      BY <2>1, <2>2, <3>1 DEF IInv, SlotsRest
    <3>2. CASE th # t
      BY <2>1, <2>2, <3>2 DEF IInv, SlotsRest
    <3> QED BY <3>1, <3>2
  <2>6. /\ slot'[Main] = "full" => slot[Main] = "full"
        /\ MainSearches => slot'[Main] = slot[Main]
    BY <1>2, <2>1, <2>2, MainIsAThread DEF MainSearches
  <2> QED BY <2>1, <2>3, <2>4, <2>5, <2>6, PoolFramePreserves
<1> QED BY <1>1, <1>2

(* The search ends on the main worker: its script is executed.              *)
LEMMA EndSearchPreserves ==
  ASSUME IInv, FinishJob(Main), held[Main] = "search"
  PROVE  IInv'
<1>1. /\ slot[Main] = "busy" /\ script["main"] = << >>
      /\ held' = [held EXCEPT ![Main] = NoJob]
      /\ UNCHANGED <<slot, exiting, script, size, root, network, leaving, search, promised>>
  BY DEF FinishJob, End, pool, gui
<1>2. ~exiting[Main]
  BY <1>1, MainIsAThread DEF IInv, SlotsRest
<1>3. MainSearches
  BY <1>1, <1>2 DEF MainSearches
<1>4. Helpers \subseteq Idling /\ owed = 0
  BY <1>1, <1>3, HelpersRest
<1>12. owed' = owed /\ StopIsDue'
  BY <1>1, NothingHeld DEF IInv, promised
<1>5. held'[Main] = NoJob /\ \A th \in Threads \ {Main} : held'[th] = held[th]
  BY <1>1, MainIsAThread DEF IInv, Typed, SlotTypeOK
<1>6. ~MainSearches'
  BY <1>5, JobsThere DEF MainSearches
<1>7. Idling' = Idling
  BY <1>1 DEF Idling
<1>8. Typed'
  BY <1>1 DEF IInv, Typed, SlotTypeOK
<1>9. ReaderInv'
  <2>1. PICK a, b : /\ Holds(a)
                    /\ Carries("reader", a, script["reader"], b)
                    /\ leaving = "no" => Fit(b)
    BY DEF IInv, ReaderInv
  <2>2. Holds(a)'
    BY <1>1, <1>3, <1>4, <1>6, <1>7, <1>12, <2>1 DEF Holds
  <2> QED BY <1>1, <2>1, <2>2, ReaderInvKept
<1>10. MainInv' /\ SearchIsReady'
  BY <1>6 DEF MainInv, SearchIsReady
<1>11. SlotsRest'
  <2>1. \A th \in Threads \ {Main} : held'[th] = NoJob
    BY <1>4, <1>5 DEF IInv, SlotsRest, Helpers, Idling
  <2>2. NoJob # "search" /\ NoJob # "clear"
    BY JobsThere
  <2> QED BY <1>1, <1>5, <1>6, <2>1, <2>2 DEF IInv, SlotsRest
<1> QED BY <1>8, <1>9, <1>10, <1>11, <1>12 DEF IInv

(* A pool thread comes to the end of its job.                               *)
LEMMA FinishJobPreserves ==
  ASSUME IInv, NEW t \in Threads, FinishJob(t)
  PROVE  IInv'
<1>1. CASE t = Main /\ held[t] = "search"
  BY <1>1, EndSearchPreserves
<1>2. CASE ~(t = Main /\ held[t] = "search")
  <2>1. /\ slot[t] = "busy"
        /\ held' = [held EXCEPT ![t] = NoJob]
        /\ UNCHANGED <<slot, exiting, script, pool, leaving, search, promised>>
    BY DEF FinishJob, End, gui
  <2>2. held'[t] = NoJob /\ \A th \in Threads \ {t} : held'[th] = held[th]
    BY <2>1 DEF IInv, Typed, SlotTypeOK
  <2>0. NoJob # "search" /\ NoJob # "clear"
    BY JobsThere
  <2>3. MainSearches' = MainSearches
    BY <1>2, <2>0, <2>1, <2>2, MainIsAThread DEF MainSearches
  <2>4. /\ slot' \in [Threads -> {"none", "idle", "full", "busy", "dead"}]
        /\ held' \in [Threads -> Jobs \cup {NoJob}]
    BY <2>1 DEF IInv, Typed, SlotTypeOK
  <2>5. ASSUME NEW th \in Threads
        PROVE  /\ slot[th] \in {"none", "idle"} => slot'[th] \in {"none", "idle"}
               /\ slot'[th] = "none" <=> slot[th] = "none"
               /\ slot'[th] \in {"none", "idle"} => held'[th] = NoJob
               /\ exiting[th] => slot'[th] \in {"idle", "full", "dead"}
               /\ held'[th] = "search" => held[th] = "search"
               /\ slot'[th] \in {"full", "busy"} /\ held'[th] = "clear"
                    => network[th] # "dangling"
    <3>1. CASE th = t
      BY <2>0, <2>1, <2>2, <3>1 DEF IInv, SlotsRest
    <3>2. CASE th # t
      BY <2>1, <2>2, <3>2 DEF IInv, SlotsRest
    <3> QED BY <3>1, <3>2
  <2> QED BY <2>1, <2>3, <2>4, <2>5, PoolFramePreserves
<1> QED BY <1>1, <1>2

(* A pool thread parks.                                                     *)
LEMMA ParkThreadPreserves ==
  ASSUME IInv, NEW t \in Threads, ParkThread(t)
  PROVE  IInv'
<1>1. /\ slot[t] = "busy" /\ held[t] = NoJob
      /\ slot' = [slot EXCEPT ![t] = "idle"]
      /\ UNCHANGED <<held, exiting, script, pool, leaving, search, promised>>
  BY DEF ParkThread, Idle, gui
<1>2. slot'[t] = "idle" /\ \A th \in Threads \ {t} : slot'[th] = slot[th]
  BY <1>1 DEF IInv, Typed, SlotTypeOK
<1>3. MainSearches' = MainSearches
  BY <1>1, <1>2, JobsThere, MainIsAThread DEF MainSearches
<1>4. /\ slot' \in [Threads -> {"none", "idle", "full", "busy", "dead"}]
      /\ held' \in [Threads -> Jobs \cup {NoJob}]
  BY <1>1 DEF IInv, Typed, SlotTypeOK
<1>5. ASSUME NEW th \in Threads
      PROVE  /\ slot[th] \in {"none", "idle"} => slot'[th] \in {"none", "idle"}
             /\ slot'[th] = "none" <=> slot[th] = "none"
             /\ slot'[th] \in {"none", "idle"} => held'[th] = NoJob
             /\ exiting[th] => slot'[th] \in {"idle", "full", "dead"}
             /\ held'[th] = "search" => held[th] = "search"
             /\ slot'[th] \in {"full", "busy"} /\ held'[th] = "clear"
                  => network[th] # "dangling"
  <2>1. CASE th = t
    BY <1>1, <1>2, <2>1 DEF IInv, SlotsRest
  <2>2. CASE th # t
    BY <1>1, <1>2, <2>2 DEF IInv, SlotsRest
  <2> QED BY <2>1, <2>2
<1>6. /\ slot'[Main] = "full" => slot[Main] = "full"
      /\ MainSearches => slot'[Main] = slot[Main]
  BY <1>1, <1>2, JobsThere, MainIsAThread DEF MainSearches
<1> QED BY <1>1, <1>3, <1>4, <1>5, <1>6, PoolFramePreserves

(* A pool thread told to exit returns.                                      *)
LEMMA ReturnThreadPreserves ==
  ASSUME IInv, NEW t \in Threads, ReturnThread(t)
  PROVE  IInv'
<1>1. /\ slot[t] = "full" /\ exiting[t]
      /\ slot' = [slot EXCEPT ![t] = "dead"]
      /\ UNCHANGED <<held, exiting, script, pool, leaving, search, promised>>
  BY DEF ReturnThread, Return, gui
<1>2. slot'[t] = "dead" /\ \A th \in Threads \ {t} : slot'[th] = slot[th]
  BY <1>1 DEF IInv, Typed, SlotTypeOK
<1>3. MainSearches' = MainSearches
  BY <1>1, <1>2, MainIsAThread DEF MainSearches
<1>4. /\ slot' \in [Threads -> {"none", "idle", "full", "busy", "dead"}]
      /\ held' \in [Threads -> Jobs \cup {NoJob}]
  BY <1>1 DEF IInv, Typed, SlotTypeOK
<1>5. ASSUME NEW th \in Threads
      PROVE  /\ slot[th] \in {"none", "idle"} => slot'[th] \in {"none", "idle"}
             /\ slot'[th] = "none" <=> slot[th] = "none"
             /\ slot'[th] \in {"none", "idle"} => held'[th] = NoJob
             /\ exiting[th] => slot'[th] \in {"idle", "full", "dead"}
             /\ held'[th] = "search" => held[th] = "search"
             /\ slot'[th] \in {"full", "busy"} /\ held'[th] = "clear"
                  => network[th] # "dangling"
  <2>1. CASE th = t
    BY <1>1, <1>2, <2>1 DEF IInv, SlotsRest
  <2>2. CASE th # t
    BY <1>1, <1>2, <2>2 DEF IInv, SlotsRest
  <2> QED BY <2>1, <2>2
<1>6. /\ slot'[Main] = "full" => slot[Main] = "full"
      /\ MainSearches => slot'[Main] = slot[Main]
  BY <1>1, <1>2, JobsThere, MainIsAThread DEF MainSearches
<1> QED BY <1>1, <1>3, <1>4, <1>5, <1>6, PoolFramePreserves

(***************************************************************************)
(* The theorems.                                                           *)
(***************************************************************************)
(* A step that leaves alone what holds the answer back.                     *)
LEMMA FlagsKept ==
  ASSUME StopIsDue, UNCHANGED <<stop, ponder, limits, hasMoves, owed, asked>>
  PROVE  HeldBack' = HeldBack /\ StopIsDue'
  BY DEF StopIsDue, HeldBack, Held, EndsItself

(* Whoever raises stop during the search does so for a search that is not   *)
(* held back, or that ends by itself.                                       *)
LEMMA SearchFlagsPreserve ==
  ASSUME IInv,
         \/ PonderHit \/ CheckTime \/ FailLow \/ RunLate \/ StopOnPonderhit
         \/ \E th \in Threads : BeginIteration(th) \/ EndIteration(th)
         \/ Left \/ UNCHANGED vars
  PROVE  IInv' /\ owed' = owed /\ (HeldBack' => HeldBack)
<1>1. UNCHANGED <<slots, script, pool, leaving, owed>>
  BY DEF PonderHit, CheckTime, FailLow, RunLate, StopOnPonderhit, BeginIteration, EndIteration,
         Left, vars, gui, promised
<1>2. (HeldBack' => HeldBack) /\ StopIsDue'
  <2>1. CASE PonderHit
    BY <2>1 DEF PonderHit, IInv, StopIsDue, HeldBack, Held, EndsItself, promised
  <2>2. CASE CheckTime
    <3>1. /\ ~ponder' /\ stop' = TRUE /\ limits' \cap {"clock", "movetime"} # {}
      BY <2>2 DEF CheckTime
    <3> QED BY <3>1 DEF StopIsDue, HeldBack, Held, EndsItself
  <2>3. CASE \E th \in Threads : EndIteration(th)
    <3>1. PICK mated \in BOOLEAN, enough \in BOOLEAN :
            /\ mated => "mate" \in limits
            /\ enough => "clock" \in limits
            /\ stop' = (stop \/ mated \/ (enough /\ ~ponder))
            /\ UNCHANGED <<ponder, limits, hasMoves, owed, asked>>
      BY <2>3 DEF EndIteration, promised
    <3>2. CASE ~mated /\ ~(enough /\ ~ponder)
      <4>1. (stop' => stop) /\ (stop => stop')
        BY <3>1, <3>2
      <4> QED BY <3>1, <4>1 DEF IInv, StopIsDue, HeldBack, Held, EndsItself
    <3>3. CASE mated \/ (enough /\ ~ponder)
      BY <3>1, <3>3 DEF StopIsDue, HeldBack, Held, EndsItself
    <3> QED BY <3>2, <3>3
  <2>4. CASE FailLow \/ RunLate \/ StopOnPonderhit \/ \E th \in Threads : BeginIteration(th)
    BY <2>4, FlagsKept
       DEF FailLow, RunLate, StopOnPonderhit, BeginIteration, IInv, promised
  <2>5. CASE Left \/ UNCHANGED vars
    BY <2>5, FlagsKept DEF Left, vars, search, promised, IInv
  <2> QED BY <2>1, <2>2, <2>3, <2>4, <2>5
<1>3. IInv'
  BY <1>1, <1>2, FramePreserves
<1> QED BY <1>1, <1>2, <1>3

(* Any step of the reader.                                                  *)
LEMMA ReaderStepPreserves ==
  ASSUME IInv, ReaderStep
  PROVE  IInv'
<1>1. CASE DriverStep("reader")
  BY <1>1, ReaderWaitPreserves, ReaderPutPreserves, ReaderPlainPreserves DEF DriverStep
<1>2. CASE StartThread \/ ExitThread \/ JoinThread
  BY <1>2, StartThreadPreserves, ExitThreadPreserves, JoinThreadPreserves
<1>3. CASE Stop \/ WriteShared
  BY <1>3, ReaderPlainPreserves
<1>4. CASE SetRoot \/ ReplaceNetwork \/ EnsureNetworkReplicated
  BY <1>4, SetRootPreserves, ReplaceNetworkPreserves, EnsurePreserves
<1>5. ASSUME NEW l \in LimitSet, NEW m \in BOOLEAN, Arm(l, m)
      PROVE  IInv'
  BY <1>5, ArmPreserves
<1> QED BY <1>1, <1>2, <1>3, <1>4, <1>5 DEF ReaderStep

(* Any step of the main worker's script.                                    *)
LEMMA MainWorkerStepPreserves ==
  ASSUME IInv, MainWorkerStep
  PROVE  IInv'
<1>1. CASE DriverStep("main")
  BY <1>1, MainPlainPreserves, MainPutPreserves DEF DriverStep
<1>2. CASE NewSearch \/ LeaveDeepening \/ Spin \/ Halt \/ Vote \/ Bestmove
  BY <1>2, MainPlainPreserves
<1>3. CASE StopOnPonderhit
  BY <1>3, SearchFlagsPreserve
<1> QED BY <1>1, <1>2, <1>3 DEF MainWorkerStep

(* Every step preserves the invariant.                                      *)
LEMMA NextPreservesInvariant ==
  ASSUME IInv, [Next]_vars
  PROVE  IInv'
<1>1. CASE ReaderStep
  BY <1>1, ReaderStepPreserves
<1>2. ASSUME NEW c \in Commands, NEW k \in 1 .. MaxThreads, Receive(c, k)
      PROVE  IInv'
  BY <1>2, ReceivePreserves
<1>3. CASE Quit
  BY <1>3, QuitPreserves
<1>4. CASE MainWorkerStep
  BY <1>4, MainWorkerStepPreserves
<1>5. ASSUME NEW th \in Threads, PoolStep(th)
      PROVE  IInv'
  BY <1>5, TakeJobPreserves, FinishJobPreserves, ParkThreadPreserves, ReturnThreadPreserves
     DEF PoolStep
<1>6. CASE PonderHit \/ CheckTime \/ FailLow \/ RunLate
  BY <1>6, SearchFlagsPreserve
<1>7. ASSUME NEW th \in Threads, BeginIteration(th) \/ EndIteration(th)
      PROVE  IInv'
  BY <1>7, SearchFlagsPreserve
<1>8. CASE Left \/ UNCHANGED vars
  BY <1>8, SearchFlagsPreserve
<1> QED BY <1>1, <1>2, <1>3, <1>4, <1>5, <1>6, <1>7, <1>8 DEF Next

(* The invariant holds throughout a session.                                *)
LEMMA InvariantHolds == Spec => []IInv
<1>1. Init => IInv
  BY InitEstablishesInvariant
<1>2. IInv /\ [Next]_vars => IInv'
  BY NextPreservesInvariant
<1> QED BY <1>1, <1>2, PTL DEF Spec

(* The reader and the main worker are never inside the same Thread.         *)
THEOREM DriversNeverMeet == Spec => []ExclusiveDrivers
<1>1. IInv => ExclusiveDrivers
  <2> SUFFICES ASSUME IInv,
                      \A d \in Drivers : script[d] # << >> /\ Step(d).op \in ThreadOps,
                      Step("reader").th = Step("main").th
               PROVE  FALSE
    BY DEF ExclusiveDrivers
  <2>1. script["reader"] # << >> /\ script["main"] # << >>
    BY DEF Drivers
  <2>2. Step("reader").op \in ThreadOps /\ Step("main").op \in ThreadOps
    BY DEF Drivers
  <2>3. MainSearches /\ slot[Main] = "busy"
    BY <2>1, ScriptMeansSearching
  <2>4. PICK a : Holds(a) /\ ReaderMay(a, Step("reader"))
    BY <2>1, ReaderKnows DEF IInv
  <2>5. Step("reader").th = Main
    BY <2>2, <2>3, <2>4 DEF Holds, ReaderMay, ThreadOps
  <2>6. PICK b : b.size = size /\ MainMay(b, Step("main"))
    BY <2>1, <2>3, MainKnows DEF IInv
  <2>7. Step("main").th \in 1 .. size - 1
    BY <2>2, <2>6 DEF MainMay
  <2> QED BY <2>5, <2>7 DEF Main, IInv, Typed
<1> QED BY <1>1, InvariantHolds, PTL

(* What a running worker reads is written only while every pool thread is   *)
(* parked, and the main worker reads the lines of parked workers only.      *)
THEOREM WorkersAreNotDisturbed == Spec => []NobodyIsDisturbed
<1>1. ASSUME IInv PROVE WrittenWhenParked
  <2> SUFFICES ASSUME script["reader"] # << >>, Step("reader").op \in Guarded
               PROVE  \A th \in Threads : slot[th] \in {"none", "idle"}
    BY DEF WrittenWhenParked, Guarded
  <2>1. PICK a : a \in Knowledge /\ Holds(a) /\ ReaderMay(a, Step("reader"))
    BY <1>1, ReaderKnows DEF IInv
  <2>2. Idling = Threads
    BY <1>1, <2>1, GuardedMeansParked DEF IInv, ReaderMay
  <2> QED BY <2>2 DEF Idling
<1>2. ASSUME IInv PROVE VoteReadsParkedWorkers
  <2> SUFFICES ASSUME Ready("main", "vote"), NEW th \in Helpers, th < size
               PROVE  slot[th] = "idle" /\ root[th] = "current"
    BY DEF VoteReadsParkedWorkers
  <2>1. script["main"] # << >> /\ Step("main").op = "vote" /\ th \in Threads
    BY DEF Ready, Step, Helpers
  <2>2. MainSearches /\ slot[Main] = "busy"
    BY <1>2, <2>1, ScriptMeansSearching
  <2>3. PICK a : a.parked \subseteq Idling /\ MainMay(a, Step("main"))
    BY <1>2, <2>1, <2>2, MainKnows DEF IInv
  <2>4. th \in Idling
    BY <2>1, <2>3 DEF MainMay
  <2>5. slot[th] # "none" /\ root[th] = "current"
    BY <1>2, <2>1, <2>2 DEF IInv, SearchIsReady
  <2> QED BY <2>4, <2>5 DEF Idling
<1>3. IInv => NobodyIsDisturbed
  BY <1>1, <1>2 DEF NobodyIsDisturbed
<1> QED BY <1>3, InvariantHolds, PTL

(* A worker that searches holds the root the GUI asked for, and no worker   *)
(* searches or clears over a network that was destroyed.                    *)
THEOREM SearchersAreFurnished == Spec => []SearchesWhatItShould
<1>1. ASSUME IInv PROVE SearchesWhatItShould
  <2> SUFFICES ASSUME NEW th \in Threads, slot[th] \in {"full", "busy"}, ~exiting[th]
               PROVE  /\ held[th] = "search" => root[th] = "current" /\ network[th] = "resident"
                      /\ held[th] = "clear" => network[th] # "dangling"
    BY DEF SearchesWhatItShould
  <2>1. held[th] = "clear" => network[th] # "dangling"
    BY <1>1 DEF IInv, SlotsRest
  <2>2. ASSUME held[th] = "search" PROVE root[th] = "current" /\ network[th] = "resident"
    <3>1. MainSearches
      BY <1>1, <2>2 DEF IInv, SlotsRest, MainSearches
    <3>2. th < size
      BY <1>1, <3>1 DEF IInv, SearchIsReady
    <3> QED BY <1>1, <3>1, <3>2 DEF IInv, SearchIsReady
  <2> QED BY <2>1, <2>2
<1>2. IInv => SearchesWhatItShould
  BY <1>1
<1> QED BY <1>2, InvariantHolds, PTL

(***************************************************************************)
(* The refinement.                                                         *)
(***************************************************************************)
(* Only "go" accepts a search and only bestmove answers it; no other step   *)
(* takes back that an answer may be given.                                  *)
LEMMA OthersOnlyRelease ==
  ASSUME IInv, [Next]_vars, ~Bestmove,
         ~ \E l \in LimitSet, m \in BOOLEAN : Arm(l, m)
  PROVE  owed' = owed /\ (HeldBack' => HeldBack)
<1> DEFINE Kept == UNCHANGED <<stop, ponder, limits, hasMoves, owed, asked>>
<1>1. ASSUME Kept PROVE owed' = owed /\ (HeldBack' => HeldBack)
  BY <1>1, FlagsKept DEF IInv
<1>2. CASE ReaderStep
  <2>1. CASE Stop
    BY <2>1 DEF Stop, HeldBack, Held
  <2>2. CASE ~Stop
    <3>1. Kept
      BY <1>2, <2>2 DEF ReaderStep, DriverStep, Wait, PutJob, NotifyThread, StartThread, ExitThread,
            JoinThread, SetRoot, ReplaceNetwork, EnsureNetworkReplicated, WriteShared,
            search, promised
    <3> QED BY <1>1, <3>1
  <2> QED BY <2>1, <2>2
<1>3. CASE MainWorkerStep
  <2>1. CASE Halt
    <3>1. UNCHANGED <<ponder, limits, hasMoves, owed, asked>> /\ stop' = TRUE
      BY <2>1 DEF Halt, promised
    <3> QED BY <3>1 DEF HeldBack, Held, EndsItself
  <2>2. CASE StopOnPonderhit
    BY <2>2, SearchFlagsPreserve
  <2>3. CASE ~Halt /\ ~StopOnPonderhit
    <3>1. Kept
      BY <1>3, <2>3 DEF MainWorkerStep, DriverStep, Wait, PutJob, NotifyThread, NewSearch,
            LeaveDeepening, Spin, Vote, search, promised
    <3> QED BY <1>1, <3>1
  <2> QED BY <2>1, <2>2, <2>3
<1>4. CASE Quit \/ \E c \in Commands, k \in 1 .. MaxThreads : Receive(c, k)
  <2>1. Kept
    BY <1>4 DEF Receive, Quit, search, promised
  <2> QED BY <1>1, <2>1
<1>5. ASSUME NEW th \in Threads, PoolStep(th)
      PROVE  owed' = owed /\ (HeldBack' => HeldBack)
  <2>1. Kept
    BY <1>5 DEF PoolStep, TakeJob, FinishJob, ParkThread, ReturnThread, search, promised
  <2> QED BY <1>1, <2>1
<1>6. CASE \/ PonderHit \/ CheckTime \/ FailLow \/ RunLate \/ Left \/ UNCHANGED vars
           \/ \E th \in Threads : BeginIteration(th) \/ EndIteration(th)
  BY <1>6, SearchFlagsPreserve
<1> HIDE DEF Kept
<1> QED BY <1>2, <1>3, <1>4, <1>5, <1>6 DEF Next

(* What each step of a session is to the GUI.                               *)
LEMMA StepsMapToPromiseSteps ==
  ASSUME IInv, [Next]_vars
  PROVE  [Promise!PromiseNext]_(Promise!promise)
<1>1. ASSUME NEW l \in LimitSet, NEW m \in BOOLEAN, Arm(l, m)
      PROVE  Promise!Accept
  <2>1. script["reader"] # << >> /\ Step("reader").op = "arm" /\ owed' = owed + 1
    BY <1>1 DEF Arm, Ready, Step
  <2>2. PICK a : a \in Knowledge /\ Holds(a) /\ ReaderMay(a, Step("reader"))
    BY <2>1, ReaderKnows DEF IInv
  <2>3. a.parked = Threads /\ a.due = "no"
    BY <2>1, <2>2 DEF ReaderMay, Guarded
  <2>4. ~MainSearches
    BY <2>2, <2>3, GuardedMeansParked DEF IInv
  <2>5. owed = 0
    BY <2>2, <2>3, <2>4 DEF Holds
  <2>6. HeldBack' \in BOOLEAN
    BY DEF HeldBack
  <2> QED BY <2>1, <2>5, <2>6 DEF Promise!Accept
<1>2. CASE Bestmove
  <2>1. script["main"] # << >> /\ Step("main").op = "bestmove" /\ owed' = owed - 1
    BY <1>2 DEF Bestmove, MainStep, Ready, Step
  <2>2. MainSearches /\ slot[Main] = "busy"
    BY <2>1, ScriptMeansSearching
  <2>3. PICK a : /\ owed = IF a.due = "no" THEN 0 ELSE 1
                 /\ a.due = "free" => ~HeldBack
                 /\ MainMay(a, Step("main"))
    BY <2>1, <2>2, MainKnows DEF IInv
  <2>4. owed = 1 /\ ~HeldBack /\ owed' = 0
    BY <2>1, <2>3 DEF MainMay
  <2>5. HeldBack' = FALSE
    BY <2>4 DEF HeldBack, Held
  <2> QED BY <2>4, <2>5 DEF Promise!Answer, Promise!PromiseNext
<1>3. ASSUME ~Bestmove, ~ \E l \in LimitSet, m \in BOOLEAN : Arm(l, m)
      PROVE  Promise!Release \/ UNCHANGED Promise!promise
  <2>1. owed' = owed /\ (HeldBack' => HeldBack)
    BY <1>3, OthersOnlyRelease
  <2>2. CASE HeldBack /\ ~HeldBack'
    <3>1. owed = 1 /\ HeldBack' = FALSE
      BY <2>2 DEF HeldBack, Held
    <3> QED BY <2>1, <2>2, <3>1 DEF Promise!Release
  <2>3. CASE ~(HeldBack /\ ~HeldBack')
    <3>1. HeldBack' = HeldBack
      BY <2>1, <2>3 DEF HeldBack
    <3> QED BY <2>1, <3>1 DEF Promise!promise
  <2> QED BY <2>2, <2>3
<1> QED BY <1>1, <1>2, <1>3 DEF Promise!PromiseNext

(* A session promises what UciPromise says, but for the liveness: a search  *)
(* is accepted only when none is owed an answer, it is answered once, and   *)
(* not while the GUI holds it back.                                         *)
THEOREM EngineKeepsPromise == Spec => Promise!PromiseSafety
<1>1. Init => Promise!PromiseInit
  BY DEF Init, Promise!PromiseInit, HeldBack, Held
<1>2. IInv /\ [Next]_vars => [Promise!PromiseNext]_(Promise!promise)
  BY StepsMapToPromiseSteps
<1> QED BY <1>1, <1>2, InvariantHolds, PTL DEF Spec, Promise!PromiseSafety
=============================================================================
