-------------------------- MODULE TreeSearchProofs --------------------------
(* The calls of a search and its position agree in every reachable state,   *)
(* for any games, tables and orders of stops (SearchStaysBalanced).         *)
EXTENDS TreeSearch, FiniteSetTheorems, SequenceTheorems, TLAPS

-----------------------------------------------------------------------------
(* The invariant.  Its parts name what they speak of: h is the game, st the *)
(* stack, ln the line, s the Stack entries and n the null moves' ply.       *)
FrameFields == {"pc", "kind", "type", "ply", "alpha", "beta", "asked", "depth", "cut", "excl", "tt",
  "uns", "eval", "improving", "worsening", "best", "max", "bestMove", "queue", "m", "mc", "skip",
  "ext", "newDepth", "d", "r", "aim", "value", "base"}
EntryFields == {"hit", "move", "value", "depth", "bound", "pv", "eval"}
StackFields == {"static", "inCheck", "excluded", "move", "ttPv", "reduction", "nmpHigh", "cutoffs", "follow"}

LoopPcs   == {"loop", "singularBack", "make", "lmrBack", "zeroBack", "value", "pvBack", "finish"}
SearchPcs == LoopPcs \cup {"enter", "probe", "cutoff", "tables", "prune", "null", "nullBack", "verifyBack",
                           "probcut", "probNext", "probBack", "probDeep", "small"}
QPcs      == {"enter", "qloop", "qback", "qfinish"}
MadePcs   == {"lmrBack", "zeroBack", "pvBack", "qback", "probBack", "probDeep", "nullBack", "value"}
SamePcs   == {"singularBack", "verifyBack"}
BackPcs   == (MadePcs \ {"value"}) \cup SamePcs
PlayPcs   == {"singularBack", "make", "lmrBack", "zeroBack", "value", "pvBack", "probBack", "probDeep", "qback"}

Made(r)   == IF r.pc \in MadePcs THEN 1 ELSE 0
Onward(r) == IF r.pc \in SamePcs THEN 0 ELSE 1
Nulled(r) == IF r.pc = "nullBack" THEN 1 ELSE 0

Plies(h)       == [pos : DOMAIN h.moves, rule50 : Nat, fromNull : Nat]
MovesOf(h, p)  == { h.moves[p][i].to : i \in DOMAIN h.moves[p] }
MaybeMove(h, p) == MovesOf(h, p) \cup {NoMove}

TypedEntry(h, e, p) ==
  /\ DOMAIN e = EntryFields
  /\ e.move \in MaybeMove(h, p) /\ e.value \in Int /\ e.eval \in Int
TypedTable(h, t) == DOMAIN t = DOMAIN h.moves /\ \A p \in DOMAIN h.moves : TypedEntry(h, t[p], p)

TypedStack(s) ==
  /\ DOMAIN s = -2 .. MaxPly + 2
  /\ \A p \in -2 .. MaxPly + 2 : DOMAIN s[p] = StackFields /\ s[p].static \in Int /\ s[p].reduction \in Int

TypedLine(h, ln) == ln \in Seq(Plies(h)) /\ ln # << >> /\ ln[1].pos = h.root

(* A frame: its types, the moves it may hold at the position p it works on, *)
(* its window, and how far it has come.                                     *)
TypedFrame(r) ==
  /\ DOMAIN r = FrameFields
  /\ r.kind \in {"search", "qsearch"} /\ r.type \in {"Root", "PV", "NonPV"}
  /\ r.ply \in Nat /\ r.ply <= MaxPly /\ r.mc \in Nat
  /\ r.alpha \in Int /\ r.beta \in Int /\ r.depth \in Int /\ r.uns \in Int /\ r.eval \in Int
  /\ r.best \in Int /\ r.max \in Int /\ r.ext \in Int /\ r.newDepth \in Int /\ r.d \in Int
  /\ r.r \in Int /\ r.aim \in Int /\ r.value \in Int /\ r.base \in Int

FrameMoves(h, r, p) ==
  /\ TypedEntry(h, r.tt, p)
  /\ r.bestMove \in MaybeMove(h, p)
  /\ r.pc \in PlayPcs => r.m \in MovesOf(h, p)
  /\ r.queue \subseteq 0 .. Len(h.moves[p])
  /\ 0 \in r.queue => r.tt.move # NoMove
  /\ r.kind = "search" /\ r.pc \in LoopPcs =>
       \A k \in r.queue : r.mc <= k /\ (k # 0 => h.moves[p][k].to # r.tt.move)

FrameWindow(r) ==
  /\ r.alpha < r.beta
  /\ r.type = "NonPV" => r.alpha = r.beta - 1
  /\ r.type # "NonPV" => ~r.cut
  /\ r.cut => r.ply > 0
  /\ r.type = "Root" => r.ply = 0 /\ -ValueInfinite <= r.alpha

FrameProgress(r) ==
  /\ r.pc # "enter" => r.ply < MaxPly
  /\ r.kind = "qsearch" => r.pc \in QPcs /\ r.type # "Root"
  /\ r.kind = "search" =>
       /\ r.pc \in SearchPcs
       /\ r.pc = "enter" => r.best = -ValueInfinite
       /\ r.pc \in {"enter", "probe"} => r.queue = {}
       /\ r.pc \notin LoopPcs => r.mc = 0
       /\ r.pc # "enter" =>
            /\ -ValueInfinite <= r.alpha /\ 1 <= r.depth /\ r.mc < MaxMoves
            /\ r.depth <= MaxPly + (IF r.pc \in LoopPcs \ {"singularBack"} /\ 0 \notin r.queue THEN 1 ELSE 0)
       /\ r.pc = "probe" => r.depth < MaxPly
       /\ r.pc = "singularBack" => 0 \notin r.queue
       /\ r.pc \notin {"enter", "finish"} => r.best <= r.alpha
       /\ r.pc \in {"nullBack", "verifyBack", "singularBack"} => r.excl = NoMove
       /\ r.pc = "nullBack" => r.cut

FrameOk(h, r, p) == TypedFrame(r) /\ FrameMoves(h, r, p) /\ FrameWindow(r) /\ FrameProgress(r)

(* What the frame r above a waiting frame owes it.                          *)
Excludes(r) == r.excl # NoMove \/ (r.kind = "search" /\ r.pc \in {"enter", "probe"} /\ r.depth > 0)
Shallowed(r) == r.kind = "qsearch" \/ (r.pc = "enter" /\ r.depth <= 0)

Answers(w, r, s) ==
  /\ w.pc \in BackPcs
  /\ r.ply = w.ply + Onward(w)
  /\ w.pc = "nullBack" => ~r.cut
  /\ w.pc = "singularBack" => s[w.ply].excluded # NoMove /\ Excludes(r)

Linked(st, s) ==
  /\ \A k \in 1 .. Len(st) - 1 : Answers(st[k], st[k + 1], s)
  /\ \A j, k \in 1 .. Len(st) : j <= k => st[j].ply <= st[k].ply

Verifying(st, n) ==
  /\ n \in Int
  /\ \A j, k \in 1 .. Len(st) : st[j].pc = "verifyBack" /\ st[k].pc = "verifyBack" => j = k
  /\ n # 0 => \E k \in 1 .. Len(st) : st[k].pc = "verifyBack"
  /\ \A j, k \in 1 .. Len(st) : n = 0 /\ j < k /\ st[j].pc = "verifyBack" => Shallowed(st[k])

FramesOk(h, st, ln) ==
  \A k \in 1 .. Len(st) : st[k].ply < Len(ln) /\ FrameOk(h, st[k], ln[st[k].ply + 1].pos)

NullsOf(st) == { k \in 1 .. Len(st) : st[k].pc = "nullBack" }
Counted(st, ln, a) == a \in Int /\ a = Len(ln) - Cardinality(NullsOf(st))

Reaches(ln, r) == Len(ln) = r.ply + 1 + Made(r)
Topped(st, ln) ==
  IF st = << >> THEN Len(ln) = 1 ELSE st[1].ply = 0 /\ Reaches(ln, st[Len(st)])

IsSeq(st) == \E E : st \in Seq(E)

Calls(h, st, ln, a, s, n) ==
  /\ IsSeq(st) /\ FramesOk(h, st, ln) /\ Linked(st, s) /\ Topped(st, ln)
  /\ Counted(st, ln, a) /\ Verifying(st, n)

TreeInv ==
  /\ WellPosed(G)
  /\ TypedLine(G, line) /\ TypedStack(ss) /\ TypedTable(G, tt)
  /\ depths \in Seq(Nat \ {0}) /\ ret.v \in Int
  /\ Calls(G, stack, line, acc, ss, nmpMinPly)

-----------------------------------------------------------------------------
(* The stack as a sequence.                                                 *)
LEMMA FrontOf ==
  ASSUME NEW E, NEW st \in Seq(E), st # << >>
  PROVE  /\ Front(st) \in Seq(E) /\ Len(Front(st)) = Len(st) - 1
         /\ \A k \in 1 .. Len(st) - 1 : Front(st)[k] = st[k]
         /\ Last(st) = st[Len(st)] /\ Len(st) \in Nat \ {0}
         /\ Front(st) = << >> => Len(st) = 1
<1>1. Len(st) \in Nat \ {0}
  OBVIOUS
<1>2. Front(st) = SubSeq(st, 1, Len(st) - 1)
  BY DEF Front
<1>3. /\ Front(st) \in Seq(E) /\ Len(Front(st)) = Len(st) - 1
      /\ \A k \in 1 .. Len(st) - 1 : Front(st)[k] = st[k]
  <2>. DEFINE n == Len(st) - 1
              u == SubSeq(st, 1, n)
  <2>1. n \in Nat /\ \A i \in 1 .. n : st[i] \in E
    BY <1>1
  <2>. HIDE DEF n
  <2>2. /\ u \in Seq(E)
        /\ Len(u) = IF 1 <= n THEN n - 1 + 1 ELSE 0
        /\ \A i \in 1 .. n - 1 + 1 : u[i] = st[1 + i - 1]
    BY <2>1, SubSeqProperties
  <2>. HIDE DEF u
  <2>3. Len(u) = n
    BY <2>1, <2>2
  <2>4. ASSUME NEW k \in 1 .. n PROVE u[k] = st[k]
    <3>1. k \in 1 .. n - 1 + 1 /\ 1 + k - 1 = k
      BY <2>1
    <3>. QED
      BY <2>2, <3>1
  <2>5. Front(st) = u
    BY <1>2 DEF u, n
  <2>. QED
    BY <2>2, <2>3, <2>4, <2>5 DEF n
<1>4. Front(st) = << >> => Len(st) = 1
  BY <1>1, <1>3
<1>. QED
  BY <1>1, <1>3, <1>4 DEF Last

(* A call is answered: its frame leaves.                                    *)
LEMMA PopSeq ==
  ASSUME NEW st, IsSeq(st), st # << >>
  PROVE  /\ IsSeq(Front(st)) /\ Len(Front(st)) = Len(st) - 1
         /\ \A k \in 1 .. Len(st) - 1 : Front(st)[k] = st[k]
         /\ Last(st) = st[Len(st)] /\ Len(st) \in Nat \ {0}
         /\ Front(st) = << >> <=> Len(st) = 1
<1>1. PICK E : st \in Seq(E)
  BY DEF IsSeq
<1>2. /\ Front(st) \in Seq(E) /\ Len(Front(st)) = Len(st) - 1
      /\ \A k \in 1 .. Len(st) - 1 : Front(st)[k] = st[k]
      /\ Last(st) = st[Len(st)] /\ Len(st) \in Nat \ {0}
      /\ Front(st) = << >> => Len(st) = 1
  BY <1>1, FrontOf
<1>3. Len(st) = 1 => Front(st) = << >>
  BY <1>2
<1>. QED
  BY <1>2, <1>3 DEF IsSeq

(* The top frame becomes g.                                                 *)
Tops(t, st, g) ==
  /\ IsSeq(t) /\ Len(t) = Len(st) /\ t # << >> /\ Len(st) \in Nat \ {0}
  /\ t[Len(st)] = g
  /\ \A k \in 1 .. Len(st) - 1 : t[k] = st[k]

LEMMA BecomeSeq ==
  ASSUME NEW st, IsSeq(st), st # << >>, NEW g
  PROVE  Tops(Append(Front(st), g), st, g)
<1>1. PICK E : st \in Seq(E)
  BY DEF IsSeq
<1>2. PICK u \in Seq(E) : /\ u = Front(st) /\ Len(u) = Len(st) - 1
                          /\ \A k \in 1 .. Len(st) - 1 : u[k] = st[k]
  BY <1>1, FrontOf
<1>3. Len(st) \in Nat \ {0}
  BY <1>1, FrontOf
<1>4. u \in Seq(E \cup {g}) /\ g \in E \cup {g}
  OBVIOUS
<1>5. PICK t : t = Append(u, g)
  OBVIOUS
<1>6. t \in Seq(E \cup {g}) /\ Len(t) = Len(u) + 1 /\ t[Len(u) + 1] = g /\ \A k \in 1 .. Len(u) : t[k] = u[k]
  BY <1>4, <1>5
<1>7. Tops(t, st, g)
  BY <1>2, <1>3, <1>6 DEF IsSeq, Tops
<1>. QED
  BY <1>2, <1>5, <1>7

(* The top frame becomes g, and waits for the call c.                       *)
LEMMA AwaitSeq ==
  ASSUME NEW st, IsSeq(st), st # << >>, NEW g, NEW c
  PROVE  LET t == Append(Append(Front(st), g), c)
         IN  /\ IsSeq(t) /\ Len(t) = Len(st) + 1 /\ t # << >> /\ Len(st) \in Nat \ {0}
             /\ t[Len(st)] = g /\ t[Len(st) + 1] = c
             /\ \A k \in 1 .. Len(st) - 1 : t[k] = st[k]
<1>1. PICK u : u = Append(Front(st), g)
  OBVIOUS
<1>2. Tops(u, st, g)
  BY <1>1, BecomeSeq
<1>3. PICK E : u \in Seq(E)
  BY <1>2 DEF IsSeq, Tops
<1>4. PICK t : t = Append(u, c)
  OBVIOUS
<1>5. u \in Seq(E \cup {c}) /\ c \in E \cup {c}
  BY <1>3
<1>6. t \in Seq(E \cup {c}) /\ Len(t) = Len(u) + 1 /\ t[Len(u) + 1] = c /\ \A k \in 1 .. Len(u) : t[k] = u[k]
  BY <1>4, <1>5
<1>7. /\ IsSeq(t) /\ Len(t) = Len(st) + 1 /\ t # << >> /\ Len(st) \in Nat \ {0}
      /\ t[Len(st)] = g /\ t[Len(st) + 1] = c
      /\ \A k \in 1 .. Len(st) - 1 : t[k] = st[k]
  BY <1>2, <1>6 DEF IsSeq, Tops
<1>. QED
  BY <1>1, <1>4, <1>7

-----------------------------------------------------------------------------
(* What is true of the whole stack, step by step.                           *)

(* Null moves that wait: those below the top frame, and the top frame.      *)
LEMMA NullsCount ==
  ASSUME NEW st, NEW n \in Nat \ {0}, Len(st) = n
  PROVE  LET below == { k \in 1 .. n - 1 : st[k].pc = "nullBack" }
         IN  /\ Cardinality(below) \in Nat
             /\ Cardinality(NullsOf(st)) = Cardinality(below) + Nulled(st[n])
<1>. DEFINE below == { k \in 1 .. n - 1 : st[k].pc = "nullBack" }
<1>1. IsFiniteSet(1 .. n - 1) /\ below \subseteq 1 .. n - 1
  BY FS_Interval
<1>2. IsFiniteSet(below) /\ Cardinality(below) \in Nat
  BY <1>1, FS_Subset, FS_CardinalityType
<1>3. CASE st[n].pc = "nullBack"
  <2>1. NullsOf(st) = below \cup {n} /\ n \notin below
    BY <1>3 DEF NullsOf
  <2>2. Cardinality(below \cup {n}) = Cardinality(below) + 1
    BY <1>2, <2>1, FS_AddElement
  <2>3. Nulled(st[n]) = 1
    BY <1>3 DEF Nulled
  <2>. HIDE DEF below
  <2>4. Cardinality(NullsOf(st)) = Cardinality(below) + Nulled(st[n])
    BY <2>1, <2>2, <2>3
  <2>. QED
    BY <1>2, <2>4 DEF below
<1>4. CASE st[n].pc # "nullBack"
  <2>1. NullsOf(st) = below
    BY <1>4 DEF NullsOf
  <2>3. Nulled(st[n]) = 0
    BY <1>4 DEF Nulled
  <2>. HIDE DEF below
  <2>4. Cardinality(NullsOf(st)) = Cardinality(below) + Nulled(st[n])
    BY <1>2, <2>1, <2>3
  <2>. QED
    BY <1>2, <2>4 DEF below
<1>. QED
  BY <1>3, <1>4

(* No search with an excluded move waits for another at its ply.            *)
LEMMA SingularsApart ==
  ASSUME NEW h, NEW st, NEW ln, NEW s, IsSeq(st), FramesOk(h, st, ln), Linked(st, s),
         NEW j \in 1 .. Len(st), NEW k \in 1 .. Len(st),
         st[j].pc = "singularBack", st[k].pc = "singularBack", j # k
  PROVE  st[j].ply # st[k].ply
<1>0. Len(st) \in Nat
  BY DEF IsSeq
<1>1. SUFFICES ASSUME NEW i \in 1 .. Len(st), NEW l \in 1 .. Len(st), i < l,
                      st[i].pc = "singularBack", st[l].pc = "singularBack"
               PROVE  st[i].ply < st[l].ply
  <2>1. \A i \in 1 .. Len(st) : FrameOk(h, st[i], ln[st[i].ply + 1].pos)
    BY DEF FramesOk
  <2>2. \A i \in 1 .. Len(st) : st[i].ply \in Nat
    BY <2>1 DEF FrameOk, TypedFrame
  <2>3. j < k \/ k < j
    BY <1>0
  <2>. QED
    BY <1>1, <2>2, <2>3
<1>2. i \in 1 .. Len(st) - 1 /\ i + 1 \in 1 .. Len(st) /\ i + 1 <= l
  BY <1>0, <1>1
<1>3. Answers(st[i], st[i + 1], s)
  BY <1>2 DEF Linked
<1>4. FrameOk(h, st[i + 1], ln[st[i + 1].ply + 1].pos) /\ FrameOk(h, st[i], ln[st[i].ply + 1].pos)
      /\ FrameOk(h, st[l], ln[st[l].ply + 1].pos)
  BY <1>2 DEF FramesOk
<1>5. st[i].ply \in Nat /\ st[i + 1].ply \in Nat /\ st[l].ply \in Nat
  BY <1>4 DEF FrameOk, TypedFrame
<1>6. Excludes(st[i + 1]) /\ st[i + 1].ply = st[i].ply
  BY <1>1, <1>3, <1>5 DEF Answers, Onward, SamePcs
<1>7. st[i + 1].pc \notin {"singularBack", "verifyBack"}
  BY <1>4, <1>6 DEF FrameOk, TypedFrame, FrameProgress, Excludes, QPcs
<1>8. i + 1 < l
  BY <1>0, <1>1, <1>2, <1>7
<1>9. i + 1 \in 1 .. Len(st) - 1 /\ i + 2 \in 1 .. Len(st) /\ i + 2 <= l /\ (i + 1) + 1 = i + 2
  BY <1>0, <1>1, <1>8
<1>10. Answers(st[i + 1], st[i + 2], s)
  BY <1>9 DEF Linked
<1>11. st[i + 2].ply = st[i + 1].ply + 1
  BY <1>7, <1>10 DEF Answers, Onward, SamePcs
<1>12. st[i + 2].ply <= st[l].ply
  BY <1>9 DEF Linked
<1>. QED
  BY <1>5, <1>6, <1>11, <1>12

(* What a frame that goes on or returns lets go of: its excluded move, its  *)
(* verification, its null move.                                             *)
Releases(r, s, s2, n, n2) ==
  /\ \A p \in -2 .. MaxPly + 2 : r.pc # "singularBack" \/ p # r.ply => s2[p].excluded = s[p].excluded
  /\ n2 = IF r.pc = "verifyBack" THEN 0 ELSE n

Path(ln2, ln, r) == \A i \in 1 .. r.ply + 1 : ln2[i] = ln[i]

(* The frames below the top one rest on what they rested on.                *)
LEMMA BelowRests ==
  ASSUME NEW h, NEW st, NEW ln, NEW a, NEW s, NEW n, Calls(h, st, ln, a, s, n), st # << >>,
         NEW ln2, Len(ln2) \in Nat, st[Len(st)].ply < Len(ln2), Path(ln2, ln, st[Len(st)]),
         NEW k \in 1 .. Len(st) - 1
  PROVE  st[k].ply < Len(ln2) /\ FrameOk(h, st[k], ln2[st[k].ply + 1].pos)
<1>1. Len(st) \in Nat \ {0} /\ k \in 1 .. Len(st) /\ Len(st) \in 1 .. Len(st) /\ k <= Len(st)
  BY DEF Calls, IsSeq
<1>2. FrameOk(h, st[k], ln[st[k].ply + 1].pos) /\ FrameOk(h, st[Len(st)], ln[st[Len(st)].ply + 1].pos)
  BY <1>1 DEF Calls, FramesOk
<1>3. st[k].ply \in Nat /\ st[Len(st)].ply \in Nat
  BY <1>2 DEF FrameOk, TypedFrame
<1>4. st[k].ply <= st[Len(st)].ply
  BY <1>1 DEF Calls, Linked
<1>5. st[k].ply + 1 \in 1 .. st[Len(st)].ply + 1
  BY <1>3, <1>4
<1>6. ln2[st[k].ply + 1] = ln[st[k].ply + 1]
  BY <1>5 DEF Path
<1>. QED
  BY <1>2, <1>3, <1>4, <1>6

(* And owe each other what they owed.                                       *)
LEMMA BelowAnswers ==
  ASSUME NEW h, NEW st, NEW ln, NEW a, NEW s, NEW n, Calls(h, st, ln, a, s, n), st # << >>,
         NEW s2, NEW n2, Releases(st[Len(st)], s, s2, n, n2),
         NEW k \in 1 .. Len(st) - 1
  PROVE  st[k].pc = "singularBack" =>
           s2[st[k].ply].excluded # NoMove /\ Excludes(st[k + 1])
<1>1. Len(st) \in Nat \ {0} /\ k \in 1 .. Len(st) /\ Len(st) \in 1 .. Len(st) /\ k # Len(st)
  BY DEF Calls, IsSeq
<1>2. FrameOk(h, st[k], ln[st[k].ply + 1].pos)
  BY <1>1 DEF Calls, FramesOk
<1>3. st[k].ply \in -2 .. MaxPly + 2
  BY <1>2, MaxPlyAssumption DEF FrameOk, TypedFrame
<1>4. Answers(st[k], st[k + 1], s)
  BY DEF Calls, Linked
<1>5. ASSUME st[k].pc = "singularBack" PROVE s2[st[k].ply].excluded = s[st[k].ply].excluded
  <2>1. st[Len(st)].pc = "singularBack" => st[k].ply # st[Len(st)].ply
    BY <1>1, <1>5, SingularsApart DEF Calls
  <2>. QED
    BY <1>3, <2>1 DEF Releases
<1>. QED
  BY <1>4, <1>5 DEF Answers

(* The frame r goes on as g.                                                *)
Succeeds(r, g, s) ==
  /\ g.ply = r.ply /\ (g.cut => r.cut)
  /\ g.pc \notin {"nullBack", "verifyBack", "singularBack"}
  /\ s[r.ply].excluded # NoMove /\ Excludes(r) => Excludes(g)
  /\ Shallowed(r) => Shallowed(g)

LEMMA StackGoesOn ==
  ASSUME NEW h, NEW st, NEW ln, NEW a, NEW s, NEW n, Calls(h, st, ln, a, s, n), st # << >>, Len(ln) \in Nat,
         NEW r, r = st[Len(st)], NEW g, Succeeds(r, g, s),
         NEW ln2, Reaches(ln2, g), Path(ln2, ln, r),
         FrameOk(h, g, ln2[g.ply + 1].pos),
         NEW a2 \in Int, a2 - Len(ln2) = a - Len(ln) + Nulled(r),
         NEW s2, NEW n2, Releases(r, s, s2, n, n2)
  PROVE  Calls(h, Append(Front(st), g), ln2, a2, s2, n2)
<1>1. PICK t : t = Append(Front(st), g)
  OBVIOUS
<1>2. PICK L \in Nat \ {0} : L = Len(st)
  BY PopSeq DEF Calls
<1>3. IsSeq(t) /\ Len(t) = L /\ t # << >> /\ t[L] = g /\ \A k \in 1 .. L - 1 : t[k] = st[k]
  BY <1>1, <1>2, BecomeSeq DEF Calls, Tops
<1>4. FrameOk(h, r, ln[r.ply + 1].pos)
  BY <1>2 DEF Calls, FramesOk
<1>5. g.ply \in Nat /\ r.ply \in Nat /\ g.ply = r.ply
  BY <1>4 DEF FrameOk, TypedFrame, Succeeds
<1>6. Len(ln2) \in Nat /\ g.ply < Len(ln2)
  BY <1>5 DEF Made, Reaches
<1>7. \A k \in 1 .. L - 1 : st[k].ply < Len(ln2) /\ FrameOk(h, st[k], ln2[st[k].ply + 1].pos)
  BY <1>2, <1>5, <1>6, BelowRests
<1>8. FramesOk(h, t, ln2)
  <2>1. ASSUME NEW k \in 1 .. L PROVE t[k].ply < Len(ln2) /\ FrameOk(h, t[k], ln2[t[k].ply + 1].pos)
    <3>1. CASE k \in 1 .. L - 1
      BY <1>3, <1>7, <3>1
    <3>2. CASE k = L
      BY <1>3, <1>6, <3>2
    <3>. QED
      BY <1>2, <3>1, <3>2
  <2>. QED
    BY <1>3, <2>1 DEF FramesOk
<1>9. Linked(t, s2)
  <2>1. ASSUME NEW k \in 1 .. L - 1 PROVE Answers(t[k], t[k + 1], s2)
    <3>1. Answers(st[k], st[k + 1], s)
      BY <1>2 DEF Calls, Linked
    <3>2. st[k].pc = "singularBack" => s2[st[k].ply].excluded # NoMove /\ Excludes(st[k + 1])
      BY <1>2, BelowAnswers
    <3>3. CASE k + 1 \in 1 .. L - 1
      BY <1>3, <3>1, <3>2, <3>3 DEF Answers
    <3>4. CASE k + 1 = L
      <4>1. t[k] = st[k] /\ t[k + 1] = g /\ st[k + 1] = r
        BY <1>2, <1>3, <3>4
      <4>2. st[k].pc = "singularBack" => s[r.ply].excluded # NoMove
        <5>1. st[k].ply \in Nat
          <6>1. FrameOk(h, st[k], ln[st[k].ply + 1].pos)
            BY <1>2 DEF Calls, FramesOk
          <6>. QED
            BY <6>1 DEF FrameOk, TypedFrame
        <5>. QED
          BY <1>5, <3>1, <4>1, <5>1 DEF Answers, Onward, SamePcs
      <4>. QED
        BY <1>5, <3>1, <3>2, <4>1, <4>2 DEF Answers, Succeeds
    <3>. QED
      BY <1>2, <3>3, <3>4
  <2>2. ASSUME NEW j \in 1 .. L, NEW k \in 1 .. L, j <= k PROVE t[j].ply <= t[k].ply
    <3>1. st[j].ply <= st[k].ply
      BY <1>2, <2>2 DEF Calls, Linked
    <3>2. t[j].ply = st[j].ply /\ t[k].ply = st[k].ply
      BY <1>2, <1>3, <1>5
    <3>. QED
      BY <3>1, <3>2
  <2>. QED
    BY <1>3, <2>1, <2>2 DEF Linked
<1>10. Topped(t, ln2)
  <2>1. t[1].ply = 0
    <3>1. st[1].ply = 0
      BY <1>2 DEF Calls, Topped
    <3>2. CASE L = 1
      BY <1>2, <1>3, <1>5, <3>1, <3>2
    <3>3. CASE L # 1
      BY <1>2, <1>3, <3>1, <3>3
    <3>. QED
      BY <3>2, <3>3
  <2>. QED
    BY <1>3, <2>1 DEF Topped
<1>11. Counted(t, ln2, a2)
  <2>. DEFINE below(u) == { k \in 1 .. L - 1 : u[k].pc = "nullBack" }
  <2>1. below(t) = below(st)
    BY <1>3
  <2>2. Cardinality(below(st)) \in Nat /\ Cardinality(NullsOf(st)) = Cardinality(below(st)) + Nulled(r)
    BY <1>2, NullsCount
  <2>3. Cardinality(NullsOf(t)) = Cardinality(below(t)) + Nulled(g)
    BY <1>2, <1>3, NullsCount
  <2>4. Nulled(g) = 0 /\ Nulled(r) \in Nat
    BY DEF Nulled, Succeeds
  <2>5. a \in Int /\ a = Len(ln) - Cardinality(NullsOf(st))
    BY DEF Calls, Counted
  <2>. HIDE DEF below
  <2>. QED
    <3>0. PICK x \in Nat : x = Cardinality(below(st))
      BY <2>2
    <3>1. PICK y, z : y = Cardinality(NullsOf(st)) /\ z = Cardinality(NullsOf(t))
      OBVIOUS
    <3>2. y = x + Nulled(r) /\ z = x
      BY <2>1, <2>2, <2>3, <2>4, <3>0, <3>1
    <3>3. a = Len(ln) - (x + Nulled(r))
      BY <2>5, <3>0, <3>1, <3>2
    <3>4. a2 = Len(ln2) - x
      BY <1>6, <2>4, <2>5, <3>3
    <3>. QED
      BY <3>0, <3>1, <3>2, <3>4 DEF Counted
<1>12. Verifying(t, n2)
  <2>0. Verifying(st, n)
    BY DEF Calls
  <2>1. n2 \in Int
    BY <2>0 DEF Verifying, Releases
  <2>2. ASSUME NEW k \in 1 .. L, t[k].pc = "verifyBack" PROVE k \in 1 .. L - 1 /\ st[k].pc = "verifyBack"
    BY <1>2, <1>3, <2>2 DEF Succeeds
  <2>3. \A j, k \in 1 .. L : t[j].pc = "verifyBack" /\ t[k].pc = "verifyBack" => j = k
    BY <1>2, <2>0, <2>2 DEF Verifying
  <2>4. ASSUME n2 # 0 PROVE \E k \in 1 .. L : t[k].pc = "verifyBack"
    <3>1. n # 0 /\ r.pc # "verifyBack"
      BY <2>4 DEF Releases
    <3>2. PICK k \in 1 .. L : st[k].pc = "verifyBack"
      BY <1>2, <2>0, <3>1 DEF Verifying
    <3>3. k # L
      BY <1>2, <3>1, <3>2
    <3>. QED
      BY <1>2, <1>3, <3>2, <3>3
  <2>5. ASSUME NEW j \in 1 .. L, NEW k \in 1 .. L, n2 = 0, j < k, t[j].pc = "verifyBack"
        PROVE  Shallowed(t[k])
    <3>1. j \in 1 .. L - 1 /\ st[j].pc = "verifyBack"
      BY <2>2, <2>5
    <3>2. n = 0
      <4>1. CASE r.pc = "verifyBack"
        BY <1>2, <2>0, <3>1, <4>1 DEF Verifying
      <4>2. CASE r.pc # "verifyBack"
        BY <2>5, <4>2 DEF Releases
      <4>. QED
        BY <4>1, <4>2
    <3>3. Shallowed(st[k])
      BY <1>2, <2>0, <2>5, <3>1, <3>2 DEF Verifying
    <3>. QED
      BY <1>2, <1>3, <3>3 DEF Succeeds
  <2>. QED
    BY <1>3, <2>1, <2>3, <2>4, <2>5 DEF Verifying
<1>. QED
  BY <1>1, <1>3, <1>8, <1>9, <1>10, <1>11, <1>12 DEF Calls

EndsAt(ln, r) == Len(ln) = r.ply + 1

(* The frame r returns.                                                     *)
LEMMA StackReturns ==
  ASSUME NEW h, NEW st, NEW ln, NEW a, NEW s, NEW n, Calls(h, st, ln, a, s, n), st # << >>, Len(ln) \in Nat,
         NEW r, r = st[Len(st)],
         NEW ln2, EndsAt(ln2, r), Path(ln2, ln, r),
         NEW a2 \in Int, a2 - Len(ln2) = a - Len(ln) + Nulled(r),
         NEW s2, NEW n2, Releases(r, s, s2, n, n2)
  PROVE  Calls(h, Front(st), ln2, a2, s2, n2)
<1>1. PICK t : t = Front(st)
  OBVIOUS
<1>2. PICK L \in Nat \ {0} : L = Len(st)
  BY PopSeq DEF Calls
<1>3. IsSeq(t) /\ Len(t) = L - 1 /\ (\A k \in 1 .. L - 1 : t[k] = st[k]) /\ (t = << >> <=> L = 1)
  BY <1>1, <1>2, PopSeq DEF Calls
<1>4. FrameOk(h, r, ln[r.ply + 1].pos)
  BY <1>2 DEF Calls, FramesOk
<1>5. r.ply \in Nat /\ Len(ln2) \in Nat /\ Len(ln2) = r.ply + 1
  BY <1>4 DEF FrameOk, TypedFrame, EndsAt
<1>6. Len(ln2) \in Nat
  BY <1>5
<1>7. \A k \in 1 .. L - 1 : st[k].ply < Len(ln2) /\ FrameOk(h, st[k], ln2[st[k].ply + 1].pos)
  <2>1. st[Len(st)].ply < Len(ln2) /\ Path(ln2, ln, st[Len(st)])
    BY <1>5
  <2>2. ASSUME NEW k \in 1 .. L - 1 PROVE st[k].ply < Len(ln2) /\ FrameOk(h, st[k], ln2[st[k].ply + 1].pos)
    <3>1. k \in 1 .. Len(st) - 1
      BY <1>2
    <3>. QED
      BY <1>6, <2>1, <3>1, BelowRests
  <2>. QED
    BY <2>2
<1>8. FramesOk(h, t, ln2)
  BY <1>3, <1>7 DEF FramesOk
<1>9. Linked(t, s2)
  <2>1. ASSUME NEW k \in 1 .. L - 2 PROVE Answers(t[k], t[k + 1], s2)
    <3>1. k \in 1 .. L - 1 /\ k + 1 \in 1 .. L - 1
      BY <1>2
    <3>2. Answers(st[k], st[k + 1], s)
      BY <1>2, <3>1 DEF Calls, Linked
    <3>3. st[k].pc = "singularBack" => s2[st[k].ply].excluded # NoMove /\ Excludes(st[k + 1])
      BY <1>2, <3>1, BelowAnswers
    <3>. QED
      BY <1>3, <3>1, <3>2, <3>3 DEF Answers
  <2>2. ASSUME NEW j \in 1 .. L - 1, NEW k \in 1 .. L - 1, j <= k PROVE t[j].ply <= t[k].ply
    <3>1. j \in 1 .. L /\ k \in 1 .. L
      BY <1>2
    <3>2. st[j].ply <= st[k].ply
      BY <1>2, <2>2, <3>1 DEF Calls, Linked
    <3>. QED
      BY <1>3, <3>2
  <2>3. Len(t) - 1 = L - 2
    BY <1>2, <1>3
  <2>. QED
    BY <1>3, <2>1, <2>2, <2>3 DEF Linked
<1>10. Topped(t, ln2)
  <2>0. st[1].ply = 0
    BY <1>2 DEF Calls, Topped
  <2>1. CASE L = 1
    BY <1>2, <1>3, <1>5, <2>0, <2>1 DEF Topped
  <2>2. CASE L # 1
    <3>1. L - 1 \in 1 .. L - 1 /\ 1 \in 1 .. L - 1 /\ (L - 1) + 1 = L /\ t # << >>
      BY <1>2, <1>3, <2>2
    <3>2. Answers(st[L - 1], r, s)
      BY <1>2, <3>1 DEF Calls, Linked
    <3>3. st[L - 1].pc \in MadePcs <=> st[L - 1].pc \notin SamePcs
      BY <3>2 DEF Answers, BackPcs, SamePcs, MadePcs
    <3>4. r.ply = st[L - 1].ply + Made(st[L - 1])
      BY <3>2, <3>3 DEF Answers, Onward, Made
    <3>5. st[L - 1].ply \in Nat
      <4>1. FrameOk(h, st[L - 1], ln[st[L - 1].ply + 1].pos)
        BY <1>2, <3>1 DEF Calls, FramesOk
      <4>. QED
        BY <4>1 DEF FrameOk, TypedFrame
    <3>6. Len(ln2) = st[L - 1].ply + 1 + Made(st[L - 1])
      BY <1>5, <3>4, <3>5 DEF Made
    <3>. QED
      BY <1>3, <2>0, <3>1, <3>6 DEF Topped, Reaches
  <2>. QED
    BY <2>1, <2>2
<1>11. Counted(t, ln2, a2)
  <2>. DEFINE below == { k \in 1 .. L - 1 : st[k].pc = "nullBack" }
  <2>1. NullsOf(t) = below
    BY <1>3 DEF NullsOf
  <2>2. Cardinality(below) \in Nat /\ Cardinality(NullsOf(st)) = Cardinality(below) + Nulled(r)
    BY <1>2, NullsCount
  <2>4. Nulled(r) \in Nat
    BY DEF Nulled
  <2>5. a \in Int /\ a = Len(ln) - Cardinality(NullsOf(st))
    BY DEF Calls, Counted
  <2>. HIDE DEF below
  <2>. QED
    <3>1. PICK x \in Nat : x = Cardinality(below)
      BY <2>2
    <3>2. a = Len(ln) - (x + Nulled(r))
      BY <2>2, <2>5, <3>1
    <3>3. a2 = Len(ln2) - x
      BY <1>6, <2>4, <2>5, <3>2
    <3>. QED
      BY <2>1, <3>1, <3>3 DEF Counted
<1>12. Verifying(t, n2)
  <2>0. Verifying(st, n)
    BY DEF Calls
  <2>1. n2 \in Int
    BY <2>0 DEF Verifying, Releases
  <2>3. \A j, k \in 1 .. L - 1 : t[j].pc = "verifyBack" /\ t[k].pc = "verifyBack" => j = k
    BY <1>2, <1>3, <2>0 DEF Verifying
  <2>4. ASSUME n2 # 0 PROVE \E k \in 1 .. L - 1 : t[k].pc = "verifyBack"
    <3>1. n # 0 /\ r.pc # "verifyBack"
      BY <2>4 DEF Releases
    <3>2. PICK k \in 1 .. L : st[k].pc = "verifyBack"
      BY <1>2, <2>0, <3>1 DEF Verifying
    <3>3. k # L
      BY <1>2, <3>1, <3>2
    <3>. QED
      BY <1>2, <1>3, <3>2, <3>3
  <2>5. ASSUME NEW j \in 1 .. L - 1, NEW k \in 1 .. L - 1, n2 = 0, j < k, t[j].pc = "verifyBack"
        PROVE  Shallowed(t[k])
    <3>1. j \in 1 .. L /\ k \in 1 .. L /\ st[j].pc = "verifyBack" /\ j # L
      BY <1>2, <1>3, <2>5
    <3>2. n = 0
      <4>1. CASE r.pc = "verifyBack"
        BY <1>2, <2>0, <3>1, <4>1 DEF Verifying
      <4>2. CASE r.pc # "verifyBack"
        BY <2>5, <4>2 DEF Releases
      <4>. QED
        BY <4>1, <4>2
    <3>3. Shallowed(st[k])
      BY <1>2, <2>0, <2>5, <3>1, <3>2 DEF Verifying
    <3>. QED
      BY <1>2, <1>3, <3>3
  <2>. QED
    BY <1>3, <2>1, <2>3, <2>4, <2>5 DEF Verifying
<1>. QED
  BY <1>1, <1>3, <1>8, <1>9, <1>10, <1>11, <1>12 DEF Calls

(* The frame r waits as g for the call c.                                   *)
Asks(g, c, s) ==
  /\ c.pc = "enter" /\ c.ply = g.ply + Onward(g)
  /\ g.pc = "nullBack" => ~c.cut
  /\ g.pc = "singularBack" => s[g.ply].excluded # NoMove /\ Excludes(c)

Prepares(r, g, s) ==
  /\ g.ply = r.ply /\ (g.cut => r.cut) /\ g.pc \in BackPcs
  /\ r.pc \notin {"singularBack", "verifyBack"}
  /\ s[r.ply].excluded # NoMove /\ Excludes(r) => Excludes(g)

(* A waiting verification forbids another.                                  *)
Verifies(r, g, c, n, n2) ==
  /\ Shallowed(r) => g.pc # "verifyBack" /\ Shallowed(g) /\ Shallowed(c)
  /\ IF g.pc = "verifyBack" THEN n = 0 /\ ~Shallowed(r) /\ n2 \in Int /\ (n2 = 0 => Shallowed(c))
                            ELSE n2 = n

Excluding(g, s, s2) ==
  \A p \in -2 .. MaxPly + 2 : g.pc # "singularBack" \/ p # g.ply => s2[p].excluded = s[p].excluded

Balances(ln, a, r, ln2, a2, g) ==
  a2 \in Int /\ Len(ln) \in Nat /\ (a2 - Len(ln2)) + Nulled(g) = (a - Len(ln)) + Nulled(r)

LEMMA NullsWait ==
  ASSUME NEW L \in Nat \ {0}, NEW st, Len(st) = L, NEW t, Len(t) = L + 1,
         \A k \in 1 .. L - 1 : t[k] = st[k], t[L + 1].pc = "enter"
  PROVE  /\ Cardinality(NullsOf(st)) \in Nat
         /\ Cardinality(NullsOf(t)) = Cardinality(NullsOf(st)) - Nulled(st[L]) + Nulled(t[L])
<1>. DEFINE below(u) == { k \in 1 .. L - 1 : u[k].pc = "nullBack" }
<1>1. below(t) = below(st)
  OBVIOUS
<1>2. Cardinality(below(st)) \in Nat /\ Cardinality(NullsOf(st)) = Cardinality(below(st)) + Nulled(st[L])
  BY NullsCount
<1>3. Nulled(st[L]) \in Nat /\ Nulled(t[L]) \in Nat
  BY DEF Nulled
<1>4. IsFiniteSet(below(t))
  <2>1. IsFiniteSet(1 .. L - 1) /\ below(t) \subseteq 1 .. L - 1
    BY FS_Interval
  <2>. QED
    BY <2>1, FS_Subset
<1>5. Cardinality(NullsOf(t)) = Cardinality(below(t)) + Nulled(t[L])
  <2>1. CASE t[L].pc = "nullBack"
    <3>1. NullsOf(t) = below(t) \cup {L} /\ L \notin below(t)
      BY <2>1 DEF NullsOf
    <3>2. Cardinality(below(t) \cup {L}) = Cardinality(below(t)) + 1
      BY <1>4, <3>1, FS_AddElement
    <3>3. Nulled(t[L]) = 1
      BY <2>1 DEF Nulled
    <3>. HIDE DEF below
    <3>. QED
      BY <3>1, <3>2, <3>3
  <2>2. CASE t[L].pc # "nullBack"
    <3>1. NullsOf(t) = below(t)
      BY <2>2 DEF NullsOf
    <3>2. Nulled(t[L]) = 0
      BY <2>2 DEF Nulled
    <3>. HIDE DEF below
    <3>. QED
      BY <1>1, <1>2, <3>1, <3>2
  <2>. QED
    BY <2>1, <2>2
<1>. HIDE DEF below
<1>6. PICK b \in Nat : b = Cardinality(below(st))
  BY <1>2
<1>. QED
  BY <1>1, <1>2, <1>3, <1>5, <1>6

LEMMA WaitsEven ==
  ASSUME NEW ln, NEW a, NEW r, NEW ln2, NEW a2, NEW g, Balances(ln, a, r, ln2, a2, g),
         Len(ln2) \in Nat, NEW c \in Nat, a = Len(ln) - c
  PROVE  a2 = Len(ln2) - (c - Nulled(r) + Nulled(g))
<1>1. Nulled(g) \in Int /\ Nulled(r) \in Int
  BY DEF Nulled
<1>. QED
  BY <1>1 DEF Balances

LEMMA StackWaits ==
  ASSUME NEW h, NEW st, NEW ln, NEW a, NEW s, NEW n, Calls(h, st, ln, a, s, n), st # << >>,
         NEW r, r = st[Len(st)], NEW g, Prepares(r, g, s), NEW c, NEW ln2, NEW s2, Asks(g, c, s2),
         EndsAt(ln2, c), Path(ln2, ln, r),
         FrameOk(h, g, ln2[g.ply + 1].pos), FrameOk(h, c, ln2[c.ply + 1].pos),
         NEW a2, Balances(ln, a, r, ln2, a2, g),
         NEW n2, Excluding(g, s, s2), Verifies(r, g, c, n, n2)
  PROVE  Calls(h, Append(Append(Front(st), g), c), ln2, a2, s2, n2)
<1>1. PICK t : t = Append(Append(Front(st), g), c)
  OBVIOUS
<1>2. PICK L \in Nat \ {0} : L = Len(st)
  BY PopSeq DEF Calls
<1>3. /\ IsSeq(t) /\ Len(t) = L + 1 /\ t # << >> /\ t[L] = g /\ t[L + 1] = c
      /\ \A k \in 1 .. L - 1 : t[k] = st[k]
  BY <1>1, <1>2, AwaitSeq DEF Calls
<1>4. FrameOk(h, r, ln[r.ply + 1].pos)
  BY <1>2 DEF Calls, FramesOk
<1>5. /\ g.ply \in Nat /\ r.ply \in Nat /\ g.ply = r.ply /\ c.ply \in Nat /\ g.ply <= c.ply
      /\ Len(ln2) = c.ply + 1
  <2>1. g.ply \in Nat /\ r.ply \in Nat /\ g.ply = r.ply /\ c.ply \in Nat
    BY <1>4 DEF FrameOk, TypedFrame, Prepares
  <2>2. Onward(g) \in 0 .. 1
    BY DEF Onward
  <2>3. c.ply = g.ply + Onward(g) /\ Len(ln2) = c.ply + 1
    BY DEF Asks, EndsAt
  <2>. QED
    BY <2>1, <2>2, <2>3
<1>6. Len(ln2) \in Nat /\ g.ply < Len(ln2) /\ c.ply < Len(ln2)
  BY <1>5
<1>a. Len(ln2) \in Nat
  BY <1>6
<1>7. \A k \in 1 .. L - 1 : st[k].ply < Len(ln2) /\ FrameOk(h, st[k], ln2[st[k].ply + 1].pos)
  BY <1>2, <1>5, <1>6, BelowRests
<1>8. FramesOk(h, t, ln2)
  <2>1. ASSUME NEW k \in 1 .. L + 1 PROVE t[k].ply < Len(ln2) /\ FrameOk(h, t[k], ln2[t[k].ply + 1].pos)
    <3>1. CASE k \in 1 .. L - 1
      BY <1>3, <1>7, <3>1
    <3>2. CASE k = L
      BY <1>3, <1>6, <3>2
    <3>3. CASE k = L + 1
      BY <1>3, <1>6, <3>3
    <3>. QED
      BY <1>2, <3>1, <3>2, <3>3
  <2>. QED
    BY <1>3, <2>1 DEF FramesOk
<1>9. Linked(t, s2)
  <2>1. ASSUME NEW k \in 1 .. L PROVE Answers(t[k], t[k + 1], s2)
    <3>1. CASE k = L
      BY <1>2, <1>3, <3>1 DEF Answers, Asks, Prepares
    <3>2. CASE k # L
      <4>0. k \in 1 .. L - 1
        BY <1>2, <3>2
      <4>1. Answers(st[k], st[k + 1], s)
        BY <1>2, <4>0 DEF Calls, Linked
      <4>2. st[k].ply \in Nat /\ st[k].ply \in -2 .. MaxPly + 2
        <5>0. k \in 1 .. Len(st)
          BY <1>2, <4>0
        <5>1. FrameOk(h, st[k], ln[st[k].ply + 1].pos)
          BY <5>0 DEF Calls, FramesOk
        <5>. QED
          <6>1. st[k].ply \in Nat /\ st[k].ply <= MaxPly
            BY <5>1 DEF FrameOk, TypedFrame
          <6>. QED
            BY <6>1, MaxPlyAssumption
      <4>3. st[k].pc = "singularBack" => s2[st[k].ply].excluded # NoMove
        <5>1. CASE g.pc = "singularBack" /\ st[k].ply = g.ply
          BY <5>1 DEF Asks
        <5>2. CASE ~(g.pc = "singularBack" /\ st[k].ply = g.ply)
          BY <4>1, <4>2, <5>2 DEF Answers, Excluding
        <5>. QED
          BY <5>1, <5>2
      <4>4. CASE k + 1 \in 1 .. L - 1
        BY <1>3, <4>0, <4>1, <4>3, <4>4 DEF Answers
      <4>5. CASE k + 1 = L
        <5>1. t[k] = st[k] /\ t[k + 1] = g /\ st[k + 1] = r
          BY <1>2, <1>3, <4>0, <4>5
        <5>2. st[k].pc = "singularBack" => s[r.ply].excluded # NoMove
          BY <1>5, <4>1, <4>2, <5>1 DEF Answers, Onward, SamePcs
        <5>. QED
          BY <1>5, <4>1, <4>3, <5>1, <5>2 DEF Answers, Prepares
      <4>. QED
        BY <1>2, <4>0, <4>4, <4>5
    <3>. QED
      BY <3>1, <3>2
  <2>2. ASSUME NEW j \in 1 .. L + 1, NEW k \in 1 .. L + 1, j <= k PROVE t[j].ply <= t[k].ply
    <3>1. ASSUME NEW i \in 1 .. L, NEW l \in 1 .. L, i <= l PROVE t[i].ply <= t[l].ply
      <4>1. st[i].ply <= st[l].ply
        BY <1>2, <3>1 DEF Calls, Linked
      <4>2. \A m \in 1 .. L : t[m].ply = st[m].ply
        <5>1. ASSUME NEW m \in 1 .. L PROVE t[m].ply = st[m].ply
          <6>1. CASE m = L
            BY <1>2, <1>3, <1>5, <6>1
          <6>2. CASE m # L
            <7>1. m \in 1 .. L - 1
              BY <6>2
            <7>. QED
              BY <1>3, <7>1
          <6>. QED
            BY <6>1, <6>2
        <5>. QED
          BY <5>1
      <4>. QED
        BY <4>1, <4>2
    <3>2. CASE k \in 1 .. L
      BY <1>2, <2>2, <3>1, <3>2
    <3>3. CASE k = L + 1 /\ j = L + 1
      BY <1>3, <1>5, <3>3
    <3>4. CASE k = L + 1 /\ j \in 1 .. L
      <4>1. t[j].ply <= t[L].ply
        BY <1>2, <3>1, <3>4
      <4>2. t[j].ply \in Nat
        <5>1. FrameOk(h, t[j], ln2[t[j].ply + 1].pos)
          BY <1>2, <1>3, <1>8, <3>4 DEF FramesOk
        <5>. QED
          BY <5>1 DEF FrameOk, TypedFrame
      <4>. QED
        BY <1>3, <1>5, <3>4, <4>1, <4>2
    <3>. QED
      BY <1>2, <3>2, <3>3, <3>4
  <2>3. Len(t) - 1 = L
    BY <1>2, <1>3
  <2>. QED
    BY <1>3, <2>1, <2>2, <2>3 DEF Linked
<1>10. Topped(t, ln2)
  <2>0. st[1].ply = 0
    BY <1>2 DEF Calls, Topped
  <2>1. t[1].ply = 0
    <3>2. CASE L = 1
      BY <1>2, <1>3, <1>5, <2>0, <3>2
    <3>3. CASE L # 1
      BY <1>2, <1>3, <2>0, <3>3
    <3>. QED
      BY <3>2, <3>3
  <2>2. Reaches(ln2, c)
    BY <1>5 DEF Reaches, Made, Asks, MadePcs
  <2>. QED
    BY <1>3, <2>1, <2>2 DEF Topped
<1>11. Counted(t, ln2, a2)
  <2>1. /\ Cardinality(NullsOf(st)) \in Nat
        /\ Cardinality(NullsOf(t)) = Cardinality(NullsOf(st)) - Nulled(r) + Nulled(g)
    BY <1>2, <1>3, NullsWait DEF Asks
  <2>2. a \in Int /\ a = Len(ln) - Cardinality(NullsOf(st))
    BY DEF Calls, Counted
  <2>3. PICK b \in Nat : b = Cardinality(NullsOf(st))
    BY <2>1
  <2>4. a2 = Len(ln2) - (b - Nulled(r) + Nulled(g))
    BY <1>a, <2>2, <2>3, WaitsEven
  <2>5. a2 \in Int
    BY DEF Balances
  <2>. QED
    BY <2>1, <2>3, <2>4, <2>5 DEF Counted
<1>12. Verifying(t, n2)
  <2>0. Verifying(st, n)
    BY DEF Calls
  <2>1. n2 \in Int
    BY <2>0 DEF Verifying, Verifies
  <2>c. t[L + 1].pc # "verifyBack"
    BY <1>3 DEF Asks
  <2>2. ASSUME NEW k \in 1 .. L + 1, t[k].pc = "verifyBack"
        PROVE  k \in 1 .. L /\ (k # L => st[k].pc = "verifyBack") /\ (k = L => g.pc = "verifyBack")
    BY <1>2, <1>3, <2>2, <2>c
  <2>3. \A k \in 1 .. L - 1 : st[k].pc = "verifyBack" /\ n = 0 => Shallowed(r)
    BY <1>2, <2>0 DEF Verifying
  <2>4. ASSUME NEW j \in 1 .. L + 1, NEW k \in 1 .. L + 1, t[j].pc = "verifyBack", t[k].pc = "verifyBack"
        PROVE  j = k
    <3>1. CASE g.pc = "verifyBack"
      <4>1. \A k_1 \in 1 .. L - 1 : st[k_1].pc # "verifyBack"
        BY <2>3, <3>1 DEF Verifies
      <4>. QED
        BY <1>2, <2>2, <2>4, <4>1
    <3>2. CASE g.pc # "verifyBack"
      BY <1>2, <2>0, <2>2, <2>4, <3>2 DEF Verifying
    <3>. QED
      BY <3>1, <3>2
  <2>5. ASSUME n2 # 0 PROVE \E k \in 1 .. L + 1 : t[k].pc = "verifyBack"
    <3>1. CASE g.pc = "verifyBack"
      BY <1>2, <1>3, <3>1
    <3>2. CASE g.pc # "verifyBack"
      <4>1. n # 0
        BY <2>5, <3>2 DEF Verifies
      <4>2. PICK k \in 1 .. L : st[k].pc = "verifyBack"
        BY <1>2, <2>0, <4>1 DEF Verifying
      <4>3. k # L
        BY <1>2, <4>2 DEF Prepares
      <4>. QED
        BY <1>2, <1>3, <4>2, <4>3
    <3>. QED
      BY <3>1, <3>2
  <2>6. ASSUME NEW j \in 1 .. L + 1, NEW k \in 1 .. L + 1, n2 = 0, j < k, t[j].pc = "verifyBack"
        PROVE  Shallowed(t[k])
    <3>1. CASE g.pc = "verifyBack"
      <4>1. j = L
        <5>1. L \in 1 .. L + 1 /\ t[L].pc = "verifyBack"
          BY <1>2, <1>3, <3>1
        <5>. QED
          BY <2>4, <2>6, <5>1
      <4>2. k = L + 1
        BY <1>2, <2>6, <4>1
      <4>. QED
        BY <1>3, <2>6, <3>1, <4>2 DEF Verifies
    <3>2. CASE g.pc # "verifyBack"
      <4>1. j \in 1 .. L - 1 /\ st[j].pc = "verifyBack" /\ n = 0
        BY <1>2, <2>2, <2>6, <3>2 DEF Verifies
      <4>2. Shallowed(r)
        BY <2>3, <4>1
      <4>3. Shallowed(g) /\ Shallowed(c)
        BY <4>2 DEF Verifies
      <4>4. \A l \in 1 .. L - 1 : j < l => Shallowed(st[l])
        BY <1>2, <2>0, <4>1 DEF Verifying
      <4>5. k \in 1 .. L - 1 \/ k = L \/ k = L + 1
        BY <1>2
      <4>. QED
        BY <1>3, <2>6, <4>3, <4>4, <4>5
    <3>. QED
      BY <3>1, <3>2
  <2>. QED
    BY <1>3, <2>1, <2>4, <2>5, <2>6 DEF Verifying
<1>. QED
  BY <1>1, <1>3, <1>8, <1>9, <1>10, <1>11, <1>12 DEF Calls

-----------------------------------------------------------------------------
(* The call on top of the stack, and the three things it can do.            *)
Node == line[f.ply + 1].pos

LEMMA Standing ==
  ASSUME TreeInv, stack # << >>
  PROVE  /\ f = stack[Len(stack)] /\ Len(stack) \in Nat \ {0}
         /\ FrameOk(G, f, Node) /\ f.ply < Len(line)
         /\ f.ply \in Nat /\ f.ply <= MaxPly
         /\ line \in Seq(Plies(G)) /\ Len(line) \in Nat /\ Reaches(line, f)
         /\ WellPosed(G) /\ IsSeq(stack)
<1>1. Calls(G, stack, line, acc, ss, nmpMinPly) /\ TypedLine(G, line) /\ WellPosed(G)
  BY DEF TreeInv
<1>2. f = stack[Len(stack)] /\ Len(stack) \in Nat \ {0} /\ IsSeq(stack)
  BY <1>1, PopSeq DEF Calls, f
<1>3. Len(stack) \in 1 .. Len(stack)
  BY <1>2
<1>4. f.ply < Len(line) /\ FrameOk(G, f, line[f.ply + 1].pos)
  BY <1>1, <1>2, <1>3 DEF Calls, FramesOk
<1>5. f.ply \in Nat /\ f.ply <= MaxPly
  BY <1>4 DEF FrameOk, TypedFrame
<1>6. line \in Seq(Plies(G)) /\ Len(line) \in Nat
  BY <1>1 DEF TypedLine
<1>7. Reaches(line, f)
  BY <1>1, <1>2 DEF Calls, Topped
<1>. QED
  BY <1>1, <1>2, <1>4, <1>5, <1>6, <1>7 DEF Node

(* Where it stands: at its own position, or after the move it made.         *)
LEMMA Standpoint ==
  ASSUME TreeInv, stack # << >>, f.pc \notin MadePcs
  PROVE  /\ Len(line) = f.ply + 1 /\ Here = line[f.ply + 1] /\ Here.pos = Node
         /\ Here \in Plies(G) /\ Node \in DOMAIN G.moves
<1>1. /\ f.ply \in Nat /\ line \in Seq(Plies(G)) /\ Reaches(line, f)
  BY Standing
<1>2. Len(line) = f.ply + 1
  BY <1>1 DEF Reaches, Made
<1>3. Here = line[f.ply + 1]
  BY <1>1, <1>2 DEF Here, Last
<1>4. f.ply + 1 \in DOMAIN line
  BY <1>1, <1>2
<1>5. Here \in Plies(G)
  BY <1>1, <1>3, <1>4
<1>. QED
  BY <1>2, <1>3, <1>5 DEF Node, Plies

(* The position below a move that was made.                                 *)
LEMMA LineShrinks ==
  ASSUME TreeInv, stack # << >>, f.pc \in MadePcs
  PROVE  LET ln == Front(line)
         IN  /\ TypedLine(G, ln) /\ Len(ln) = f.ply + 1 /\ Path(ln, line, f)
             /\ ln[f.ply + 1] = line[f.ply + 1] /\ ln[f.ply + 1] \in Plies(G)
             /\ line[Len(line) - 1] = line[f.ply + 1] /\ Node \in DOMAIN G.moves
<1>1. /\ f.ply \in Nat /\ line \in Seq(Plies(G)) /\ Reaches(line, f) /\ Len(line) \in Nat
  BY Standing
<1>2. Len(line) = f.ply + 2
  BY <1>1 DEF Reaches, Made
<1>3. line # << >> /\ line[1].pos = G.root
  BY DEF TreeInv, TypedLine
<1>4. PICK ln : ln = Front(line)
  OBVIOUS
<1>5. ln \in Seq(Plies(G)) /\ Len(ln) = Len(line) - 1 /\ \A k \in 1 .. Len(line) - 1 : ln[k] = line[k]
  BY <1>1, <1>3, <1>4, FrontOf
<1>6. Len(ln) = f.ply + 1 /\ \A k \in 1 .. f.ply + 1 : ln[k] = line[k]
  BY <1>1, <1>2, <1>5
<1>7. ln[1] = line[1] /\ ln # << >> /\ f.ply + 1 \in DOMAIN ln
  BY <1>1, <1>5, <1>6
<1>8. TypedLine(G, ln)
  BY <1>3, <1>5, <1>7 DEF TypedLine
<1>9. ln[f.ply + 1] = line[f.ply + 1] /\ ln[f.ply + 1] \in Plies(G)
  BY <1>1, <1>5, <1>6, <1>7
<1>10. line[Len(line) - 1] = line[f.ply + 1]
  BY <1>1, <1>2
<1>11. Node \in DOMAIN G.moves
  BY <1>9 DEF Node, Plies
<1>. QED
  BY <1>4, <1>6, <1>8, <1>9, <1>10, <1>11 DEF Path

(* The position a move leads to.                                            *)
LEMMA LineGrows ==
  ASSUME TreeInv, stack # << >>, f.pc \notin MadePcs, NEW x \in Plies(G)
  PROVE  LET ln == Append(line, x)
         IN  /\ TypedLine(G, ln) /\ Len(ln) = f.ply + 2 /\ Path(ln, line, f)
             /\ ln[f.ply + 1] = line[f.ply + 1] /\ ln[f.ply + 2] = x
<1>1. f.ply \in Nat /\ line \in Seq(Plies(G)) /\ Len(line) \in Nat /\ Len(line) = f.ply + 1
  BY Standing, Standpoint
<1>2. line # << >> /\ line[1].pos = G.root
  BY DEF TreeInv, TypedLine
<1>3. PICK ln : ln = Append(line, x)
  OBVIOUS
<1>4. /\ ln \in Seq(Plies(G)) /\ Len(ln) = Len(line) + 1 /\ ln[Len(line) + 1] = x
      /\ \A k \in 1 .. Len(line) : ln[k] = line[k]
  BY <1>1, <1>3
<1>5. Len(ln) = f.ply + 2 /\ ln[f.ply + 2] = x /\ \A k \in 1 .. f.ply + 1 : ln[k] = line[k]
  BY <1>1, <1>4
<1>6. ln[1] = line[1] /\ ln # << >> /\ ln[f.ply + 1] = line[f.ply + 1]
  <2>1. 1 \in 1 .. f.ply + 1 /\ f.ply + 1 \in 1 .. f.ply + 1
    BY <1>1
  <2>2. ln # << >>
    BY <1>1, <1>5
  <2>. QED
    BY <1>5, <2>1, <2>2
<1>7. TypedLine(G, ln)
  BY <1>2, <1>4, <1>6 DEF TypedLine
<1>8. Path(ln, line, f)
  BY <1>5 DEF Path
<1>9. Len(ln) = f.ply + 2 /\ ln[f.ply + 1] = line[f.ply + 1] /\ ln[f.ply + 2] = x
  BY <1>5, <1>6
<1>. QED
  BY <1>3, <1>7, <1>8, <1>9

(* The rest of a step: the game stays, and what is kept is well typed.      *)
Orderly == /\ UNCHANGED <<G, depths>> /\ ret'.v \in Int
           /\ TypedStack(ss') /\ TypedTable(G, tt')

LEMMA Concludes ==
  ASSUME TreeInv, Orderly, TypedLine(G, line'),
         Calls(G, stack', line', acc', ss', nmpMinPly')
  PROVE  TreeInv'
BY DEF TreeInv, Orderly

(* The top call takes its move back, if it made one.                        *)
Retreats ==
  IF f.pc \in MadePcs
  THEN line' = Front(line) /\ acc' = (IF f.pc = "nullBack" THEN acc ELSE acc - 1)
  ELSE UNCHANGED board

LEMMA Retreating ==
  ASSUME TreeInv, stack # << >>, Retreats
  PROVE  /\ TypedLine(G, line') /\ Len(line') = f.ply + 1 /\ Path(line', line, f)
         /\ line'[f.ply + 1] = line[f.ply + 1]
         /\ acc' \in Int /\ acc' - Len(line') = acc - Len(line) + Nulled(f)
<1>1. acc \in Int /\ Len(line) \in Nat /\ Reaches(line, f) /\ f.ply \in Nat
  BY Standing DEF TreeInv, Calls, Counted
<1>2. CASE f.pc \in MadePcs
  <2>1. line' = Front(line) /\ acc' = (IF f.pc = "nullBack" THEN acc ELSE acc - 1)
    BY <1>2 DEF Retreats
  <2>2. PICK ln : ln = Front(line)
    OBVIOUS
  <2>3. /\ TypedLine(G, ln) /\ Len(ln) = f.ply + 1 /\ Path(ln, line, f)
        /\ ln[f.ply + 1] = line[f.ply + 1]
    BY <1>2, <2>2, LineShrinks
  <2>4. Len(line) = f.ply + 2 /\ Len(ln) = f.ply + 1
    BY <1>1, <1>2, <2>3 DEF Reaches, Made
  <2>5. acc' \in Int /\ acc' - Len(ln) = acc - Len(line) + Nulled(f)
    <3>1. CASE f.pc = "nullBack"
      BY <1>1, <2>1, <2>4, <3>1 DEF Nulled
    <3>2. CASE f.pc # "nullBack"
      <4>1. acc' = acc - 1 /\ Nulled(f) = 0
        BY <2>1, <3>2 DEF Nulled
      <4>. QED
        BY <1>1, <2>4, <4>1
    <3>. QED
      BY <3>1, <3>2
  <2>. QED
    BY <2>1, <2>2, <2>3, <2>5
<1>3. CASE f.pc \notin MadePcs
  <2>1. line' = line /\ acc' = acc
    BY <1>3 DEF Retreats, board
  <2>2. Len(line) = f.ply + 1
    BY <1>3, Standpoint
  <2>3. TypedLine(G, line)
    BY DEF TreeInv
  <2>4. Nulled(f) = 0
    BY <1>3 DEF Nulled, MadePcs
  <2>5. Path(line, line, f)
    BY DEF Path
  <2>. QED
    BY <1>1, <2>1, <2>2, <2>3, <2>4, <2>5
<1>. QED
  BY <1>2, <1>3

(* It returns.                                                              *)
LEMMA Returning ==
  ASSUME TreeInv, stack # << >>, stack' = Front(stack), Retreats, Orderly,
         Releases(f, ss, ss', nmpMinPly, nmpMinPly')
  PROVE  TreeInv'
<1>1. Calls(G, stack, line, acc, ss, nmpMinPly)
  BY DEF TreeInv
<1>2. f = stack[Len(stack)] /\ Len(line) \in Nat
  BY Standing
<1>3. /\ TypedLine(G, line') /\ EndsAt(line', f) /\ Path(line', line, f)
      /\ acc' \in Int /\ acc' - Len(line') = acc - Len(line) + Nulled(f)
  BY Retreating DEF EndsAt
<1>4. Calls(G, Front(stack), line', acc', ss', nmpMinPly')
  BY <1>1, <1>2, <1>3, StackReturns
<1>. QED
  BY <1>3, <1>4, Concludes

(* It goes on as g: at its own position, or where it stood.                 *)
Stays(g) == /\ UNCHANGED board /\ f.pc # "nullBack"
            /\ g.pc \in MadePcs /\ f.pc \in MadePcs

LEMMA GoingOn ==
  ASSUME TreeInv, stack # << >>, NEW g, Become(g), Orderly,
         (Retreats /\ g.pc \notin MadePcs) \/ Stays(g),
         Succeeds(f, g, ss), FrameOk(G, g, Node), Releases(f, ss, ss', nmpMinPly, nmpMinPly')
  PROVE  TreeInv'
<1>1. Calls(G, stack, line, acc, ss, nmpMinPly) /\ TypedLine(G, line)
  BY DEF TreeInv
<1>2. f = stack[Len(stack)] /\ Len(line) \in Nat /\ Reaches(line, f) /\ f.ply \in Nat
  BY Standing
<1>3. g.ply = f.ply
  BY DEF Succeeds
<1>4. /\ TypedLine(G, line') /\ Reaches(line', g) /\ Path(line', line, f)
      /\ line'[g.ply + 1] = line[f.ply + 1]
      /\ acc' \in Int /\ acc' - Len(line') = acc - Len(line) + Nulled(f)
  <2>1. CASE Retreats /\ g.pc \notin MadePcs
    BY <1>3, <2>1, Retreating DEF Reaches, Made
  <2>2. CASE Stays(g)
    <3>1. line' = line /\ acc' = acc /\ Nulled(f) = 0
      BY <2>2 DEF Stays, board, Nulled
    <3>2. Reaches(line, g)
      BY <1>2, <1>3, <2>2 DEF Reaches, Made, Stays
    <3>3. Path(line, line, f)
      BY DEF Path
    <3>4. acc \in Int
      BY <1>1 DEF Calls, Counted
    <3>. QED
      BY <1>1, <1>2, <1>3, <3>1, <3>2, <3>3, <3>4
  <2>. QED
    BY <2>1, <2>2
<1>5. FrameOk(G, g, line'[g.ply + 1].pos)
  BY <1>4 DEF Node
<1>6. Calls(G, Append(Front(stack), g), line', acc', ss', nmpMinPly')
  BY <1>1, <1>2, <1>4, <1>5, StackGoesOn
<1>. QED
  BY <1>4, <1>6, Concludes DEF Become

(* It waits as g for the call c: after a move, at its own position, or for  *)
(* another search of the move it made.                                      *)
Advances(g) ==
  /\ f.pc \notin MadePcs /\ g.pc \in MadePcs
  /\ \E x \in Plies(G) : line' = Append(line, x)
  /\ acc' = IF g.pc = "nullBack" THEN acc ELSE acc + 1

LEMMA Advancing ==
  ASSUME TreeInv, stack # << >>, NEW g, Advances(g), g.ply = f.ply, NEW c, Asks(g, c, ss'), g.pc \notin SamePcs
  PROVE  /\ TypedLine(G, line') /\ EndsAt(line', c) /\ Path(line', line, f)
         /\ line'[f.ply + 1] = line[f.ply + 1] /\ Balances(line, acc, f, line', acc', g)
<1>1. f.ply \in Nat /\ acc \in Int /\ Len(line) \in Nat
  BY Standing DEF TreeInv, Calls, Counted
<1>2. PICK x \in Plies(G) : line' = Append(line, x)
  BY DEF Advances
<1>3. f.pc \notin MadePcs /\ Len(line) = f.ply + 1
  BY Standpoint DEF Advances
<1>4. PICK ln : ln = Append(line, x)
  OBVIOUS
<1>5. /\ TypedLine(G, ln) /\ Len(ln) = f.ply + 2 /\ Path(ln, line, f)
      /\ ln[f.ply + 1] = line[f.ply + 1]
  BY <1>3, <1>4, LineGrows
<1>6. c.ply = f.ply + 1
  BY DEF Asks, Onward
<1>7. EndsAt(ln, c)
  BY <1>1, <1>5, <1>6 DEF EndsAt
<1>8. Balances(line, acc, f, ln, acc', g)
  <2>1. Nulled(f) = 0
    BY <1>3 DEF Nulled, MadePcs
  <2>2. CASE g.pc = "nullBack"
    BY <1>1, <1>3, <1>5, <2>1, <2>2 DEF Balances, Advances, Nulled
  <2>3. CASE g.pc # "nullBack"
    <3>1. acc' = acc + 1 /\ Nulled(g) = 0
      BY <2>3 DEF Advances, Nulled
    <3>2. Len(line) = f.ply + 1 /\ Len(ln) = f.ply + 2
      BY <1>3, <1>5
    <3>3. acc' - Len(ln) = acc - Len(line)
      BY <1>1, <3>1, <3>2
    <3>. QED
      BY <1>1, <2>1, <3>1, <3>2, <3>3 DEF Balances
  <2>. QED
    BY <2>2, <2>3
<1>. QED
  BY <1>2, <1>4, <1>5, <1>7, <1>8

LEMMA AskingHere ==
  ASSUME TreeInv, stack # << >>, NEW g, Retreats, g.pc \in SamePcs, g.ply = f.ply, NEW c, Asks(g, c, ss')
  PROVE  /\ TypedLine(G, line') /\ EndsAt(line', c) /\ Path(line', line, f)
         /\ line'[f.ply + 1] = line[f.ply + 1] /\ Balances(line, acc, f, line', acc', g)
<1>1. f.ply \in Nat /\ acc \in Int /\ Len(line) \in Nat
  BY Standing DEF TreeInv, Calls, Counted
<1>2. /\ TypedLine(G, line') /\ Len(line') = f.ply + 1 /\ Path(line', line, f)
      /\ line'[f.ply + 1] = line[f.ply + 1]
      /\ acc' \in Int /\ acc' - Len(line') = acc - Len(line) + Nulled(f)
  BY Retreating
<1>3. c.ply = f.ply
  BY <1>1 DEF Asks, Onward
<1>4. Nulled(g) = 0
  BY DEF Nulled, SamePcs
<1>5. Nulled(f) \in Int
  BY DEF Nulled
<1>6. Balances(line, acc, f, line', acc', g)
  BY <1>1, <1>2, <1>4, <1>5 DEF Balances
<1>. QED
  BY <1>2, <1>3, <1>6 DEF EndsAt

LEMMA AskingOn ==
  ASSUME TreeInv, stack # << >>, NEW g, Stays(g), g.pc \notin SamePcs \cup {"nullBack"}, g.ply = f.ply,
         NEW c, Asks(g, c, ss')
  PROVE  /\ TypedLine(G, line') /\ EndsAt(line', c) /\ Path(line', line, f)
         /\ line'[f.ply + 1] = line[f.ply + 1] /\ Balances(line, acc, f, line', acc', g)
<1>1. f.ply \in Nat /\ acc \in Int /\ Len(line) \in Nat /\ Reaches(line, f) /\ TypedLine(G, line)
  BY Standing DEF TreeInv, Calls, Counted
<1>2. line' = line /\ acc' = acc /\ Nulled(f) = 0 /\ Nulled(g) = 0
  BY DEF Stays, board, Nulled
<1>3. c.ply = f.ply + 1
  BY DEF Asks, Onward
<1>4. Len(line) = f.ply + 2
  BY <1>1 DEF Reaches, Made, Stays
<1>5. EndsAt(line, c) /\ Path(line, line, f)
  BY <1>1, <1>3, <1>4 DEF EndsAt, Path
<1>6. Balances(line, acc, f, line, acc, g)
  BY <1>1, <1>2 DEF Balances
<1>. QED
  BY <1>1, <1>2, <1>5, <1>6

LEMMA WaitingOn ==
  ASSUME TreeInv, stack # << >>, NEW g, NEW c, stack' = Append(Append(Front(stack), g), c), Orderly,
         \/ Advances(g) /\ g.pc \notin SamePcs
         \/ Retreats /\ g.pc \in SamePcs
         \/ Stays(g) /\ g.pc \notin SamePcs \cup {"nullBack"},
         Prepares(f, g, ss), Asks(g, c, ss'), Excluding(g, ss, ss'), Verifies(f, g, c, nmpMinPly, nmpMinPly'),
         FrameOk(G, g, Node), \A p : FrameOk(G, c, p)
  PROVE  TreeInv'
<1>1. Calls(G, stack, line, acc, ss, nmpMinPly)
  BY DEF TreeInv
<1>2. f = stack[Len(stack)]
  BY Standing
<1>3. g.ply = f.ply
  BY DEF Prepares
<1>4. /\ TypedLine(G, line') /\ EndsAt(line', c) /\ Path(line', line, f)
      /\ line'[f.ply + 1] = line[f.ply + 1] /\ Balances(line, acc, f, line', acc', g)
  <2>1. CASE Advances(g) /\ g.pc \notin SamePcs
    BY <1>3, <2>1, Advancing
  <2>2. CASE Retreats /\ g.pc \in SamePcs
    BY <1>3, <2>2, AskingHere
  <2>3. CASE Stays(g) /\ g.pc \notin SamePcs \cup {"nullBack"}
    BY <1>3, <2>3, AskingOn
  <2>. QED
    BY <2>1, <2>2, <2>3
<1>5. FrameOk(G, g, line'[g.ply + 1].pos)
  BY <1>3, <1>4 DEF Node
<1>6. FrameOk(G, c, line'[c.ply + 1].pos)
  OBVIOUS
<1>7. Calls(G, Append(Append(Front(stack), g), c), line', acc', ss', nmpMinPly')
  BY <1>1, <1>2, <1>4, <1>5, <1>6, StackWaits
<1>. QED
  BY <1>4, <1>7, Concludes

(* A call just made, whatever position it is to work on.                    *)
LEMMA FreshCall ==
  ASSUME NEW h, NEW kind \in {"search", "qsearch"}, NEW type \in {"PV", "NonPV"},
         NEW ply \in Nat, ply <= MaxPly, NEW alpha \in Int, NEW beta \in Int, alpha < beta,
         NEW depth \in Int, NEW cut, type = "NonPV" => alpha = beta - 1, type # "NonPV" => ~cut, cut => ply > 0,
         NEW p
  PROVE  FrameOk(h, Frame(kind, type, ply, alpha, beta, depth, cut), p)
<1>. DEFINE c == Frame(kind, type, ply, alpha, beta, depth, cut)
<1>1. TypedFrame(c)
  BY DEF TypedFrame, Frame, FrameFields, ValueNone, ValueInfinite
<1>2. FrameMoves(h, c, p)
  <2>1. TypedEntry(h, Empty, p)
    BY DEF TypedEntry, Empty, EntryFields, MaybeMove, ValueNone
  <2>. QED
    BY <2>1 DEF FrameMoves, Frame, PlayPcs, LoopPcs, MaybeMove
<1>3. FrameWindow(c)
  BY DEF FrameWindow, Frame
<1>4. FrameProgress(c)
  BY DEF FrameProgress, Frame, QPcs, SearchPcs, LoopPcs
<1>. HIDE DEF c
<1>. QED
  BY <1>1, <1>2, <1>3, <1>4 DEF FrameOk, c
-----------------------------------------------------------------------------
(* The game, the table and the picker.                                      *)
LEMMA Chess ==
  ASSUME NEW g, WellPosed(g), NEW p \in DOMAIN g.moves
  PROVE  /\ MovesOf(g, p) \subseteq DOMAIN g.moves /\ NoMove \notin MovesOf(g, p)
         /\ NoMove \in MaybeMove(g, p)
         /\ Len(g.moves[p]) \in Nat /\ Len(g.moves[p]) + 1 < MaxMoves
         /\ DOMAIN g.moves[p] = 1 .. Len(g.moves[p])
         /\ \A k \in DOMAIN g.moves[p] :
              /\ g.moves[p][k].to \in MovesOf(g, p)
              /\ g.moves[p][k].cap \in Nat /\ g.moves[p][k].see \in Int /\ g.moves[p][k].hist \in Int
         /\ g.eval[p] \in Int /\ g.wdl[p] \in Int /\ g.correction \in Int
<1>1. /\ g.moves[p] \in Seq([to : DOMAIN g.moves, cap : Nat, see : Int, hist : Int])
      /\ Len(g.moves[p]) + 1 < MaxMoves
  BY DEF WellPosed
<1>2. NoMove \notin DOMAIN g.moves /\ g.eval[p] \in Int /\ g.wdl[p] \in Int /\ g.correction \in Int
  BY DEF WellPosed
<1>3. Len(g.moves[p]) \in Nat /\ DOMAIN g.moves[p] = 1 .. Len(g.moves[p])
  BY <1>1
<1>4. ASSUME NEW k \in DOMAIN g.moves[p]
      PROVE  /\ g.moves[p][k].to \in DOMAIN g.moves
             /\ g.moves[p][k].cap \in Nat /\ g.moves[p][k].see \in Int /\ g.moves[p][k].hist \in Int
  <2>0. PICK M : M = [to : DOMAIN g.moves, cap : Nat, see : Int, hist : Int]
    OBVIOUS
  <2>a. PICK s \in Seq(M) : s = g.moves[p]
    BY <1>1, <2>0
  <2>b. \A j \in 1 .. Len(s) : s[j] \in M
    OBVIOUS
  <2>1. g.moves[p][k] \in [to : DOMAIN g.moves, cap : Nat, see : Int, hist : Int]
    BY <1>3, <2>0, <2>a, <2>b
  <2>2. PICK i \in [to : DOMAIN g.moves, cap : Nat, see : Int, hist : Int] : i = g.moves[p][k]
    BY <2>1
  <2>3. i.to \in DOMAIN g.moves /\ i.cap \in Nat /\ i.see \in Int /\ i.hist \in Int
    OBVIOUS
  <2>. QED
    BY <2>2, <2>3
<1>5. MovesOf(g, p) \subseteq DOMAIN g.moves
  BY <1>4 DEF MovesOf
<1>6. \A k \in DOMAIN g.moves[p] : g.moves[p][k].to \in MovesOf(g, p)
  BY DEF MovesOf
<1>. QED
  BY <1>1, <1>2, <1>3, <1>4, <1>5, <1>6 DEF MaybeMove

LEMMA InfoOf ==
  ASSUME WellPosed(G), NEW p \in DOMAIN G.moves, NEW m \in MovesOf(G, p)
  PROVE  Info(p, m).cap \in Nat /\ Info(p, m).see \in Int /\ Info(p, m).hist \in Int /\ Info(p, m).to = m
<1>1. ToSet(G.moves[p]) = { G.moves[p][k] : k \in DOMAIN G.moves[p] }
  BY DEF ToSet
<1>2. \E i \in ToSet(G.moves[p]) : i.to = m
  BY <1>1 DEF MovesOf
<1>3. Info(p, m) \in ToSet(G.moves[p]) /\ Info(p, m).to = m
  BY <1>2 DEF Info
<1>4. PICK k \in DOMAIN G.moves[p] : Info(p, m) = G.moves[p][k]
  BY <1>1, <1>3
<1>. QED
  BY <1>3, <1>4, Chess

(* The values the table converts stay integers.                             *)
LEMMA Conversions ==
  ASSUME NEW v \in Int, NEW ply \in Nat, NEW c
  PROVE  ValueToTT(v, ply) \in Int /\ ValueFromTT(v, ply, c) \in Int
BY MaxPlyAssumption DEF ValueToTT, ValueFromTT, ValueNone, TBWinInMaxPly, ValueTB, MateInMaxPly, ValueMate

LEMMA Saving ==
  ASSUME NEW h, NEW e, NEW p, TypedEntry(h, e, p), NEW v \in Int, NEW pv, NEW b, NEW d,
         NEW m \in MaybeMove(h, p), NEW ev \in Int
  PROVE  TypedEntry(h, Save(e, v, pv, b, d, m, ev), p)
<1>. DEFINE kept == [e EXCEPT !.move = IF m # NoMove \/ ~e.hit THEN m ELSE @]
            new == [hit |-> TRUE, move |-> kept.move, value |-> v, depth |-> d, bound |-> b, pv |-> pv, eval |-> ev]
            less == [kept EXCEPT !.depth = @ - 1]
<1>1. TypedEntry(h, kept, p)
  BY DEF TypedEntry, EntryFields
<1>2. TypedEntry(h, new, p) /\ TypedEntry(h, less, p)
  <2>. HIDE DEF kept
  <2>. QED
    BY <1>1 DEF TypedEntry, EntryFields
<1>3. Save(e, v, pv, b, d, m, ev) \in {kept, new, less}
  BY Zenon DEF Save
<1>. HIDE DEF kept, new, less
<1>. QED
  BY <1>1, <1>2, <1>3

LEMMA Writing ==
  ASSUME NEW h, NEW t, TypedTable(h, t), NEW p \in DOMAIN h.moves, NEW e, TypedEntry(h, e, p)
  PROVE  TypedTable(h, [t EXCEPT ![p] = e])
BY DEF TypedTable

LEMMA Weakening ==
  ASSUME NEW h, NEW e, NEW p, TypedEntry(h, e, p), NEW n
  PROVE  TypedEntry(h, Weakened(e, n), p)
BY DEF TypedEntry, Weakened, Empty, EntryFields, MaybeMove, ValueNone

LEMMA Reading ==
  ASSUME NEW p \in DOMAIN G.moves, TypedTable(G, tt), NEW ply \in Nat
  PROVE  TypedEntry(G, TableRead(p, ply), p)
<1>1. TypedEntry(G, tt[p], p)
  BY DEF TypedTable
<1>2. PICK e : e = tt[p]
  OBVIOUS
<1>3. PICK v : v = ValueFromTT(e.value, ply, Here.rule50)
  OBVIOUS
<1>4. v \in Int
  BY <1>1, <1>2, <1>3, Conversions DEF TypedEntry
<1>5. TableRead(p, ply) = [e EXCEPT !.value = IF e.hit THEN v ELSE ValueNone]
  BY <1>2, <1>3 DEF TableRead
<1>. QED
  BY <1>1, <1>2, <1>4, <1>5 DEF TypedEntry, EntryFields, ValueNone

(* The ranks the picker starts with, and the one it deals next.             *)
LEMMA Ranking ==
  ASSUME NEW first, NEW taken \in SUBSET DOMAIN G.moves[Here.pos], Len(G.moves[Here.pos]) \in Nat,
         DOMAIN G.moves[Here.pos] = 1 .. Len(G.moves[Here.pos])
  PROVE  /\ Ranks(first, taken) \subseteq 0 .. Len(G.moves[Here.pos])
         /\ 0 \in Ranks(first, taken) => first # NoMove
         /\ \A k \in Ranks(first, taken) : k # 0 => G.moves[Here.pos][k].to # first
BY DEF Ranks

LEMMA Dealing ==
  ASSUME TreeInv, stack # << >>, f.pc \notin MadePcs, NEW k \in Lowest
  PROVE  /\ k \in f.queue /\ k \in 0 .. Len(G.moves[Node]) /\ \A j \in f.queue \ {k} : k < j
         /\ Ranked(k) \in MovesOf(G, Node)
<1>1. FrameOk(G, f, Node) /\ WellPosed(G) /\ Here.pos = Node /\ Node \in DOMAIN G.moves
  BY Standing, Standpoint
<1>2. /\ f.queue \subseteq 0 .. Len(G.moves[Node])
      /\ 0 \in f.queue => f.tt.move # NoMove
      /\ f.tt.move \in MaybeMove(G, Node)
  BY <1>1 DEF FrameOk, FrameMoves, TypedEntry
<1>3. k \in f.queue /\ \A j \in f.queue : k <= j
  BY DEF Lowest
<1>4. k \in 0 .. Len(G.moves[Node]) /\ \A j \in f.queue \ {k} : k < j
  BY <1>2, <1>3
<1>5. Ranked(k) \in MovesOf(G, Node)
  <2>1. CASE k = 0
    BY <1>2, <1>3, <2>1 DEF Ranked, MaybeMove
  <2>2. CASE k # 0
    <3>1. k \in DOMAIN G.moves[Node]
      BY <1>1, <1>4, <2>2, Chess
    <3>. QED
      BY <1>1, <2>2, <3>1, Chess DEF Ranked
  <2>. QED
    BY <2>1, <2>2
<1>. QED
  BY <1>3, <1>4, <1>5
-----------------------------------------------------------------------------
(* Every step of search() keeps the invariant.                              *)
LEMMA Quiet ==
  ASSUME TreeInv, UNCHANGED still
  PROVE  /\ UNCHANGED <<G, depths>> /\ ret.v \in Int /\ TypedStack(ss) /\ TypedTable(G, tt)
         /\ UNCHANGED <<ss, ret, tt>> => Orderly
BY DEF TreeInv, still, Orderly

LEMMA DiveKeeps == TreeInv /\ Dive => TreeInv'
<1>. SUFFICES ASSUME TreeInv, Dive PROVE TreeInv'
  OBVIOUS
<1>1. stack # << >> /\ f.kind = "search" /\ f.pc = "enter" /\ f.depth <= 0
  BY DEF Dive, At
<1>2. PICK g : g = [f EXCEPT !.kind = "qsearch", !.type = IF PvNode THEN "PV" ELSE @]
  OBVIOUS
<1>3. Become(g) /\ UNCHANGED <<still, board, ss, ret, tt, nmpMinPly>>
  BY <1>2 DEF Dive
<1>4. FrameOk(G, f, Node)
  BY <1>1, Standing
<1>5. FrameOk(G, g, Node)
  BY <1>1, <1>2, <1>4 DEF FrameOk, TypedFrame, FrameFields, FrameMoves, FrameWindow, FrameProgress, QPcs, PvNode
<1>6. Succeeds(f, g, ss)
  BY <1>1, <1>2, <1>4 DEF Succeeds, Excludes, Shallowed, FrameOk, TypedFrame, FrameFields
<1>7. Releases(f, ss, ss', nmpMinPly, nmpMinPly') /\ Retreats /\ g.pc \notin MadePcs
  BY <1>1, <1>2, <1>3, <1>4 DEF Releases, Retreats, MadePcs, FrameOk, TypedFrame, FrameFields
<1>8. Orderly
  BY <1>3, Quiet
<1>. QED
  BY <1>1, <1>3, <1>5, <1>6, <1>7, <1>8, GoingOn

(* The Stack entries keep their types and their excluded moves.             *)
Leaves(s, s2) ==
  TypedStack(s2) /\ \A p \in -2 .. MaxPly + 2 : s2[p].excluded = s[p].excluded

LEMMA Releasing ==
  ASSUME NEW s, NEW s2, Leaves(s, s2), NEW r, r.pc # "verifyBack", NEW n
  PROVE  Releases(r, s, s2, n, n)
BY DEF Releases, Leaves

LEMMA Places ==
  ASSUME TreeInv, stack # << >>
  PROVE  /\ {f.ply - 2, f.ply - 1, f.ply, f.ply + 1, f.ply + 2} \subseteq -2 .. MaxPly + 2
         /\ \A p \in {f.ply - 2, f.ply - 1, f.ply, f.ply + 1, f.ply + 2} : ss[p].static \in Int /\ ss[p].reduction \in Int
         /\ TypedStack(ss) /\ Leaves(ss, ss)
<1>1. f.ply \in Nat /\ f.ply <= MaxPly
  BY Standing
<1>2. TypedStack(ss)
  BY DEF TreeInv
<1>3. {f.ply - 2, f.ply - 1, f.ply, f.ply + 1, f.ply + 2} \subseteq -2 .. MaxPly + 2
  BY <1>1, MaxPlyAssumption
<1>. QED
  BY <1>2, <1>3 DEF TypedStack, Leaves

LEMMA Statics ==
  ASSUME TreeInv, stack # << >>
  PROVE  S(0).static \in Int /\ S(-2).static \in Int
<1>1. f.ply \in Nat
  BY Standing
<1>2. f.ply + 0 = f.ply /\ f.ply + (-2) = f.ply - 2
  BY <1>1
<1>. QED
  BY <1>2, Places DEF S

Reduces(s, p, t) ==
  /\ DOMAIN t = DOMAIN s /\ \A q \in DOMAIN s : q # p => t[q] = s[q]
  /\ p \in DOMAIN s => /\ DOMAIN t[p] = DOMAIN s[p] /\ t[p].reduction \in Int
                        /\ t[p].static = s[p].static /\ t[p].excluded = s[p].excluded

LEMMA Reducing ==
  ASSUME NEW s, TypedStack(s), NEW p, NEW t, Reduces(s, p, t)
  PROVE  Leaves(s, t)
<1>4. ASSUME NEW q \in -2 .. MaxPly + 2
      PROVE  DOMAIN t[q] = StackFields /\ t[q].static \in Int /\ t[q].reduction \in Int /\ t[q].excluded = s[q].excluded
  <2>1. DOMAIN s[q] = StackFields /\ s[q].static \in Int /\ s[q].reduction \in Int /\ q \in DOMAIN s
    BY DEF TypedStack
  <2>2. CASE q = p
    BY <2>1, <2>2 DEF Reduces
  <2>3. CASE q # p
    BY <2>1, <2>3 DEF Reduces
  <2>. QED
    BY <2>2, <2>3
<1>5. DOMAIN t = -2 .. MaxPly + 2
  BY DEF TypedStack, Reduces
<1>. QED
  BY <1>4, <1>5 DEF Leaves, TypedStack

LEMMA EnterStack ==
  ASSUME TreeInv, stack # << >>, NEW a, NEW b
  PROVE  LET ready == [ss EXCEPT ![f.ply].inCheck = a, ![f.ply].follow = b]
         IN  /\ Leaves(ss, ready)
             /\ Leaves(ss, [ready EXCEPT ![f.ply - 1].reduction = 0, ![f.ply + 2].cutoffs = 0, ![f.ply + 1].nmpHigh = 0])
<1>1. /\ {f.ply - 2, f.ply - 1, f.ply, f.ply + 1, f.ply + 2} \subseteq -2 .. MaxPly + 2 /\ TypedStack(ss)
      /\ f.ply \in Nat
  BY Places, Standing
<1>2. PICK t : t = [ss EXCEPT ![f.ply].inCheck = a, ![f.ply].follow = b]
  OBVIOUS
<1>3. Leaves(ss, t)
  BY <1>1, <1>2 DEF Leaves, TypedStack, StackFields
<1>4. Leaves(ss, [t EXCEPT ![f.ply - 1].reduction = 0, ![f.ply + 2].cutoffs = 0, ![f.ply + 1].nmpHigh = 0])
  <2>1. PICK t1 : t1 = [t EXCEPT ![f.ply - 1].reduction = 0]
    OBVIOUS
  <2>2. PICK t2 : t2 = [t1 EXCEPT ![f.ply + 2].cutoffs = 0]
    OBVIOUS
  <2>3. PICK t3 : t3 = [t2 EXCEPT ![f.ply + 1].nmpHigh = 0]
    OBVIOUS
  <2>4. Leaves(ss, t1)
    <3>0. PICK p : p = f.ply - 1
      OBVIOUS
    <3>a. t1 = [t EXCEPT ![p].reduction = 0]
      BY <2>1, <3>0
    <3>b. DOMAIN t1 = DOMAIN t /\ \A q \in DOMAIN t : q # p => t1[q] = t[q]
      BY <3>a
    <3>c. p \in DOMAIN t => DOMAIN t[p] = StackFields
      BY <1>3 DEF Leaves, TypedStack
    <3>d. p \in DOMAIN t => t1[p] = [t[p] EXCEPT !.reduction = 0]
      BY <3>a
    <3>e. p \in DOMAIN t => /\ DOMAIN t1[p] = DOMAIN t[p] /\ t1[p].reduction \in Int
                            /\ t1[p].static = t[p].static /\ t1[p].excluded = t[p].excluded
      BY <3>c, <3>d DEF StackFields
    <3>f. TypedStack(t)
      BY <1>3 DEF Leaves
    <3>g. Reduces(t, p, t1)
      BY <3>b, <3>e DEF Reduces
    <3>1. Leaves(t, t1)
      BY <3>f, <3>g, Reducing
    <3>. QED
      BY <1>3, <3>1 DEF Leaves
  <2>5. Leaves(ss, t2)
    BY <1>1, <2>2, <2>4 DEF Leaves, TypedStack, StackFields
  <2>6. Leaves(ss, t3)
    BY <1>1, <2>3, <2>5 DEF Leaves, TypedStack, StackFields
  <2>7. t3 = [t EXCEPT ![f.ply - 1].reduction = 0, ![f.ply + 2].cutoffs = 0, ![f.ply + 1].nmpHigh = 0]
    BY <2>1, <2>2, <2>3
  <2>. QED
    BY <2>6, <2>7
<1>. QED
  BY <1>2, <1>3, <1>4

LEMMA Sizes == MaxPly \in Nat /\ 100 < MaxPly /\ MaxPly < 700 /\ MaxMoves \in Nat /\ MaxPly + 2 <= MaxMoves
BY MaxPlyAssumption, ReductionsAssumption

LEMMA DrawType == value_draw \in {-1, 1}
BY DEF value_draw

(* A call that is at its own position returns.                              *)
LEMMA ReturningHere ==
  ASSUME TreeInv, stack # << >>, f.pc \notin MadePcs \cup SamePcs, NEW v \in Int, NEW at, ReturnFor(v, at),
         UNCHANGED still, UNCHANGED <<board, nmpMinPly>>, Leaves(ss, ss'), TypedTable(G, tt')
  PROVE  TreeInv'
<1>1. stack' = Front(stack) /\ ret'.v = v
  BY DEF ReturnFor
<1>2. Retreats
  BY DEF Retreats, board
<1>3. Orderly
  BY <1>1, Quiet DEF Orderly, Leaves
<1>4. Releases(f, ss, ss', nmpMinPly, nmpMinPly')
  BY Releasing DEF SamePcs
<1>. QED
  BY <1>1, <1>2, <1>3, <1>4, Returning

(* And goes on at its own position.                                         *)
LEMMA GoingOnHere ==
  ASSUME TreeInv, stack # << >>, f.pc \notin MadePcs \cup SamePcs, NEW g, Become(g),
         g.pc \notin MadePcs, Succeeds(f, g, ss), FrameOk(G, g, Node),
         UNCHANGED still, UNCHANGED <<board, ret, nmpMinPly>>, Leaves(ss, ss'), TypedTable(G, tt')
  PROVE  TreeInv'
<1>2. Retreats
  BY DEF Retreats, board
<1>3. Orderly
  BY Quiet DEF Orderly, Leaves
<1>4. Releases(f, ss, ss', nmpMinPly, nmpMinPly')
  BY Releasing DEF SamePcs
<1>. QED
  BY <1>2, <1>3, <1>4, GoingOn

LEMMA EnterKeeps == TreeInv /\ Enter => TreeInv'
<1>. SUFFICES ASSUME TreeInv, Enter PROVE TreeInv'
  OBVIOUS
<1>1. stack # << >> /\ f.kind = "search" /\ f.pc = "enter" /\ f.depth > 0
  BY DEF Enter, At
<1>2. UNCHANGED still /\ UNCHANGED <<board, tt, nmpMinPly>>
  BY DEF Enter
<1>3. FrameOk(G, f, Node) /\ Node \in DOMAIN G.moves /\ Here.pos = Node /\ WellPosed(G)
  BY <1>1, Standing, Standpoint DEF MadePcs
<1>4. f.pc \notin MadePcs \cup SamePcs /\ TypedTable(G, tt)
  BY <1>1 DEF MadePcs, SamePcs, TreeInv
<1>5. PICK draws, a, w, follow :
        /\ draws = (~rootNode /\ f.alpha < 0 /\ upcoming_repetition(f.ply))
        /\ a = (IF draws THEN value_draw ELSE f.alpha)
        /\ w = Bounded(a, f.beta)
        /\ follow = (\/ rootNode
                     \/ S(-1).follow /\ f.ply <= Len(G.lastPV) /\ S(-1).move = G.lastPV[f.ply])
  OBVIOUS
<1>6. PICK ready, full :
        /\ ready = [ss EXCEPT ![f.ply].inCheck = InCheck(Here.pos), ![f.ply].follow = follow]
        /\ full = [ready EXCEPT ![f.ply - 1].reduction = 0, ![f.ply + 2].cutoffs = 0, ![f.ply + 1].nmpHigh = 0]
  OBVIOUS
<1>7. Leaves(ss, ready) /\ Leaves(ss, full) /\ Leaves(ss, ss)
  BY <1>1, <1>6, EnterStack, Places
<1>8. /\ f.alpha \in Int /\ f.beta \in Int /\ f.alpha < f.beta /\ f.depth \in Int /\ f.ply \in Nat
      /\ f.type = "Root" => f.ply = 0 /\ -ValueInfinite <= f.alpha
      /\ f.type = "NonPV" => f.alpha = f.beta - 1
  BY <1>3 DEF FrameOk, TypedFrame, FrameWindow
<1>9. a \in Int /\ w[1] \in Int /\ w[2] \in Int
  BY <1>5, <1>8, DrawType, Sizes DEF Bounded, Max2, Min2, MatedIn, MateIn, ValueMate
<1>10. CASE draws /\ a >= f.beta
  <2>1. Return(a) /\ UNCHANGED ss
    BY <1>5, <1>10 DEF Enter
  <2>. QED
    BY <1>1, <1>2, <1>4, <1>7, <1>9, <2>1, ReturningHere DEF Return
<1>11. CASE ~(draws /\ a >= f.beta) /\ ~rootNode /\ (stop \/ is_draw(f.ply) \/ f.ply >= MaxPly)
  <2>1. PICK v : v = IF f.ply >= MaxPly /\ ~InCheck(Here.pos) THEN G.eval[Here.pos] ELSE value_draw
    OBVIOUS
  <2>2. v \in Int
    BY <1>3, <2>1, Chess, DrawType
  <2>3. Return(v) /\ ss' = ready
    BY <1>5, <1>6, <1>11, <2>1 DEF Enter
  <2>. QED
    BY <1>1, <1>2, <1>4, <1>7, <2>2, <2>3, ReturningHere DEF Return
<1>12. ASSUME ~(draws /\ a >= f.beta), ~(~rootNode /\ (stop \/ is_draw(f.ply) \/ f.ply >= MaxPly))
       PROVE  TreeInv'
  <2>1. CASE w[1] >= w[2]
    <3>1. Return(w[1]) /\ ss' = ready
      BY <1>5, <1>6, <1>12, <2>1 DEF Enter
    <3>. QED
      BY <1>1, <1>2, <1>4, <1>7, <1>9, <3>1, ReturningHere DEF Return
  <2>2. CASE ~(w[1] >= w[2])
    <3>1. PICK g : g = [f EXCEPT !.pc = "probe", !.depth = Min2(@, MaxPly - 1),
                                 !.alpha = w[1], !.beta = w[2], !.r = S(-1).reduction]
      OBVIOUS
    <3>2. Become(g) /\ ss' = full /\ UNCHANGED ret
      BY <1>5, <1>6, <1>12, <2>2, <3>1 DEF Enter
    <3>3. S(-1).reduction \in Int
      BY <1>1, Places DEF S
    <3>4. /\ DOMAIN g = FrameFields /\ g.pc = "probe" /\ g.depth \in Int /\ 1 <= g.depth /\ g.depth < MaxPly
          /\ g.alpha = w[1] /\ g.beta = w[2] /\ g.r \in Int
      <4>1. DOMAIN f = FrameFields
        BY <1>3 DEF FrameOk, TypedFrame
      <4>2. /\ DOMAIN g = FrameFields /\ g.pc = "probe" /\ g.depth = Min2(f.depth, MaxPly - 1)
            /\ g.alpha = w[1] /\ g.beta = w[2] /\ g.r = S(-1).reduction
        BY <3>1, <4>1 DEF FrameFields
      <4>3. LET m == Min2(f.depth, MaxPly - 1) IN m \in Int /\ 1 <= m /\ m < MaxPly
        BY <1>1, <1>8, Sizes DEF Min2
      <4>. QED
        BY <3>3, <4>2, <4>3
    <3>5. TypedFrame(g)
      BY <1>3, <1>9, <3>1, <3>4 DEF FrameOk, TypedFrame, FrameFields
    <3>6. FrameMoves(G, g, Node)
      BY <1>3, <3>1 DEF FrameOk, TypedFrame, FrameFields, FrameMoves, PlayPcs, LoopPcs
    <3>7. w[1] < w[2] /\ (f.type = "NonPV" => w[1] = w[2] - 1) /\ -ValueInfinite <= w[1]
      <4>1. CASE rootNode
        <5>1. a = f.alpha /\ w = <<f.alpha, f.beta>>
          BY <1>5, <4>1 DEF Bounded
        <5>. QED
          BY <1>8, <4>1, <5>1 DEF rootNode
      <4>2. CASE ~rootNode
        <5>1. w = <<Max2(MatedIn(f.ply), a), Min2(MateIn(f.ply + 1), f.beta)>>
          BY <1>5, <4>2 DEF Bounded
        <5>2. w[1] >= MatedIn(f.ply) /\ w[1] >= a /\ w[2] <= f.beta
          BY <1>8, <1>9, <5>1 DEF Max2, Min2, MatedIn, MateIn, ValueMate
        <5>3. -ValueInfinite <= w[1]
          BY <1>8, <1>9, <5>2 DEF MatedIn, ValueMate, ValueInfinite
        <5>4. w[1] < w[2]
          BY <1>9, <2>2
        <5>5. ASSUME f.type = "NonPV" PROVE w[1] = w[2] - 1
          <6>1. f.alpha = f.beta - 1
            BY <1>8, <5>5
          <6>2. a >= f.alpha
            <7>1. CASE draws
              <8>1. f.alpha < 0 /\ a = value_draw
                BY <1>5, <7>1, Zenon
              <8>. QED
                BY <1>8, <8>1, DrawType
            <7>2. CASE ~draws
              <8>1. a = f.alpha
                BY <1>5, <7>2
              <8>. QED
                BY <1>8, <8>1
            <7>. QED
              BY <7>1, <7>2
          <6>. QED
            BY <1>8, <1>9, <5>2, <5>4, <6>1, <6>2
        <5>. QED
          BY <5>3, <5>4, <5>5
      <4>. QED
        BY <4>1, <4>2
    <3>8. FrameWindow(g)
      BY <1>3, <3>1, <3>4, <3>7 DEF FrameOk, TypedFrame, FrameFields, FrameWindow
    <3>9. FrameProgress(g)
      <4>1. f.ply < MaxPly
        BY <1>8, <1>12, Sizes DEF rootNode
      <4>2. f.best = -ValueInfinite /\ f.mc = 0 /\ f.queue = {}
        BY <1>1, <1>3 DEF FrameOk, FrameProgress, LoopPcs
      <4>3. g.kind = "search" /\ g.ply = f.ply /\ g.best = f.best /\ g.mc = 0 /\ g.queue = f.queue
        BY <1>1, <1>3, <3>1, <4>2 DEF FrameOk, TypedFrame, FrameFields
      <4>. QED
        BY <3>4, <3>7, <4>1, <4>2, <4>3, Sizes DEF FrameProgress, LoopPcs, SearchPcs, ValueInfinite
    <3>10. Succeeds(f, g, ss)
      <4>1. g.kind = f.kind /\ g.ply = f.ply /\ g.cut = f.cut /\ g.excl = f.excl
        BY <1>3, <3>1 DEF FrameOk, TypedFrame, FrameFields
      <4>2. g.depth > 0 /\ g.pc = "probe"
        BY <3>4
      <4>. QED
        <5>1. Excludes(g)
          BY <1>1, <4>1, <4>2 DEF Excludes
        <5>2. ~Shallowed(f)
          BY <1>1, <1>8 DEF Shallowed
        <5>. QED
          BY <4>1, <4>2, <5>1, <5>2 DEF Succeeds
    <3>. QED
      BY <1>1, <1>2, <1>4, <1>7, <3>2, <3>4, <3>5, <3>6, <3>8, <3>9, <3>10, GoingOnHere DEF FrameOk, MadePcs
  <2>. QED
    BY <2>1, <2>2
<1>. QED
  BY <1>10, <1>11, <1>12

LEMMA Quotients ==
  ASSUME NEW a \in Int, NEW b \in Int, b > 0
  PROVE  Quot2(a, b) \in Int
BY DEF Quot2

LEMMA BitType == ASSUME NEW b \in BOOLEAN PROVE Bit(b) \in {0, 1}
BY DEF Bit

LEMMA MinMaxType ==
  ASSUME NEW a \in Int, NEW b \in Int
  PROVE  Min2(a, b) \in Int /\ Max2(a, b) \in Int /\ Abs2(a) \in Int
BY DEF Min2, Max2, Abs2

LEMMA CorrectedType ==
  ASSUME G.correction \in Int, NEW v \in Int
  PROVE  Corrected(v) \in Int
<1>1. PICK q \in Int : q = Quot2(G.correction, 131072)
  BY Quotients
<1>2. PICK lo \in Int, hi \in Int : lo = 1 - TBWinInMaxPly /\ hi = TBWinInMaxPly - 1
  BY Sizes DEF TBWinInMaxPly, ValueTB, MateInMaxPly, ValueMate
<1>3. Corrected(v) = Min2(Max2(v + q, lo), hi)
  BY <1>1, <1>2 DEF Corrected
<1>. QED
  BY <1>3, MinMaxType

LEMMA WriteKeeps ==
  ASSUME TypedTable(G, tt), NEW p \in DOMAIN G.moves, Here.pos = p, NEW v \in Int, NEW pv, NEW b, NEW d,
         NEW m \in MaybeMove(G, p), NEW ev \in Int
  PROVE  TypedTable(G, Write(v, pv, b, d, m, ev))
<1>1. TypedEntry(G, tt[p], p)
  BY DEF TypedTable
<1>2. PICK e : e = Save(tt[p], v, pv, b, d, m, ev)
  OBVIOUS
<1>3. TypedEntry(G, e, p)
  BY <1>1, <1>2, Saving
<1>4. Write(v, pv, b, d, m, ev) = [tt EXCEPT ![p] = e]
  BY <1>2 DEF Write
<1>5. PICK t : t = [tt EXCEPT ![p] = e]
  OBVIOUS
<1>6. TypedTable(G, t)
  BY <1>3, <1>5 DEF TypedTable
<1>. QED
  BY <1>4, <1>5, <1>6

LEMMA NoMoveIsMaybe == ASSUME NEW h, NEW p PROVE NoMove \in MaybeMove(h, p)
BY DEF MaybeMove

LEMMA ProbeKeeps == TreeInv /\ Probe => TreeInv'
<1>. SUFFICES ASSUME TreeInv, Probe PROVE TreeInv'
  OBVIOUS
<1>1. stack # << >> /\ f.kind = "search" /\ f.pc = "probe"
  BY DEF Probe, At
<1>2. UNCHANGED still /\ UNCHANGED <<board, ret, nmpMinPly>>
  BY DEF Probe
<1>3. FrameOk(G, f, Node) /\ Node \in DOMAIN G.moves /\ Here.pos = Node /\ WellPosed(G)
  BY <1>1, Standing, Standpoint DEF MadePcs
<1>4. f.pc \notin MadePcs \cup SamePcs /\ TypedTable(G, tt)
  BY <1>1 DEF MadePcs, SamePcs, TreeInv
<1>a. PICK excl : excl = S(0).excluded
  OBVIOUS
<1>b. PICK read : read = TableRead(Here.pos, f.ply)
  OBVIOUS
<1>c. PICK entry : entry = [read EXCEPT !.move = IF rootNode THEN G.moves[Here.pos][G.pvIdx + 1].to ELSE @]
  OBVIOUS
<1>d. PICK ttPv : ttPv = (IF excl # NoMove THEN S(0).ttPv ELSE PvNode \/ (entry.hit /\ entry.pv))
  OBVIOUS
<1>e. PICK check : check = InCheck(Here.pos)
  OBVIOUS
<1>f. PICK uns : uns = IF check THEN ValueNone
                       ELSE IF excl # NoMove THEN S(0).static
                       ELSE IF entry.hit /\ IsValid(entry.eval) THEN entry.eval ELSE G.eval[Here.pos]
  OBVIOUS
<1>h. PICK static : static = IF check THEN S(-2).static
                             ELSE IF excl # NoMove THEN S(0).static ELSE Corrected(uns)
  OBVIOUS
<1>i. PICK eval : eval = IF ~check /\ excl = NoMove /\ entry.hit /\ IsValid(entry.value)
                            /\ Covers(entry.bound, entry.value > static) THEN entry.value ELSE static
  OBVIOUS
<1>j. PICK up, down : up = (static > S(-2).static) /\ down = (static > -S(-1).static)
  OBVIOUS
<1>6. PICK g : g = [f EXCEPT !.pc = "cutoff", !.excl = excl, !.tt = entry, !.uns = uns, !.eval = eval,
                             !.improving = up, !.worsening = down, !.depth = Hindsight(@, f.r, static)]
  OBVIOUS
<1>7. /\ ss' = [ss EXCEPT ![f.ply].ttPv = ttPv, ![f.ply].static = static]
      /\ Become(g)
      /\ tt' = IF check \/ excl # NoMove \/ entry.hit THEN tt
               ELSE Write(ValueNone, ttPv, BoundNone, DepthUnsearched, NoMove, uns)
  <2>1. ss' = [ss EXCEPT ![f.ply].ttPv = ttPv, ![f.ply].static = static]
    BY <1>a, <1>b, <1>c, <1>d, <1>e, <1>f, <1>h DEF Probe
  <2>2. Become([f EXCEPT !.pc = "cutoff", !.excl = excl, !.tt = entry, !.uns = uns, !.eval = eval,
                         !.improving = static > S(-2).static, !.worsening = static > -S(-1).static,
                         !.depth = Hindsight(@, f.r, static)])
    BY <1>a, <1>b, <1>c, <1>d, <1>e, <1>f, <1>h, <1>i DEF Probe
  <2>3. Become(g)
    BY <1>j, <1>6, <2>2
  <2>4. tt' = IF check \/ excl # NoMove \/ entry.hit THEN tt
              ELSE Write(ValueNone, ttPv, BoundNone, DepthUnsearched, NoMove, uns)
    BY <1>a, <1>b, <1>c, <1>d, <1>e, <1>f DEF Probe
  <2>. QED
    BY <2>1, <2>3, <2>4
<1>8. /\ f.ply \in Nat /\ f.ply <= MaxPly /\ f.depth \in Int /\ 1 <= f.depth /\ f.depth < MaxPly
      /\ f.type = "Root" => f.ply = 0
      /\ DOMAIN f = FrameFields /\ f.queue = {}
  BY <1>1, <1>3 DEF FrameOk, TypedFrame, FrameWindow, FrameProgress
<1>9. TypedEntry(G, entry, Node)
  <2>1. TypedEntry(G, read, Node)
    BY <1>3, <1>4, <1>b, <1>8, Reading
  <2>2. ASSUME rootNode PROVE G.moves[Node][G.pvIdx + 1].to \in MaybeMove(G, Node)
    <3>1. Node = G.root
      BY <1>8, <2>2 DEF rootNode, Node, TreeInv, TypedLine
    <3>2. G.pvIdx \in Nat /\ G.pvIdx < Len(G.moves[G.root])
      BY <1>3 DEF WellPosed
    <3>3. G.pvIdx + 1 \in DOMAIN G.moves[Node]
      BY <1>3, <3>1, <3>2, Chess
    <3>. QED
      BY <1>3, <3>3, Chess DEF MaybeMove
  <2>. QED
    BY <1>3, <1>c, <2>1, <2>2 DEF TypedEntry, EntryFields
<1>10. uns \in Int /\ static \in Int /\ eval \in Int
  <2>1. S(-2).static \in Int /\ S(0).static \in Int
    BY <1>1, Statics
  <2>2. entry.eval \in Int /\ entry.value \in Int /\ G.eval[Node] \in Int /\ G.correction \in Int
    BY <1>3, <1>9, Chess DEF TypedEntry
  <2>3. uns \in Int
    BY <1>3, <1>f, <2>1, <2>2 DEF ValueNone
  <2>4. static \in Int
    BY <1>h, <2>1, <2>2, <2>3, CorrectedType
  <2>. QED
    BY <1>i, <2>2, <2>3, <2>4
<1>11. PICK depth : depth = Hindsight(f.depth, f.r, static)
  OBVIOUS
<1>12. depth \in Int /\ 1 <= depth /\ depth <= MaxPly
  BY <1>8, <1>11, Sizes DEF Hindsight, Bit
<1>13. /\ DOMAIN g = FrameFields /\ g.pc = "cutoff" /\ g.excl = excl /\ g.tt = entry /\ g.uns = uns
       /\ g.eval = eval /\ g.depth = depth
       /\ \A x \in FrameFields \ {"pc", "excl", "tt", "uns", "eval", "improving", "worsening", "depth"} : g[x] = f[x]
  BY <1>6, <1>8, <1>11 DEF FrameFields
<1>k. /\ g.pc = "cutoff" /\ g.excl = excl /\ g.depth = depth /\ g.kind = f.kind /\ g.type = f.type
      /\ g.ply = f.ply /\ g.mc = f.mc /\ g.best = f.best /\ g.alpha = f.alpha /\ g.queue = f.queue
      /\ g.cut = f.cut
  BY <1>13 DEF FrameFields
<1>14. FrameOk(G, g, Node)
  <2>1. TypedFrame(g)
    BY <1>3, <1>10, <1>12, <1>13 DEF FrameOk, TypedFrame, FrameFields
  <2>2. FrameMoves(G, g, Node)
    BY <1>3, <1>8, <1>9, <1>13 DEF FrameOk, FrameFields, FrameMoves, PlayPcs, LoopPcs
  <2>3. FrameWindow(g)
    BY <1>3, <1>13 DEF FrameOk, FrameFields, FrameWindow
  <2>4. FrameProgress(g)
    <3>1. f.ply < MaxPly /\ f.mc = 0 /\ f.best <= f.alpha /\ -ValueInfinite <= f.alpha
      BY <1>1, <1>3 DEF FrameOk, FrameProgress, LoopPcs
    <3>. QED
      BY <1>1, <1>8, <1>12, <1>k, <3>1, Sizes DEF FrameProgress, SearchPcs, LoopPcs
  <2>. QED
    BY <2>1, <2>2, <2>3, <2>4 DEF FrameOk
<1>15. Succeeds(f, g, ss)
  BY <1>1, <1>a, <1>8, <1>k DEF Succeeds, Excludes, Shallowed, FrameFields, S
<1>16. Leaves(ss, ss')
  BY <1>1, <1>7, <1>10, Places DEF Leaves, TypedStack, StackFields
<1>17. TypedTable(G, tt')
  <2>1. ValueNone \in Int /\ NoMove \in MaybeMove(G, Node)
    BY NoMoveIsMaybe DEF ValueNone
  <2>2. TypedTable(G, Write(ValueNone, ttPv, BoundNone, DepthUnsearched, NoMove, uns))
    BY <1>3, <1>4, <1>10, <2>1, WriteKeeps
  <2>. QED
    BY <1>4, <1>7, <2>2
<1>. QED
  BY <1>1, <1>2, <1>4, <1>7, <1>13, <1>14, <1>15, <1>16, <1>17, GoingOnHere DEF MadePcs

(* A search between the table and the move loop: what it knows, and what it *)
(* may become without leaving its window.                                   *)
EarlyPcs == {"cutoff", "tables", "prune", "null", "nullBack", "verifyBack", "probcut", "probNext", "probBack",
             "probDeep", "small"}

LEMMA AtWork ==
  ASSUME TreeInv, stack # << >>, f.kind = "search", f.pc \in EarlyPcs
  PROVE  /\ FrameOk(G, f, Node) /\ DOMAIN f = FrameFields
         /\ f.ply \in Nat /\ f.ply < MaxPly /\ f.depth \in Int /\ 1 <= f.depth /\ f.depth <= MaxPly
         /\ f.alpha \in Int /\ f.beta \in Int /\ f.best \in Int /\ f.best <= f.alpha /\ -ValueInfinite <= f.alpha
         /\ f.alpha < f.beta /\ f.mc = 0
         /\ WellPosed(G) /\ TypedTable(G, tt) /\ f.tt.value \in Int /\ f.uns \in Int
         /\ Node \in DOMAIN G.moves /\ (f.pc \notin MadePcs => Here.pos = Node)
<1>1. FrameOk(G, f, Node) /\ WellPosed(G) /\ TypedTable(G, tt)
  BY Standing DEF TreeInv
<1>2. TypedFrame(f) /\ FrameMoves(G, f, Node) /\ FrameWindow(f) /\ FrameProgress(f)
  BY <1>1 DEF FrameOk
<1>3. /\ DOMAIN f = FrameFields
      /\ f.ply \in Nat /\ f.depth \in Int /\ f.alpha \in Int /\ f.beta \in Int /\ f.best \in Int /\ f.uns \in Int
  BY <1>2 DEF TypedFrame
<1>4. /\ f.pc # "enter" /\ f.pc # "finish" /\ f.pc \notin LoopPcs
      /\ 1 <= f.depth /\ f.best <= f.alpha /\ -ValueInfinite <= f.alpha /\ f.mc = 0 /\ f.ply < MaxPly
  BY <1>2 DEF FrameProgress, EarlyPcs, LoopPcs
<1>5. f.depth <= MaxPly
  BY <1>2, <1>3, <1>4, Sizes DEF FrameProgress
<1>6. f.tt.value \in Int /\ f.alpha < f.beta
  BY <1>2 DEF FrameMoves, TypedEntry, FrameWindow
<1>7. Node \in DOMAIN G.moves /\ (f.pc \notin MadePcs => Here.pos = Node)
  BY Standpoint, LineShrinks
<1>. QED
  BY <1>1, <1>3, <1>4, <1>5, <1>6, <1>7

SameCall(r, g) ==
  /\ DOMAIN g = FrameFields
  /\ g.kind = r.kind /\ g.type = r.type /\ g.ply = r.ply /\ g.alpha = r.alpha /\ g.beta = r.beta
  /\ g.cut = r.cut /\ g.excl = r.excl /\ g.tt = r.tt /\ g.uns = r.uns /\ g.eval = r.eval
  /\ g.best = r.best /\ g.max = r.max /\ g.bestMove = r.bestMove /\ g.mc = r.mc /\ g.ext = r.ext
  /\ g.newDepth = r.newDepth /\ g.d = r.d /\ g.r = r.r /\ g.base = r.base

QueueOk(g) ==
  /\ g.queue \subseteq 0 .. Len(G.moves[Node]) /\ (0 \in g.queue => f.tt.move # NoMove)
  /\ g.pc \in PlayPcs => g.m \in MovesOf(G, Node)

LEMMA GoesToWork ==
  ASSUME TreeInv, stack # << >>, f.kind = "search", f.pc \in EarlyPcs, NEW g, SameCall(f, g),
         g.pc \in EarlyPcs, g.pc \in {"nullBack", "verifyBack"} => f.excl = NoMove,
         g.pc = "nullBack" => f.cut, QueueOk(g),
         g.depth \in Int, 1 <= g.depth, g.depth <= MaxPly, g.aim \in Int, g.value \in Int
  PROVE  FrameOk(G, g, Node) /\ (g.pc \notin {"nullBack", "verifyBack"} => Succeeds(f, g, ss))
<1>1. /\ FrameOk(G, f, Node) /\ f.ply < MaxPly /\ f.best <= f.alpha /\ -ValueInfinite <= f.alpha /\ f.mc = 0
  BY AtWork
<1>2. TypedFrame(g)
  BY <1>1 DEF FrameOk, TypedFrame, SameCall
<1>3. FrameMoves(G, g, Node)
  BY <1>1 DEF FrameOk, FrameMoves, SameCall, QueueOk, EarlyPcs, LoopPcs
<1>4. FrameWindow(g)
  BY <1>1 DEF FrameOk, FrameWindow, SameCall
<1>5. FrameProgress(g)
  <2>1. /\ g.pc \notin LoopPcs \cup {"enter", "probe", "finish", "singularBack"} /\ g.pc \in SearchPcs
    BY DEF EarlyPcs, LoopPcs, SearchPcs
  <2>. QED
    BY <1>1, <2>1, Sizes DEF FrameProgress, SameCall
<1>6. g.pc \notin {"nullBack", "verifyBack"} => Succeeds(f, g, ss)
  BY DEF Succeeds, SameCall, EarlyPcs, Excludes, Shallowed
<1>. QED
  BY <1>2, <1>3, <1>4, <1>5, <1>6 DEF FrameOk

LEMMA QueueStays ==
  ASSUME TreeInv, stack # << >>, NEW g, g.queue = f.queue, g.pc \in PlayPcs => f.pc \in PlayPcs /\ g.m = f.m
  PROVE  QueueOk(g)
BY Standing DEF FrameOk, FrameMoves, QueueOk

LEMMA CutoffKeeps == TreeInv /\ Cutoff => TreeInv'
<1>. SUFFICES ASSUME TreeInv, Cutoff PROVE TreeInv'
  OBVIOUS
<1>1. stack # << >> /\ f.kind = "search" /\ f.pc = "cutoff" /\ f.pc \in EarlyPcs /\ f.pc \notin MadePcs \cup SamePcs
  BY DEF Cutoff, At, EarlyPcs, MadePcs, SamePcs
<1>2. UNCHANGED still /\ UNCHANGED <<board, ss, nmpMinPly>>
  BY DEF Cutoff
<1>3. /\ DOMAIN f = FrameFields /\ f.depth \in Int /\ 1 <= f.depth /\ f.depth <= MaxPly
      /\ TypedTable(G, tt) /\ f.tt.value \in Int /\ Here.pos = Node /\ Node \in DOMAIN G.moves
      /\ f.aim \in Int /\ f.value \in Int
  BY <1>1, AtWork DEF FrameOk, TypedFrame
<1>4. Leaves(ss, ss')
  BY <1>1, <1>2, Places
<1>5. \/ Return(f.tt.value) /\ UNCHANGED tt
      \/ Become([f EXCEPT !.pc = "tables"]) /\ UNCHANGED ret /\ (UNCHANGED tt \/ tt' = Penalize(1))
  BY DEF Cutoff
<1>6. CASE Return(f.tt.value) /\ UNCHANGED tt
  BY <1>1, <1>2, <1>3, <1>4, <1>6, ReturningHere DEF Return
<1>7. CASE Become([f EXCEPT !.pc = "tables"]) /\ UNCHANGED ret /\ (UNCHANGED tt \/ tt' = Penalize(1))
  <2>1. PICK g : g = [f EXCEPT !.pc = "tables"]
    OBVIOUS
  <2>2. SameCall(f, g) /\ g.pc = "tables" /\ g.queue = f.queue /\ g.depth = f.depth /\ g.aim = f.aim /\ g.value = f.value
    BY <1>3, <2>1 DEF SameCall, FrameFields
  <2>3. QueueOk(g)
    BY <1>1, <2>2, QueueStays DEF PlayPcs
  <2>4. FrameOk(G, g, Node) /\ Succeeds(f, g, ss)
    BY <1>1, <1>3, <2>2, <2>3, GoesToWork DEF EarlyPcs
  <2>5. TypedTable(G, tt')
    <3>1. CASE tt' = Penalize(1)
      <4>1. PICK e : e = Weakened(tt[Node], 1)
        OBVIOUS
      <4>2. TypedEntry(G, e, Node)
        BY <1>3, <4>1, Weakening DEF TypedTable
      <4>3. tt' = [tt EXCEPT ![Node] = e]
        BY <1>3, <3>1, <4>1 DEF Penalize
      <4>. QED
        BY <1>3, <4>2, <4>3 DEF TypedTable
    <3>. QED
      BY <1>3, <1>7, <3>1
  <2>. QED
    BY <1>1, <1>2, <1>4, <1>7, <2>1, <2>2, <2>4, <2>5, GoingOnHere DEF MadePcs
<1>. QED
  BY <1>5, <1>6, <1>7

LEMMA TablesKeeps == TreeInv /\ Tables => TreeInv'
<1>. SUFFICES ASSUME TreeInv, Tables PROVE TreeInv'
  OBVIOUS
<1>1. stack # << >> /\ f.kind = "search" /\ f.pc = "tables" /\ f.pc \in EarlyPcs /\ f.pc \notin MadePcs \cup SamePcs
  BY DEF Tables, At, EarlyPcs, MadePcs, SamePcs
<1>2. UNCHANGED still /\ UNCHANGED <<board, ss, nmpMinPly>> /\ Leaves(ss, ss')
  BY <1>1, Places DEF Tables
<1>3. /\ DOMAIN f = FrameFields /\ f.depth \in Int /\ 1 <= f.depth /\ f.depth <= MaxPly /\ f.ply \in Nat
      /\ TypedTable(G, tt) /\ Here.pos = Node /\ Node \in DOMAIN G.moves
      /\ f.aim \in Int /\ f.value \in Int /\ f.alpha \in Int /\ f.beta \in Int /\ f.alpha < f.beta
      /\ -ValueInfinite <= f.alpha /\ f.ply < MaxPly /\ FrameOk(G, f, Node) /\ f.mc = 0
  BY <1>1, AtWork DEF FrameOk, TypedFrame
<1>4. PICK wdl \in Int : wdl = G.wdl[Here.pos]
  BY <1>1, <1>3, AtWork, Chess
<1>5. PICK edge \in {0, 1} : edge = Bit(G.rule50Counts)
  BY DEF Bit
<1>6. PICK v : v = IF wdl < -edge THEN -(ValueTB - f.ply) ELSE IF wdl > edge THEN ValueTB - f.ply ELSE 2 * wdl * edge
  OBVIOUS
<1>7. v \in Int
  <2>1. ValueTB - f.ply \in Int
    BY <1>3, Sizes DEF ValueTB, MateInMaxPly, ValueMate
  <2>2. 2 * wdl * edge \in Int
    BY <1>4, <1>5
  <2>. QED
    BY <1>6, <2>1, <2>2
<1>8. PICK b : b = IF wdl < -edge THEN BoundUpper ELSE IF wdl > edge THEN BoundLower ELSE BoundExact
  OBVIOUS
<1>9. \/ /\ tt' = Write(ValueToTT(v, f.ply), S(0).ttPv, b, Min2(MaxPly - 1, f.depth + 6), NoMove, ValueNone)
         /\ Return(v)
      \/ /\ f.type = "PV" /\ ~(b = BoundLower /\ v >= f.beta) /\ UNCHANGED <<ret, tt>>
         /\ Become(IF b = BoundLower THEN [f EXCEPT !.pc = "prune", !.best = v, !.alpha = Max2(@, v)]
                                     ELSE [f EXCEPT !.pc = "prune", !.max = v])
      \/ Become([f EXCEPT !.pc = "prune"]) /\ UNCHANGED <<ret, tt>>
  <2>1. f.type \in {"Root", "PV", "NonPV"}
    BY <1>3 DEF FrameOk, TypedFrame
  <2>. QED
    BY <1>4, <1>5, <1>6, <1>8, <2>1 DEF Tables, PvNode, rootNode
<1>10. CASE /\ tt' = Write(ValueToTT(v, f.ply), S(0).ttPv, b, Min2(MaxPly - 1, f.depth + 6), NoMove, ValueNone)
            /\ Return(v)
  <2>1. PICK w \in Int : w = ValueToTT(v, f.ply)
    BY <1>3, <1>7, Conversions
  <2>2. NoMove \in MaybeMove(G, Node) /\ ValueNone \in Int
    BY NoMoveIsMaybe DEF ValueNone
  <2>3. TypedTable(G, tt')
    BY <1>3, <1>10, <2>1, <2>2, WriteKeeps
  <2>. QED
    BY <1>1, <1>2, <1>7, <1>10, <2>3, ReturningHere DEF Return
<1>11. CASE /\ f.type = "PV" /\ ~(b = BoundLower /\ v >= f.beta) /\ UNCHANGED <<ret, tt>>
            /\ Become(IF b = BoundLower THEN [f EXCEPT !.pc = "prune", !.best = v, !.alpha = Max2(@, v)]
                                        ELSE [f EXCEPT !.pc = "prune", !.max = v])
  <2>1. CASE b = BoundLower
    <3>1. PICK a : a = Max2(f.alpha, v)
      OBVIOUS
    <3>2. a \in Int /\ f.alpha <= a /\ v <= a /\ a < f.beta
      BY <1>3, <1>7, <1>11, <2>1, <3>1 DEF Max2
    <3>3. PICK g : g = [f EXCEPT !.pc = "prune", !.best = v, !.alpha = a]
      OBVIOUS
    <3>4. /\ DOMAIN g = FrameFields /\ g.pc = "prune" /\ g.best = v /\ g.alpha = a
          /\ \A x \in FrameFields \ {"pc", "best", "alpha"} : g[x] = f[x]
      BY <1>3, <3>3 DEF FrameFields
    <3>5. TypedFrame(g)
      BY <1>3, <1>7, <3>2, <3>4 DEF FrameOk, TypedFrame, FrameFields
    <3>6. FrameMoves(G, g, Node)
      BY <1>3, <3>4 DEF FrameOk, FrameFields, FrameMoves, PlayPcs, LoopPcs
    <3>7. /\ g.kind = "search" /\ g.type = "PV" /\ g.ply = f.ply /\ g.mc = 0 /\ g.beta = f.beta /\ g.depth = f.depth
          /\ g.cut = f.cut /\ g.excl = f.excl
      BY <1>1, <1>3, <1>11, <3>4 DEF FrameFields
    <3>8. FrameWindow(g)
      BY <1>3, <1>11, <3>2, <3>4, <3>7 DEF FrameOk, FrameWindow
    <3>9. FrameProgress(g)
      BY <1>3, <3>2, <3>4, <3>7, Sizes DEF FrameProgress, SearchPcs, LoopPcs, ValueInfinite
    <3>10. Succeeds(f, g, ss)
      BY <1>1, <3>4, <3>7 DEF Succeeds, Excludes, Shallowed
    <3>11. Become(g)
      BY <1>11, <2>1, <3>1, <3>3
    <3>. QED
      BY <1>1, <1>2, <1>3, <1>11, <3>4, <3>5, <3>6, <3>8, <3>9, <3>10, <3>11, GoingOnHere DEF MadePcs, FrameOk
  <2>2. CASE b # BoundLower
    <3>3. PICK g : g = [f EXCEPT !.pc = "prune", !.max = v]
      OBVIOUS
    <3>4. /\ DOMAIN g = FrameFields /\ g.pc = "prune" /\ g.max = v
          /\ \A x \in FrameFields \ {"pc", "max"} : g[x] = f[x]
      BY <1>3, <3>3 DEF FrameFields
    <3>5. TypedFrame(g)
      BY <1>3, <1>7, <3>4 DEF FrameOk, TypedFrame, FrameFields
    <3>6. FrameMoves(G, g, Node)
      BY <1>3, <3>4 DEF FrameOk, FrameFields, FrameMoves, PlayPcs, LoopPcs
    <3>7. /\ g.kind = "search" /\ g.type = f.type /\ g.ply = f.ply /\ g.mc = 0 /\ g.beta = f.beta /\ g.depth = f.depth
          /\ g.cut = f.cut /\ g.alpha = f.alpha /\ g.best = f.best /\ g.excl = f.excl
      BY <1>1, <1>3, <1>11, <3>4 DEF FrameFields
    <3>8. FrameWindow(g)
      BY <1>3, <3>7 DEF FrameOk, FrameWindow
    <3>9. FrameProgress(g)
      <4>1. f.best <= f.alpha
        BY <1>1, AtWork
      <4>. QED
        BY <1>3, <1>11, <3>4, <3>7, <4>1, Sizes DEF FrameProgress, SearchPcs, LoopPcs, ValueInfinite
    <3>10. Succeeds(f, g, ss)
      BY <1>1, <3>4, <3>7 DEF Succeeds, Excludes, Shallowed
    <3>11. Become(g)
      BY <1>11, <2>2, <3>3
    <3>. QED
      BY <1>1, <1>2, <1>3, <1>11, <3>4, <3>5, <3>6, <3>8, <3>9, <3>10, <3>11, GoingOnHere DEF MadePcs, FrameOk
  <2>. QED
    BY <2>1, <2>2
<1>12. CASE Become([f EXCEPT !.pc = "prune"]) /\ UNCHANGED <<ret, tt>>
  <2>1. PICK g : g = [f EXCEPT !.pc = "prune"]
    OBVIOUS
  <2>2. SameCall(f, g) /\ g.pc = "prune" /\ g.queue = f.queue /\ g.depth = f.depth /\ g.aim = f.aim /\ g.value = f.value
    BY <1>3, <2>1 DEF SameCall, FrameFields
  <2>3. QueueOk(g)
    BY <1>1, <2>2, QueueStays DEF PlayPcs
  <2>4. FrameOk(G, g, Node) /\ Succeeds(f, g, ss)
    BY <1>1, <1>3, <2>2, <2>3, GoesToWork DEF EarlyPcs
  <2>. QED
    BY <1>1, <1>2, <1>3, <1>12, <2>1, <2>2, <2>4, GoingOnHere DEF MadePcs
<1>. QED
  BY <1>9, <1>10, <1>11, <1>12

LEMMA PruneKeeps == TreeInv /\ Prune => TreeInv'
<1>. SUFFICES ASSUME TreeInv, Prune PROVE TreeInv'
  OBVIOUS
<1>1. stack # << >> /\ f.kind = "search" /\ f.pc = "prune" /\ f.pc \in EarlyPcs /\ f.pc \notin MadePcs \cup SamePcs
  BY DEF Prune, At, EarlyPcs, MadePcs, SamePcs
<1>2. UNCHANGED still /\ UNCHANGED <<board, ss, tt, nmpMinPly>> /\ Leaves(ss, ss')
  BY <1>1, Places DEF Prune
<1>3. /\ DOMAIN f = FrameFields /\ f.depth \in Int /\ 1 <= f.depth /\ f.depth <= MaxPly
      /\ TypedTable(G, tt) /\ FrameOk(G, f, Node)
      /\ f.aim \in Int /\ f.value \in Int /\ f.beta \in Int /\ f.eval \in Int
  BY <1>1, AtWork DEF FrameOk, TypedFrame
<1>4. \/ Become([f EXCEPT !.pc = "small"]) /\ UNCHANGED ret
      \/ Become([f EXCEPT !.kind = "qsearch", !.pc = "enter"]) /\ ~PvNode /\ UNCHANGED ret
      \/ Return(Quot2(661 * f.beta + 363 * f.eval, 1024))
      \/ Become([f EXCEPT !.pc = "null"]) /\ UNCHANGED ret
  BY DEF Prune, allNode
<1>5. ASSUME NEW pc \in {"small", "null"}, Become([f EXCEPT !.pc = pc]), UNCHANGED ret
      PROVE  TreeInv'
  <2>1. PICK g : g = [f EXCEPT !.pc = pc]
    OBVIOUS
  <2>2. SameCall(f, g) /\ g.pc = pc /\ g.queue = f.queue /\ g.depth = f.depth /\ g.aim = f.aim /\ g.value = f.value
    BY <1>3, <2>1 DEF SameCall, FrameFields
  <2>3. QueueOk(g)
    BY <1>1, <1>5, <2>2, QueueStays DEF PlayPcs
  <2>4. FrameOk(G, g, Node) /\ Succeeds(f, g, ss)
    BY <1>1, <1>3, <1>5, <2>2, <2>3, GoesToWork DEF EarlyPcs
  <2>. QED
    BY <1>1, <1>2, <1>3, <1>5, <2>1, <2>2, <2>4, GoingOnHere DEF MadePcs
<1>6. CASE Become([f EXCEPT !.kind = "qsearch", !.pc = "enter"]) /\ ~PvNode /\ UNCHANGED ret
  <2>1. PICK g : g = [f EXCEPT !.kind = "qsearch", !.pc = "enter"]
    OBVIOUS
  <2>2. /\ DOMAIN g = FrameFields /\ g.pc = "enter" /\ g.kind = "qsearch"
        /\ \A x \in FrameFields \ {"pc", "kind"} : g[x] = f[x]
    BY <1>3, <2>1 DEF FrameFields
  <2>3. TypedFrame(g)
    BY <1>3, <2>2 DEF FrameOk, TypedFrame, FrameFields
  <2>4. FrameMoves(G, g, Node)
    BY <1>3, <2>2 DEF FrameOk, FrameFields, FrameMoves, PlayPcs, LoopPcs
  <2>5. FrameWindow(g)
    BY <1>3, <2>2 DEF FrameOk, FrameFields, FrameWindow
  <2>6. g.type = f.type /\ g.ply = f.ply /\ g.cut = f.cut /\ g.excl = f.excl
    BY <2>2 DEF FrameFields
  <2>7. FrameProgress(g)
    BY <1>6, <2>2, <2>6 DEF FrameProgress, QPcs, PvNode
  <2>8. Succeeds(f, g, ss)
    BY <1>1, <2>2, <2>6 DEF Succeeds, Excludes, Shallowed
  <2>. QED
    BY <1>1, <1>2, <1>3, <1>6, <2>1, <2>2, <2>3, <2>4, <2>5, <2>7, <2>8, GoingOnHere DEF MadePcs, FrameOk
<1>7. CASE Return(Quot2(661 * f.beta + 363 * f.eval, 1024))
  <2>1. PICK v \in Int : v = Quot2(661 * f.beta + 363 * f.eval, 1024)
    <3>1. PICK x \in Int : x = 661 * f.beta + 363 * f.eval
      BY <1>3
    <3>. QED
      BY <3>1, Quotients
  <2>. QED
    BY <1>1, <1>2, <1>3, <1>7, <2>1, ReturningHere DEF Return
<1>. QED
  BY <1>4, <1>5, <1>6, <1>7

LEMMA ReductionType ==
  ASSUME TreeInv, stack # << >>, f.kind = "search", f.pc \in EarlyPcs
  PROVE  NullReduction \in Int
<1>1. f.depth \in Int /\ f.beta \in Int /\ S(0).static \in Int
  <2>1. f.depth \in Int /\ f.beta \in Int /\ f.ply \in Nat
    BY AtWork
  <2>. QED
    BY <2>1, Places DEF S
<1>a. PICK x \in Int : x = (S(0).static - f.beta) \div 256
  BY <1>1
<1>2. PICK R \in Int : R = 7 + f.depth \div 3 + Max2((S(0).static - f.beta) \div 256, 0)
  BY <1>1, <1>a DEF Max2
<1>3. CASE G.seekMate
  BY <1>2, <1>3 DEF NullReduction, Bit
<1>4. CASE ~G.seekMate
  BY <1>2, <1>4 DEF NullReduction, Bit
<1>. QED
  BY <1>3, <1>4

(* On the way to ProbCut.                                                   *)
LEMMA ToProbCutOk ==
  ASSUME TreeInv, stack # << >>, f.kind = "search", f.pc \in EarlyPcs
  PROVE  FrameOk(G, ToProbCut(f), Node) /\ Succeeds(f, ToProbCut(f), ss) /\ ToProbCut(f).pc = "probcut"
<1>1. /\ DOMAIN f = FrameFields /\ f.depth \in Int /\ 1 <= f.depth /\ f.depth <= MaxPly
      /\ f.aim \in Int /\ f.value \in Int
  BY AtWork DEF FrameOk, TypedFrame
<1>2. PICK better : better = (f.improving \/ S(0).static >= f.beta)
  OBVIOUS
<1>3. PICK depth : depth = IF ~S(0).follow /\ ~allNode /\ f.depth >= 6 /\ f.tt.move = NoMove
                           THEN f.depth - 1 ELSE f.depth
  OBVIOUS
<1>4. depth \in Int /\ 1 <= depth /\ depth <= MaxPly
  <2>1. depth = f.depth \/ (f.depth >= 6 /\ depth = f.depth - 1)
    BY <1>3
  <2>. QED
    BY <1>1, <2>1, Sizes
<1>5. PICK g : g = [f EXCEPT !.pc = "probcut", !.improving = better, !.depth = depth]
  OBVIOUS
<1>6. g = ToProbCut(f)
  BY <1>2, <1>3, <1>5 DEF ToProbCut
<1>7. SameCall(f, g) /\ g.pc = "probcut" /\ g.queue = f.queue /\ g.depth = depth /\ g.aim = f.aim /\ g.value = f.value
  BY <1>1, <1>5 DEF SameCall, FrameFields
<1>8. QueueOk(g)
  BY <1>7, QueueStays DEF PlayPcs
<1>9. FrameOk(G, g, Node) /\ Succeeds(f, g, ss)
  BY <1>1, <1>4, <1>7, <1>8, GoesToWork DEF EarlyPcs
<1>. QED
  BY <1>6, <1>7, <1>9

(* What the top frame keeps when it waits, and how a call of its own begins.*)
LEMMA Preparing ==
  ASSUME NEW r, NEW g, NEW s, g.ply = r.ply, g.cut => r.cut, g.pc \in BackPcs, r.pc \notin SamePcs,
         r.kind = "search", r.pc \notin {"enter", "probe"}, r.excl # NoMove => g.excl # NoMove
  PROVE  Prepares(r, g, s)
BY DEF Prepares, Excludes, SamePcs

LEMMA NotVerifying ==
  ASSUME NEW r, NEW g, NEW c, NEW n, g.pc # "verifyBack", Shallowed(r) => Shallowed(g) /\ Shallowed(c)
  PROVE  Verifies(r, g, c, n, n)
BY DEF Verifies

LEMMA ReleasesNothing ==
  ASSUME NEW g, NEW s, NEW s2, Leaves(s, s2)
  PROVE  Excluding(g, s, s2)
BY DEF Excluding, Leaves

LEMMA MarkedMove ==
  ASSUME TreeInv, stack # << >>, NEW m
  PROVE  Leaves(ss, [ss EXCEPT ![f.ply].move = m])
<1>1. f.ply \in -2 .. MaxPly + 2 /\ TypedStack(ss)
  BY Places
<1>. QED
  BY <1>1 DEF Leaves, TypedStack, StackFields

LEMMA NullKeeps == TreeInv /\ Null => TreeInv'
<1>. SUFFICES ASSUME TreeInv, Null PROVE TreeInv'
  OBVIOUS
<1>1. stack # << >> /\ f.kind = "search" /\ f.pc = "null" /\ f.pc \in EarlyPcs /\ f.pc \notin MadePcs \cup SamePcs
  BY DEF Null, At, EarlyPcs, MadePcs, SamePcs
<1>2. UNCHANGED still /\ UNCHANGED <<acc, ret, tt, nmpMinPly>>
  BY DEF Null
<1>3. /\ DOMAIN f = FrameFields /\ f.depth \in Int /\ 1 <= f.depth /\ f.depth <= MaxPly /\ f.ply \in Nat /\ f.ply < MaxPly
      /\ TypedTable(G, tt) /\ FrameOk(G, f, Node) /\ WellPosed(G)
      /\ f.aim \in Int /\ f.value \in Int /\ f.beta \in Int /\ f.alpha \in Int
      /\ Here.pos = Node
  BY <1>1, AtWork DEF FrameOk, TypedFrame
<1>4. \/ /\ f.cut /\ f.excl = NoMove /\ Here.pos \in DOMAIN G.null
         /\ line' = NullLine
         /\ ss' = [ss EXCEPT ![f.ply].move = NullMove]
         /\ Await(f, "nullBack", Search("NonPV", f.ply + 1, -f.beta, 1 - f.beta, f.depth - NullReduction, FALSE))
      \/ Become(ToProbCut(f)) /\ UNCHANGED <<line, ss>>
  <2>1. NullAllowed => f.cut /\ f.excl = NoMove /\ Here.pos \in DOMAIN G.null
    BY DEF NullAllowed
  <2>. QED
    BY <2>1 DEF Null
<1>5. CASE /\ f.cut /\ f.excl = NoMove /\ Here.pos \in DOMAIN G.null
           /\ line' = NullLine
           /\ ss' = [ss EXCEPT ![f.ply].move = NullMove]
           /\ Await(f, "nullBack", Search("NonPV", f.ply + 1, -f.beta, 1 - f.beta, f.depth - NullReduction, FALSE))
  <2>1. PICK g : g = [f EXCEPT !.pc = "nullBack"]
    OBVIOUS
  <2>2. PICK d \in Int : d = f.depth - NullReduction
    BY <1>1, <1>3, ReductionType
  <2>3. PICK c : c = Frame("search", "NonPV", f.ply + 1, -f.beta, 1 - f.beta, d, FALSE)
    OBVIOUS
  <2>4. stack' = Append(Append(Front(stack), g), c)
    BY <1>5, <2>1, <2>2, <2>3 DEF Await, Search
  <2>5. \A p : FrameOk(G, c, p)
    <3>1. PICK ply \in Nat, a \in Int, b \in Int : ply = f.ply + 1 /\ a = -f.beta /\ b = 1 - f.beta
      BY <1>3
    <3>2. ply <= MaxPly /\ a < b /\ a = b - 1
      BY <1>3, <3>1, Sizes
    <3>3. c = Frame("search", "NonPV", ply, a, b, d, FALSE)
      BY <2>3, <3>1
    <3>. QED
      BY <3>2, <3>3, FreshCall
  <2>6. c.pc = "enter" /\ c.ply = f.ply + 1 /\ ~c.cut
    BY <2>3 DEF Frame
  <2>7. SameCall(f, g) /\ g.pc = "nullBack" /\ g.queue = f.queue /\ g.depth = f.depth /\ g.aim = f.aim /\ g.value = f.value
    BY <1>3, <2>1 DEF SameCall, FrameFields
  <2>8. QueueOk(g)
    BY <1>1, <2>7, QueueStays DEF PlayPcs
  <2>9. FrameOk(G, g, Node)
    BY <1>1, <1>3, <1>5, <2>7, <2>8, GoesToWork DEF EarlyPcs
  <2>10. Leaves(ss, ss')
    BY <1>1, <1>5, MarkedMove
  <2>11. Orderly
    BY <1>2, <2>10, Quiet DEF Orderly, Leaves
  <2>12. Advances(g)
    <3>1. PICK x : x = [pos |-> G.null[Here.pos], rule50 |-> Here.rule50, fromNull |-> 0]
      OBVIOUS
    <3>2. G.null[Here.pos] \in DOMAIN G.moves
      BY <1>3, <1>5 DEF WellPosed
    <3>3. Here.rule50 \in Nat
      BY <1>1, Standpoint DEF Plies
    <3>4. x \in Plies(G)
      BY <3>1, <3>2, <3>3 DEF Plies
    <3>5. line' = Append(line, x)
      BY <1>5, <3>1 DEF NullLine
    <3>. QED
      BY <1>1, <1>2, <2>7, <3>4, <3>5 DEF Advances, MadePcs
  <2>13. Prepares(f, g, ss)
    BY <1>1, <2>7, Preparing DEF SameCall, BackPcs, MadePcs, SamePcs
  <2>14. Asks(g, c, ss')
    BY <2>6, <2>7 DEF Asks, Onward, SamePcs, SameCall
  <2>15. Verifies(f, g, c, nmpMinPly, nmpMinPly)
    BY <1>1, <2>7, NotVerifying DEF Shallowed
  <2>16. Excluding(g, ss, ss')
    BY <2>10, ReleasesNothing
  <2>. QED
    BY <1>1, <1>2, <2>4, <2>5, <2>7, <2>9, <2>11, <2>12, <2>13, <2>14, <2>15, <2>16, WaitingOn DEF SamePcs
<1>6. CASE Become(ToProbCut(f)) /\ UNCHANGED <<line, ss>>
  <2>1. PICK g : g = ToProbCut(f)
    OBVIOUS
  <2>2. FrameOk(G, g, Node) /\ Succeeds(f, g, ss) /\ g.pc = "probcut"
    BY <1>1, <2>1, ToProbCutOk
  <2>3. Leaves(ss, ss') /\ UNCHANGED board
    BY <1>1, <1>2, <1>6, Places DEF board
  <2>. QED
    BY <1>1, <1>2, <1>3, <1>6, <2>1, <2>2, <2>3, GoingOnHere DEF MadePcs
<1>. QED
  BY <1>4, <1>5, <1>6

LEMMA RaisedHigh ==
  ASSUME TreeInv, stack # << >>, NEW t, t = [ss EXCEPT ![f.ply].nmpHigh = @ + 1]
  PROVE  Leaves(ss, t)
<1>1. f.ply \in -2 .. MaxPly + 2 /\ TypedStack(ss)
  BY Places
<1>. QED
  BY <1>1 DEF Leaves, TypedStack, StackFields

LEMMA NullBackKeeps == TreeInv /\ NullBack => TreeInv'
<1>. SUFFICES ASSUME TreeInv, NullBack PROVE TreeInv'
  OBVIOUS
<1>1. stack # << >> /\ f.kind = "search" /\ f.pc = "nullBack" /\ f.pc \in EarlyPcs /\ f.pc \in MadePcs
  BY DEF NullBack, At, EarlyPcs, MadePcs
<1>2. UNCHANGED still /\ UNCHANGED <<acc, tt>> /\ line' = Front(line)
  BY DEF NullBack
<1>3. /\ DOMAIN f = FrameFields /\ f.depth \in Int /\ 1 <= f.depth /\ f.depth <= MaxPly /\ f.ply \in Nat /\ f.ply < MaxPly
      /\ TypedTable(G, tt) /\ FrameOk(G, f, Node) /\ WellPosed(G)
      /\ f.aim \in Int /\ f.value \in Int /\ f.beta \in Int /\ f.alpha \in Int
  BY <1>1, AtWork DEF FrameOk, TypedFrame
<1>4. Retreats
  BY <1>1, <1>2 DEF Retreats
<1>5. PICK v \in Int : v = -ret.v
  BY DEF TreeInv
<1>6. f.excl = NoMove /\ f.cut /\ nmpMinPly \in Int /\ f.ply > 0
  BY <1>1, <1>3 DEF FrameOk, FrameProgress, FrameWindow, TreeInv, Calls, Verifying
<1>7. \/ /\ ReturnFor(v, line[Len(line) - 1]) /\ ss' = [ss EXCEPT ![f.ply].nmpHigh = @ + 1]
         /\ UNCHANGED nmpMinPly
      \/ /\ nmpMinPly = 0 /\ f.depth >= 16 /\ UNCHANGED <<ret, ss>>
         /\ nmpMinPly' = f.ply + Quot2(3 * (f.depth - NullReduction), 4)
         /\ Await([f EXCEPT !.value = v], "verifyBack",
                  Search("NonPV", f.ply, f.beta - 1, f.beta, f.depth - NullReduction, FALSE))
      \/ Become(ToProbCut(f)) /\ UNCHANGED <<ret, ss, nmpMinPly>>
  BY <1>5 DEF NullBack
<1>8. CASE /\ ReturnFor(v, line[Len(line) - 1]) /\ ss' = [ss EXCEPT ![f.ply].nmpHigh = @ + 1]
           /\ UNCHANGED nmpMinPly
  <2>1. Leaves(ss, ss')
    BY <1>1, <1>8, RaisedHigh
  <2>2. stack' = Front(stack) /\ ret'.v = v
    BY <1>8 DEF ReturnFor
  <2>3. Orderly
    BY <1>2, <2>1, <2>2, Quiet DEF Orderly, Leaves
  <2>4. Releases(f, ss, ss', nmpMinPly, nmpMinPly')
    BY <1>1, <1>8, <2>1, Releasing
  <2>. QED
    BY <1>1, <1>4, <2>2, <2>3, <2>4, Returning
<1>9. CASE /\ nmpMinPly = 0 /\ f.depth >= 16 /\ UNCHANGED <<ret, ss>>
           /\ nmpMinPly' = f.ply + Quot2(3 * (f.depth - NullReduction), 4)
           /\ Await([f EXCEPT !.value = v], "verifyBack",
                    Search("NonPV", f.ply, f.beta - 1, f.beta, f.depth - NullReduction, FALSE))
  <2>1. PICK g : g = [[f EXCEPT !.value = v] EXCEPT !.pc = "verifyBack"]
    OBVIOUS
  <2>2. PICK d \in Int : d = f.depth - NullReduction
    BY <1>1, <1>3, ReductionType
  <2>3. PICK c : c = Frame("search", "NonPV", f.ply, f.beta - 1, f.beta, d, FALSE)
    OBVIOUS
  <2>4. stack' = Append(Append(Front(stack), g), c)
    BY <1>9, <2>1, <2>2, <2>3 DEF Await, Search
  <2>5. \A p : FrameOk(G, c, p)
    <3>1. PICK a \in Int : a = f.beta - 1
      BY <1>3
    <3>2. a < f.beta /\ f.ply <= MaxPly
      BY <1>3, <3>1, Sizes
    <3>3. c = Frame("search", "NonPV", f.ply, a, f.beta, d, FALSE)
      BY <2>3, <3>1
    <3>. QED
      BY <1>3, <3>1, <3>2, <3>3, FreshCall
  <2>6. c.pc = "enter" /\ c.ply = f.ply /\ ~c.cut /\ c.depth = d /\ c.kind = "search"
    BY <2>3 DEF Frame
  <2>7. SameCall(f, g) /\ g.pc = "verifyBack" /\ g.queue = f.queue /\ g.depth = f.depth /\ g.aim = f.aim /\ g.value = v
    BY <1>3, <2>1 DEF SameCall, FrameFields
  <2>8. QueueOk(g)
    BY <1>1, <2>7, QueueStays DEF PlayPcs
  <2>9. FrameOk(G, g, Node)
    BY <1>1, <1>3, <1>6, <2>7, <2>8, GoesToWork DEF EarlyPcs
  <2>10. Leaves(ss, ss')
    BY <1>1, <1>9, Places
  <2>11. Orderly
    BY <1>2, <1>9, Quiet
  <2>12. Prepares(f, g, ss)
    BY <1>1, <2>7, Preparing DEF SameCall, BackPcs, SamePcs
  <2>13. Asks(g, c, ss')
    BY <1>3, <2>6, <2>7 DEF Asks, Onward, SamePcs, SameCall
  <2>14. Verifies(f, g, c, nmpMinPly, nmpMinPly')
    <3>1. PICK e \in Int : e = 3 * d
      OBVIOUS
    <3>2. PICK q \in Int : q = Quot2(e, 4)
      BY Quotients
    <3>3. nmpMinPly' = f.ply + q
      BY <1>9, <2>2, <3>1, <3>2
    <3>4. nmpMinPly' = 0 => d <= 0
      <4>1. CASE d > 0
        <5>1. q >= 0
          BY <3>1, <3>2, <4>1 DEF Quot2
        <5>. QED
          BY <1>3, <1>6, <3>3, <5>1
      <4>. QED
        BY <4>1
    <3>. QED
      BY <1>1, <1>3, <1>9, <2>6, <2>7, <3>3, <3>4 DEF Verifies, Shallowed
  <2>15. Excluding(g, ss, ss')
    BY <2>10, ReleasesNothing
  <2>. QED
    BY <1>1, <1>4, <2>4, <2>5, <2>7, <2>9, <2>11, <2>12, <2>13, <2>14, <2>15, WaitingOn DEF SamePcs
<1>10. CASE Become(ToProbCut(f)) /\ UNCHANGED <<ret, ss, nmpMinPly>>
  <2>1. PICK g : g = ToProbCut(f)
    OBVIOUS
  <2>2. FrameOk(G, g, Node) /\ Succeeds(f, g, ss) /\ g.pc = "probcut"
    BY <1>1, <2>1, ToProbCutOk
  <2>3. Leaves(ss, ss')
    BY <1>1, <1>10, Places
  <2>4. Orderly
    BY <1>2, <1>10, Quiet
  <2>5. Releases(f, ss, ss', nmpMinPly, nmpMinPly')
    BY <1>1, <1>10, <2>3, Releasing
  <2>. QED
    BY <1>1, <1>4, <1>10, <2>1, <2>2, <2>4, <2>5, GoingOn DEF MadePcs
<1>. QED
  BY <1>7, <1>8, <1>9, <1>10

LEMMA VerifyBackKeeps == TreeInv /\ VerifyBack => TreeInv'
<1>. SUFFICES ASSUME TreeInv, VerifyBack PROVE TreeInv'
  OBVIOUS
<1>1. stack # << >> /\ f.kind = "search" /\ f.pc = "verifyBack" /\ f.pc \in EarlyPcs /\ f.pc \notin MadePcs
  BY DEF VerifyBack, At, EarlyPcs, MadePcs
<1>2. UNCHANGED still /\ UNCHANGED <<board, tt>> /\ nmpMinPly' = 0 /\ Retreats
  BY <1>1 DEF VerifyBack, Retreats
<1>3. FrameOk(G, f, Node) /\ f.value \in Int
  BY <1>1, AtWork DEF FrameOk, TypedFrame
<1>4. \/ Return(f.value) /\ ss' = [ss EXCEPT ![f.ply].nmpHigh = @ + 1]
      \/ Become(ToProbCut(f)) /\ UNCHANGED <<ret, ss>>
  BY DEF VerifyBack
<1>5. ASSUME Leaves(ss, ss') PROVE Releases(f, ss, ss', nmpMinPly, nmpMinPly')
  BY <1>1, <1>2, <1>5 DEF Releases, Leaves
<1>6. CASE Return(f.value) /\ ss' = [ss EXCEPT ![f.ply].nmpHigh = @ + 1]
  <2>1. Leaves(ss, ss')
    BY <1>1, <1>6, RaisedHigh
  <2>2. stack' = Front(stack) /\ ret'.v = f.value
    BY <1>6 DEF Return, ReturnFor
  <2>3. Orderly
    BY <1>2, <1>3, <2>1, <2>2, Quiet DEF Orderly, Leaves
  <2>. QED
    BY <1>1, <1>2, <1>5, <2>1, <2>2, <2>3, Returning
<1>7. CASE Become(ToProbCut(f)) /\ UNCHANGED <<ret, ss>>
  <2>1. PICK g : g = ToProbCut(f)
    OBVIOUS
  <2>2. FrameOk(G, g, Node) /\ Succeeds(f, g, ss) /\ g.pc = "probcut"
    BY <1>1, <2>1, ToProbCutOk
  <2>3. Leaves(ss, ss')
    BY <1>1, <1>7, Places
  <2>4. Orderly
    BY <1>2, <1>7, Quiet
  <2>. QED
    BY <1>1, <1>2, <1>5, <1>7, <2>1, <2>2, <2>3, <2>4, GoingOn DEF MadePcs
<1>. QED
  BY <1>4, <1>6, <1>7

LEMMA ProbCutKeeps == TreeInv /\ ProbCut => TreeInv'
<1>. SUFFICES ASSUME TreeInv, ProbCut PROVE TreeInv'
  OBVIOUS
<1>1. stack # << >> /\ f.kind = "search" /\ f.pc = "probcut" /\ f.pc \in EarlyPcs /\ f.pc \notin MadePcs \cup SamePcs
  BY DEF ProbCut, At, EarlyPcs, MadePcs, SamePcs
<1>2. UNCHANGED still /\ UNCHANGED <<board, ss, ret, tt, nmpMinPly>> /\ Leaves(ss, ss')
  BY <1>1, Places DEF ProbCut
<1>3. /\ DOMAIN f = FrameFields /\ f.depth \in Int /\ 1 <= f.depth /\ f.depth <= MaxPly
      /\ TypedTable(G, tt) /\ FrameOk(G, f, Node) /\ WellPosed(G) /\ Node \in DOMAIN G.moves
      /\ f.aim \in Int /\ f.value \in Int /\ f.beta \in Int /\ Here.pos = Node
  BY <1>1, AtWork DEF FrameOk, TypedFrame
<1>4. PICK aim \in Int : aim = f.beta + 241 - 64 * Bit(f.improving)
  BY <1>3 DEF Bit
<1>6. PICK good : good = { k \in DOMAIN G.moves[Here.pos] :
                             G.moves[Here.pos][k].cap > 0 /\ G.moves[Here.pos][k].see >= (f.beta + 241 - 64 * Bit(f.improving)) - S(0).static }
  OBVIOUS
<1>7. PICK first : first = IF ttCapture THEN f.tt.move ELSE NoMove
  OBVIOUS
<1>8. PICK pc, queue :
        /\ (pc = "probNext" /\ queue = Ranks(first, good)) \/ (pc = "small" /\ queue = {})
        /\ Become([f EXCEPT !.pc = pc, !.aim = aim, !.queue = queue])
  <2>. DEFINE tries == f.depth >= 3 /\ ~IsDecisive(f.beta) /\ ~(IsValid(f.tt.value) /\ f.tt.value < aim)
  <2>1. Become([f EXCEPT !.pc = IF tries THEN "probNext" ELSE "small", !.aim = aim,
                         !.queue = IF tries THEN Ranks(first, good) ELSE {}])
    BY <1>4, <1>6, <1>7, ZenonT(60) DEF ProbCut
  <2>. HIDE DEF tries
  <2>2. CASE tries
    <3>1. PICK pc, queue : pc = "probNext" /\ queue = Ranks(first, good)
      OBVIOUS
    <3>2. Become([f EXCEPT !.pc = pc, !.aim = aim, !.queue = queue])
      BY <2>1, <2>2, <3>1
    <3>. QED
      BY <3>1, <3>2, Zenon
  <2>3. CASE ~tries
    <3>1. PICK pc, queue : pc = "small" /\ queue = {}
      OBVIOUS
    <3>2. Become([f EXCEPT !.pc = pc, !.aim = aim, !.queue = queue])
      BY <2>1, <2>3, <3>1
    <3>. QED
      BY <3>1, <3>2, Zenon
  <2>. QED
    BY <2>2, <2>3
<1>9. PICK g : g = [f EXCEPT !.pc = pc, !.aim = aim, !.queue = queue]
  OBVIOUS
<1>10. Become(g)
  BY <1>8, <1>9
<1>11. SameCall(f, g) /\ g.pc = pc /\ g.queue = queue /\ g.depth = f.depth /\ g.aim = aim /\ g.value = f.value
  BY <1>3, <1>9 DEF SameCall, FrameFields
<1>12. QueueOk(g)
  <2>1. Len(G.moves[Here.pos]) \in Nat /\ DOMAIN G.moves[Here.pos] = 1 .. Len(G.moves[Here.pos])
    BY <1>3, Chess
  <2>2. good \in SUBSET DOMAIN G.moves[Here.pos]
    BY <1>6
  <2>3. Ranks(first, good) \subseteq 0 .. Len(G.moves[Node]) /\ (0 \in Ranks(first, good) => first # NoMove)
    BY <1>3, <2>1, <2>2, Ranking
  <2>4. queue \subseteq 0 .. Len(G.moves[Node]) /\ (0 \in queue => f.tt.move # NoMove)
    BY <1>7, <1>8, <2>3
  <2>. QED
    BY <1>8, <1>11, <2>4 DEF QueueOk, PlayPcs
<1>13. FrameOk(G, g, Node) /\ Succeeds(f, g, ss)
  BY <1>1, <1>3, <1>8, <1>11, <1>12, GoesToWork DEF EarlyPcs
<1>. QED
  BY <1>1, <1>2, <1>3, <1>8, <1>10, <1>11, <1>13, GoingOnHere DEF MadePcs

(* A legal move leads one ply on.                                           *)
LEMMA Moving ==
  ASSUME TreeInv, stack # << >>, f.pc \notin MadePcs, NEW m \in MovesOf(G, Node), MakeMove(m),
         NEW g, g.pc \in MadePcs, g.pc # "nullBack"
  PROVE  Advances(g)
<1>1. WellPosed(G) /\ Node \in DOMAIN G.moves /\ Here \in Plies(G)
  BY Standing, Standpoint
<1>2. m \in DOMAIN G.moves
  BY <1>1, Chess
<1>3. Here.rule50 \in Nat /\ Here.fromNull \in Nat
  BY <1>1 DEF Plies
<1>4. PICK cap : cap = (Info(Here.pos, m).cap > 0)
  OBVIOUS
<1>5. PICK x : x = [pos |-> m, rule50 |-> IF cap THEN 0 ELSE Here.rule50 + 1, fromNull |-> Here.fromNull + 1]
  OBVIOUS
<1>6. x \in Plies(G)
  BY <1>2, <1>3, <1>5 DEF Plies
<1>7. line' = Append(line, x) /\ acc' = acc + 1
  BY <1>4, <1>5 DEF MakeMove, DoMove
<1>. QED
  BY <1>6, <1>7 DEF Advances

LEMMA ProbNextKeeps == TreeInv /\ ProbNext => TreeInv'
<1>. SUFFICES ASSUME TreeInv, ProbNext PROVE TreeInv'
  OBVIOUS
<1>1. stack # << >> /\ f.kind = "search" /\ f.pc = "probNext" /\ f.pc \in EarlyPcs /\ f.pc \notin MadePcs \cup SamePcs
  BY DEF ProbNext, At, EarlyPcs, MadePcs, SamePcs
<1>2. UNCHANGED still /\ UNCHANGED <<ret, tt, nmpMinPly>>
  BY DEF ProbNext
<1>3. /\ DOMAIN f = FrameFields /\ f.depth \in Int /\ 1 <= f.depth /\ f.depth <= MaxPly /\ f.ply \in Nat /\ f.ply < MaxPly
      /\ TypedTable(G, tt) /\ FrameOk(G, f, Node) /\ WellPosed(G)
      /\ f.aim \in Int /\ f.value \in Int
      /\ f.queue \subseteq 0 .. Len(G.moves[Node]) /\ (0 \in f.queue => f.tt.move # NoMove)
  BY <1>1, AtWork DEF FrameOk, TypedFrame, FrameMoves
<1>4. CASE f.queue = {}
  <2>1. PICK g : g = [f EXCEPT !.pc = "small"]
    OBVIOUS
  <2>2. SameCall(f, g) /\ g.pc = "small" /\ g.queue = f.queue /\ g.depth = f.depth /\ g.aim = f.aim /\ g.value = f.value
    BY <1>3, <2>1 DEF SameCall, FrameFields
  <2>3. QueueOk(g)
    BY <1>1, <2>2, QueueStays DEF PlayPcs
  <2>4. FrameOk(G, g, Node) /\ Succeeds(f, g, ss)
    BY <1>1, <1>3, <2>2, <2>3, GoesToWork DEF EarlyPcs
  <2>5. Become(g) /\ UNCHANGED <<board, ss>>
    BY <1>4, <2>1 DEF ProbNext
  <2>6. Leaves(ss, ss')
    BY <1>1, <2>5, Places
  <2>. QED
    BY <1>1, <1>2, <1>3, <2>2, <2>4, <2>5, <2>6, GoingOnHere DEF MadePcs
<1>5. CASE f.queue # {}
  <2>1. PICK k \in Lowest :
          LET m == Ranked(k)
              g == [f EXCEPT !.queue = f.queue \ {k}, !.m = m]
          IN  IF m = f.excl THEN Become(g) /\ UNCHANGED <<board, nodes, ss>>
              ELSE /\ MakeMove(m)
                   /\ ss' = [ss EXCEPT ![f.ply].move = m]
                   /\ Await(g, "probBack", QSearch("NonPV", f.ply + 1, -f.aim, 1 - f.aim))
    BY <1>5 DEF ProbNext
  <2>2. PICK m \in MovesOf(G, Node) : m = Ranked(k)
    BY <1>1, Dealing
  <2>3. CASE m = f.excl
    <3>1. PICK g : g = [f EXCEPT !.queue = f.queue \ {k}, !.m = m]
      OBVIOUS
    <3>2. SameCall(f, g) /\ g.pc = "probNext" /\ g.queue = f.queue \ {k} /\ g.depth = f.depth /\ g.aim = f.aim /\ g.value = f.value
      BY <1>1, <1>3, <3>1 DEF SameCall, FrameFields
    <3>3. QueueOk(g)
      BY <1>3, <3>2 DEF QueueOk, PlayPcs
    <3>4. FrameOk(G, g, Node) /\ Succeeds(f, g, ss)
      BY <1>1, <1>3, <3>2, <3>3, GoesToWork DEF EarlyPcs
    <3>5. Become(g) /\ UNCHANGED <<board, ss>>
      BY <2>1, <2>2, <2>3, <3>1
    <3>6. Leaves(ss, ss')
      BY <1>1, <3>5, Places
    <3>. QED
      BY <1>1, <1>2, <1>3, <3>2, <3>4, <3>5, <3>6, GoingOnHere DEF MadePcs
  <2>4. CASE m # f.excl
    <3>1. PICK g : g = [[f EXCEPT !.queue = f.queue \ {k}, !.m = m] EXCEPT !.pc = "probBack"]
      OBVIOUS
    <3>2. PICK ply \in Nat, a \in Int, b \in Int : ply = f.ply + 1 /\ a = -f.aim /\ b = 1 - f.aim
      BY <1>3
    <3>3. PICK c : c = Frame("qsearch", "NonPV", ply, a, b, 0, FALSE)
      OBVIOUS
    <3>4. MakeMove(m) /\ ss' = [ss EXCEPT ![f.ply].move = m] /\ stack' = Append(Append(Front(stack), g), c)
      BY <2>1, <2>2, <2>4, <3>1, <3>2, <3>3 DEF Await, QSearch
    <3>5. \A p : FrameOk(G, c, p)
      <4>1. f.ply \in Nat /\ f.ply < MaxPly /\ f.aim \in Int
        BY <1>3
      <4>2. ply <= MaxPly /\ a < b /\ a = b - 1
        BY <3>2, <4>1, Sizes
      <4>3. PICK d \in Int : d = 0
        OBVIOUS
      <4>4. c = Frame("qsearch", "NonPV", ply, a, b, d, FALSE)
        BY <3>3, <4>3
      <4>. QED
        BY <4>2, <4>4, FreshCall
    <3>6. c.pc = "enter" /\ c.ply = f.ply + 1 /\ ~c.cut
      BY <3>2, <3>3 DEF Frame
    <3>7. /\ SameCall(f, g) /\ g.pc = "probBack" /\ g.queue = f.queue \ {k} /\ g.depth = f.depth /\ g.aim = f.aim
          /\ g.value = f.value /\ g.m = m
      BY <1>1, <1>3, <3>1 DEF SameCall, FrameFields
    <3>8. QueueOk(g)
      BY <1>3, <3>7 DEF QueueOk
    <3>9. FrameOk(G, g, Node)
      BY <1>1, <1>3, <3>7, <3>8, GoesToWork DEF EarlyPcs
    <3>10. Leaves(ss, ss')
      BY <1>1, <3>4, MarkedMove
    <3>11. Orderly
      BY <1>2, <3>10, Quiet DEF Orderly, Leaves
    <3>12. Advances(g)
      BY <1>1, <3>4, <3>7, Moving DEF MadePcs
    <3>13. Prepares(f, g, ss)
      BY <1>1, <3>7, Preparing DEF SameCall, BackPcs, MadePcs, SamePcs
    <3>14. Asks(g, c, ss')
      BY <3>6, <3>7 DEF Asks, Onward, SamePcs, SameCall
    <3>15. Verifies(f, g, c, nmpMinPly, nmpMinPly)
      BY <1>1, <3>7, NotVerifying DEF Shallowed
    <3>16. Excluding(g, ss, ss')
      BY <3>10, ReleasesNothing
    <3>. QED
      BY <1>1, <1>2, <3>4, <3>5, <3>7, <3>9, <3>11, <3>12, <3>13, <3>14, <3>15, <3>16, WaitingOn DEF SamePcs
  <2>. QED
    BY <2>3, <2>4
<1>. QED
  BY <1>4, <1>5

(* The same two, when the call may have to take its move back first.        *)
LEMMA ReturningBack ==
  ASSUME TreeInv, stack # << >>, f.pc \notin SamePcs, NEW v \in Int, NEW at, ReturnFor(v, at), Retreats,
         UNCHANGED still, UNCHANGED nmpMinPly, Leaves(ss, ss'), TypedTable(G, tt')
  PROVE  TreeInv'
<1>1. stack' = Front(stack) /\ ret'.v = v
  BY DEF ReturnFor
<1>2. Orderly
  BY <1>1, Quiet DEF Orderly, Leaves
<1>3. Releases(f, ss, ss', nmpMinPly, nmpMinPly')
  BY Releasing DEF SamePcs
<1>. QED
  BY <1>1, <1>2, <1>3, Returning

LEMMA GoingOnBack ==
  ASSUME TreeInv, stack # << >>, f.pc \notin SamePcs, NEW g, Become(g),
         (Retreats /\ g.pc \notin MadePcs) \/ Stays(g), Succeeds(f, g, ss), FrameOk(G, g, Node),
         UNCHANGED still, UNCHANGED <<ret, nmpMinPly>>, Leaves(ss, ss'), TypedTable(G, tt')
  PROVE  TreeInv'
<1>1. Orderly
  BY Quiet DEF Orderly, Leaves
<1>2. Releases(f, ss, ss', nmpMinPly, nmpMinPly')
  BY Releasing DEF SamePcs
<1>. QED
  BY <1>1, <1>2, GoingOn

LEMMA ProbBackKeeps == TreeInv /\ ProbBack => TreeInv'
<1>. SUFFICES ASSUME TreeInv, ProbBack PROVE TreeInv'
  OBVIOUS
<1>1. /\ stack # << >> /\ f.kind = "search" /\ f.pc \in {"probBack", "probDeep"} /\ f.pc \in EarlyPcs
      /\ f.pc \in MadePcs /\ f.pc \notin SamePcs /\ f.pc # "nullBack" /\ f.pc \in PlayPcs
  BY DEF ProbBack, EarlyPcs, MadePcs, SamePcs, PlayPcs
<1>2. UNCHANGED still /\ UNCHANGED <<ss, nmpMinPly>> /\ Leaves(ss, ss')
  BY <1>1, Places DEF ProbBack
<1>3. /\ DOMAIN f = FrameFields /\ f.depth \in Int /\ 1 <= f.depth /\ f.depth <= MaxPly /\ f.ply \in Nat /\ f.ply < MaxPly
      /\ TypedTable(G, tt) /\ FrameOk(G, f, Node) /\ WellPosed(G) /\ Node \in DOMAIN G.moves
      /\ f.aim \in Int /\ f.value \in Int /\ f.beta \in Int /\ f.uns \in Int /\ f.m \in MovesOf(G, Node)
  BY <1>1, AtWork DEF FrameOk, TypedFrame, FrameMoves
<1>4. PICK v \in Int : v = -ret.v
  BY DEF TreeInv
<1>5. PICK back : back = line[Len(line) - 1]
  OBVIOUS
<1>6. PICK saved : saved = Save(tt[back.pos], ValueToTT(v, f.ply), S(0).ttPv, BoundLower, ProbCutDepth + 1, f.m, f.uns)
  OBVIOUS
<1>7. back.pos = Node
  BY <1>1, <1>5, LineShrinks DEF Node
<1>8. \/ /\ Await(f, "probDeep", Search("NonPV", f.ply + 1, -f.aim, 1 - f.aim, ProbCutDepth, ~f.cut))
         /\ UNCHANGED <<board, tt, ret>>
      \/ /\ UndoMove
         /\ tt' = [tt EXCEPT ![back.pos] = saved] \/ UNCHANGED tt
         /\ \/ Become([f EXCEPT !.pc = "probNext"]) /\ UNCHANGED ret
            \/ ReturnFor(v - (f.aim - f.beta), back)
  BY <1>4, <1>5, <1>6 DEF ProbBack
<1>9. CASE /\ Await(f, "probDeep", Search("NonPV", f.ply + 1, -f.aim, 1 - f.aim, ProbCutDepth, ~f.cut))
           /\ UNCHANGED <<board, tt, ret>>
  <2>1. PICK g : g = [f EXCEPT !.pc = "probDeep"]
    OBVIOUS
  <2>2. PICK ply \in Nat, a \in Int, b \in Int : ply = f.ply + 1 /\ a = -f.aim /\ b = 1 - f.aim
    BY <1>3
  <2>3. PICK d \in Int : d = ProbCutDepth
    BY <1>3 DEF ProbCutDepth
  <2>4. PICK cut : cut = ~f.cut
    OBVIOUS
  <2>5. PICK c : c = Frame("search", "NonPV", ply, a, b, d, cut)
    OBVIOUS
  <2>6. stack' = Append(Append(Front(stack), g), c)
    BY <1>9, <2>1, <2>2, <2>3, <2>4, <2>5 DEF Await, Search
  <2>7. \A p : FrameOk(G, c, p)
    <3>1. f.ply \in Nat /\ f.ply < MaxPly /\ f.aim \in Int
      BY <1>3
    <3>2. ply <= MaxPly /\ a < b /\ a = b - 1 /\ ply > 0
      BY <2>2, <3>1, Sizes
    <3>. QED
      BY <2>5, <3>2, FreshCall
  <2>8. c.pc = "enter" /\ c.ply = f.ply + 1
    BY <2>2, <2>5 DEF Frame
  <2>9. /\ SameCall(f, g) /\ g.pc = "probDeep" /\ g.queue = f.queue /\ g.depth = f.depth /\ g.aim = f.aim
        /\ g.value = f.value /\ g.m = f.m
    BY <1>3, <2>1 DEF SameCall, FrameFields
  <2>10. QueueOk(g)
    BY <1>1, <2>9, QueueStays
  <2>11. FrameOk(G, g, Node)
    BY <1>1, <1>3, <2>9, <2>10, GoesToWork DEF EarlyPcs
  <2>12. Orderly
    BY <1>2, <1>9, Quiet
  <2>13. Stays(g)
    BY <1>1, <1>9, <2>9 DEF Stays, MadePcs
  <2>14. Prepares(f, g, ss)
    BY <1>1, <2>9, Preparing DEF SameCall, BackPcs, MadePcs, SamePcs
  <2>15. Asks(g, c, ss')
    BY <2>8, <2>9 DEF Asks, Onward, SamePcs, SameCall
  <2>16. Verifies(f, g, c, nmpMinPly, nmpMinPly')
    BY <1>1, <1>2, <2>9, NotVerifying DEF Shallowed
  <2>17. Excluding(g, ss, ss')
    BY <1>2, ReleasesNothing
  <2>. QED
    BY <1>1, <2>6, <2>7, <2>9, <2>11, <2>12, <2>13, <2>14, <2>15, <2>16, <2>17, WaitingOn DEF SamePcs
<1>10. CASE /\ UndoMove
            /\ tt' = [tt EXCEPT ![back.pos] = saved] \/ UNCHANGED tt
            /\ \/ Become([f EXCEPT !.pc = "probNext"]) /\ UNCHANGED ret
               \/ ReturnFor(v - (f.aim - f.beta), back)
  <2>1. Retreats
    BY <1>1, <1>10 DEF Retreats, UndoMove
  <2>2. TypedTable(G, tt')
    <3>1. PICK w \in Int : w = ValueToTT(v, f.ply)
      BY <1>3, Conversions
    <3>2. TypedEntry(G, tt[Node], Node) /\ f.m \in MaybeMove(G, Node)
      BY <1>3 DEF TypedTable, MaybeMove
    <3>3. TypedEntry(G, saved, Node)
      BY <1>3, <1>6, <1>7, <3>1, <3>2, Saving
    <3>4. PICK t : t = [tt EXCEPT ![Node] = saved]
      OBVIOUS
    <3>5. TypedTable(G, t)
      BY <1>3, <3>3, <3>4 DEF TypedTable
    <3>. QED
      BY <1>3, <1>7, <1>10, <3>4, <3>5
  <2>3. CASE Become([f EXCEPT !.pc = "probNext"]) /\ UNCHANGED ret
    <3>1. PICK g : g = [f EXCEPT !.pc = "probNext"]
      OBVIOUS
    <3>2. SameCall(f, g) /\ g.pc = "probNext" /\ g.queue = f.queue /\ g.depth = f.depth /\ g.aim = f.aim /\ g.value = f.value
      BY <1>3, <3>1 DEF SameCall, FrameFields
    <3>3. QueueOk(g)
      BY <1>1, <3>2, QueueStays DEF PlayPcs
    <3>4. FrameOk(G, g, Node) /\ Succeeds(f, g, ss)
      BY <1>1, <1>3, <3>2, <3>3, GoesToWork DEF EarlyPcs
    <3>. QED
      BY <1>1, <1>2, <2>1, <2>2, <2>3, <3>1, <3>2, <3>4, GoingOnBack DEF MadePcs
  <2>4. CASE ReturnFor(v - (f.aim - f.beta), back)
    <3>1. PICK w \in Int : w = v - (f.aim - f.beta)
      BY <1>3
    <3>. QED
      BY <1>1, <1>2, <2>1, <2>2, <2>4, <3>1, ReturningBack
  <2>. QED
    BY <1>10, <2>3, <2>4
<1>. QED
  BY <1>8, <1>9, <1>10

(* A search in its move loop, and what it may become there.                 *)
LEMMA InLoop ==
  ASSUME TreeInv, stack # << >>, f.kind = "search", f.pc \in LoopPcs
  PROVE  /\ FrameOk(G, f, Node) /\ DOMAIN f = FrameFields /\ f.ply \in Nat /\ f.ply < MaxPly
         /\ f.depth \in Int /\ 1 <= f.depth /\ f.depth <= MaxPly + 1
         /\ f.depth <= MaxPly + (IF f.pc # "singularBack" /\ 0 \notin f.queue THEN 1 ELSE 0)
         /\ f.alpha \in Int /\ f.beta \in Int /\ f.alpha < f.beta /\ f.best \in Int
         /\ (f.pc # "finish" => f.best <= f.alpha)
         /\ f.mc \in Nat /\ f.mc < MaxMoves /\ f.newDepth \in Int /\ f.ext \in Int /\ f.d \in Int /\ f.r \in Int
         /\ f.aim \in Int /\ f.value \in Int /\ f.eval \in Int /\ f.max \in Int
         /\ WellPosed(G) /\ TypedTable(G, tt) /\ f.tt.value \in Int /\ f.uns \in Int
         /\ Node \in DOMAIN G.moves /\ (f.pc \notin MadePcs => Here.pos = Node)
<1>1. FrameOk(G, f, Node) /\ WellPosed(G) /\ TypedTable(G, tt)
  BY Standing DEF TreeInv
<1>2. TypedFrame(f) /\ FrameMoves(G, f, Node) /\ FrameWindow(f) /\ FrameProgress(f)
  BY <1>1 DEF FrameOk
<1>3. /\ DOMAIN f = FrameFields /\ f.uns \in Int /\ f.eval \in Int /\ f.max \in Int
      /\ f.ply \in Nat /\ f.depth \in Int /\ f.alpha \in Int /\ f.beta \in Int /\ f.best \in Int
      /\ f.mc \in Nat /\ f.newDepth \in Int /\ f.ext \in Int /\ f.d \in Int /\ f.r \in Int
      /\ f.aim \in Int /\ f.value \in Int
  BY <1>2 DEF TypedFrame
<1>4. f.pc # "enter"
  BY DEF LoopPcs
<1>5. 1 <= f.depth /\ f.mc < MaxMoves /\ f.ply < MaxPly /\ (f.pc # "finish" => f.best <= f.alpha)
  BY <1>2, <1>4 DEF FrameProgress
<1>6. f.depth <= MaxPly + (IF f.pc # "singularBack" /\ 0 \notin f.queue THEN 1 ELSE 0)
  BY <1>2, <1>4 DEF FrameProgress
<1>7. f.depth <= MaxPly + 1
  BY <1>3, <1>6, Sizes
<1>8. f.tt.value \in Int /\ f.alpha < f.beta
  BY <1>2 DEF FrameMoves, TypedEntry, FrameWindow
<1>9. Node \in DOMAIN G.moves /\ (f.pc \notin MadePcs => Here.pos = Node)
  BY Standpoint, LineShrinks
<1>. QED
  BY <1>1, <1>3, <1>5, <1>6, <1>7, <1>8, <1>9

SameNode(r, g) ==
  /\ DOMAIN g = FrameFields
  /\ g.kind = r.kind /\ g.type = r.type /\ g.ply = r.ply /\ g.beta = r.beta
  /\ g.cut = r.cut /\ g.excl = r.excl /\ g.tt = r.tt /\ g.uns = r.uns /\ g.eval = r.eval
  /\ g.max = r.max /\ g.base = r.base

LoopTyped(g) ==
  /\ g.depth \in Int /\ g.best \in Int /\ g.ext \in Int /\ g.newDepth \in Int /\ g.d \in Int
  /\ g.r \in Int /\ g.aim \in Int /\ g.value \in Int /\ g.mc \in Nat
  /\ g.bestMove \in MaybeMove(G, Node)
  /\ g.pc \in PlayPcs => g.m \in MovesOf(G, Node)

LoopQueue(g) ==
  /\ g.queue \subseteq 0 .. Len(G.moves[Node]) /\ (0 \in g.queue => f.tt.move # NoMove)
  /\ \A k \in g.queue : g.mc <= k /\ (k # 0 => G.moves[Node][k].to # f.tt.move)

LoopBounds(g) ==
  /\ 1 <= g.depth /\ g.depth <= MaxPly + (IF g.pc # "singularBack" /\ 0 \notin g.queue THEN 1 ELSE 0)
  /\ g.mc < MaxMoves
  /\ g.pc = "singularBack" => 0 \notin g.queue /\ f.excl = NoMove
  /\ g.pc # "finish" => g.best <= g.alpha

LoopWindow(g) ==
  g.alpha \in Int /\ f.alpha <= g.alpha /\ g.alpha < f.beta /\ (f.type = "NonPV" => g.alpha = f.alpha)

LEMMA GoesRound ==
  ASSUME TreeInv, stack # << >>, f.kind = "search", f.pc \in LoopPcs \cup EarlyPcs, NEW g,
         SameNode(f, g), g.pc \in LoopPcs, LoopTyped(g), LoopQueue(g), LoopBounds(g), LoopWindow(g)
  PROVE  FrameOk(G, g, Node) /\ (g.pc # "singularBack" => Succeeds(f, g, ss))
<1>1. FrameOk(G, f, Node) /\ f.pc \notin {"enter", "probe"}
  BY Standing DEF EarlyPcs, LoopPcs
<1>2. TypedFrame(f) /\ FrameMoves(G, f, Node) /\ FrameWindow(f) /\ FrameProgress(f)
  BY <1>1 DEF FrameOk
<1>3. TypedFrame(g)
  BY <1>2 DEF TypedFrame, SameNode, LoopTyped, LoopWindow
<1>4. FrameMoves(G, g, Node)
  BY <1>2 DEF FrameMoves, SameNode, LoopQueue, LoopTyped
<1>5. -ValueInfinite <= g.alpha
  <2>1. -ValueInfinite <= f.alpha /\ f.alpha \in Int
    BY <1>1, <1>2 DEF FrameProgress, TypedFrame
  <2>. QED
    BY <2>1 DEF LoopWindow, ValueInfinite
<1>6. FrameWindow(g)
  BY <1>2, <1>5 DEF FrameWindow, SameNode, LoopWindow
<1>7. FrameProgress(g)
  <2>1. f.ply < MaxPly
    BY <1>1, <1>2 DEF FrameProgress
  <2>2. g.pc \in SearchPcs /\ g.pc \notin {"enter", "probe", "nullBack", "verifyBack"}
    BY DEF LoopPcs, SearchPcs
  <2>. QED
    BY <1>5, <2>1, <2>2 DEF FrameProgress, SameNode, LoopBounds
<1>8. g.pc # "singularBack" => Succeeds(f, g, ss)
  BY <1>1 DEF Succeeds, SameNode, LoopPcs, Excludes, Shallowed
<1>. QED
  BY <1>3, <1>4, <1>6, <1>7, <1>8 DEF FrameOk

LEMMA SmallKeeps == TreeInv /\ Small => TreeInv'
<1>. SUFFICES ASSUME TreeInv, Small PROVE TreeInv'
  OBVIOUS
<1>1. stack # << >> /\ f.kind = "search" /\ f.pc = "small" /\ f.pc \in EarlyPcs /\ f.pc \notin MadePcs \cup SamePcs
  BY DEF Small, At, EarlyPcs, MadePcs, SamePcs
<1>2. UNCHANGED still /\ UNCHANGED <<board, ss, tt, nmpMinPly>> /\ Leaves(ss, ss')
  BY <1>1, Places DEF Small
<1>3. /\ DOMAIN f = FrameFields /\ f.depth \in Int /\ 1 <= f.depth /\ f.depth <= MaxPly /\ f.mc = 0
      /\ TypedTable(G, tt) /\ FrameOk(G, f, Node) /\ WellPosed(G) /\ Node \in DOMAIN G.moves /\ Here.pos = Node
      /\ f.beta \in Int /\ f.alpha \in Int /\ f.alpha < f.beta /\ f.best \in Int /\ f.best <= f.alpha
  BY <1>1, AtWork
<1>4. PICK listed : listed = { k \in DOMAIN G.moves[Here.pos] : ~rootNode \/ k > G.pvIdx }
  OBVIOUS
<1>5. \/ Return(f.beta + 428)
      \/ UNCHANGED ret /\ Become([f EXCEPT !.pc = "loop", !.value = f.best, !.queue = Ranks(f.tt.move, listed)])
  BY <1>4 DEF Small
<1>6. CASE Return(f.beta + 428)
  <2>1. PICK v \in Int : v = f.beta + 428
    BY <1>3
  <2>. QED
    BY <1>1, <1>2, <1>3, <1>6, <2>1, ReturningHere DEF Return
<1>7. CASE UNCHANGED ret /\ Become([f EXCEPT !.pc = "loop", !.value = f.best, !.queue = Ranks(f.tt.move, listed)])
  <2>1. PICK queue : queue = Ranks(f.tt.move, listed)
    OBVIOUS
  <2>2. PICK g : g = [f EXCEPT !.pc = "loop", !.value = f.best, !.queue = queue]
    OBVIOUS
  <2>3. /\ DOMAIN g = FrameFields /\ g.pc = "loop" /\ g.value = f.best /\ g.queue = queue
        /\ \A x \in FrameFields \ {"pc", "value", "queue"} : g[x] = f[x]
    BY <1>3, <2>2 DEF FrameFields
  <2>4. SameNode(f, g)
    BY <2>3 DEF SameNode, FrameFields
  <2>5. g.mc = 0 /\ g.depth = f.depth /\ g.best = f.best /\ g.alpha = f.alpha
    BY <1>3, <2>3 DEF FrameFields
  <2>6. LoopTyped(g)
    BY <1>3, <2>3 DEF LoopTyped, FrameOk, TypedFrame, FrameMoves, FrameFields, PlayPcs
  <2>7. LoopQueue(g)
    <3>1. Len(G.moves[Here.pos]) \in Nat /\ DOMAIN G.moves[Here.pos] = 1 .. Len(G.moves[Here.pos])
      BY <1>3, Chess
    <3>2. listed \in SUBSET DOMAIN G.moves[Here.pos]
      BY <1>4
    <3>3. PICK first : first = f.tt.move
      OBVIOUS
    <3>4. /\ queue \subseteq 0 .. Len(G.moves[Node]) /\ (0 \in queue => first # NoMove)
          /\ \A k \in queue : k # 0 => G.moves[Node][k].to # first
      BY <1>3, <2>1, <3>1, <3>2, <3>3, Ranking
    <3>5. ASSUME NEW k \in queue PROVE g.mc <= k
      <4>1. PICK L \in Nat : L = Len(G.moves[Node])
        BY <1>3, <3>1
      <4>2. k \in 0 .. L
        BY <3>4, <4>1
      <4>. QED
        BY <2>5, <4>2
    <3>. QED
      BY <2>3, <3>3, <3>4, <3>5 DEF LoopQueue
  <2>8. LoopBounds(g)
    BY <1>3, <2>3, <2>5, Sizes DEF LoopBounds
  <2>9. LoopWindow(g)
    BY <1>3, <2>5 DEF LoopWindow
  <2>10. FrameOk(G, g, Node) /\ Succeeds(f, g, ss)
    BY <1>1, <2>3, <2>4, <2>6, <2>7, <2>8, <2>9, GoesRound DEF LoopPcs
  <2>. QED
    BY <1>1, <1>2, <1>3, <1>7, <2>1, <2>2, <2>3, <2>10, GoingOnHere DEF MadePcs
<1>. QED
  BY <1>5, <1>6, <1>7

(* The numbers the move loop works with.                                    *)
LEMMA TableOfReductions ==
  ASSUME NEW depth \in 0 .. MaxMoves - 1, NEW mc \in 0 .. MaxMoves - 1, NEW improving
  PROVE  reduction(improving, depth, mc) \in Int
<1>1. PICK x \in Nat, y \in Nat : x = reductions[depth] /\ y = reductions[mc]
  BY ReductionsAssumption
<1>2. PICK s \in Nat : s = x * y
  OBVIOUS
<1>3. PICK t \in Int : t = (s * 197) \div 512
  OBVIOUS
<1>4. PICK b \in {0, 1} : b = Bit(~improving)
  BY DEF Bit
<1>5. PICK bt \in Int : bt = b * t
  BY <1>4
<1>6. reduction(improving, depth, mc) = s + bt + 948
  BY <1>1, <1>2, <1>3, <1>4, <1>5 DEF reduction
<1>. QED
  BY <1>2, <1>5, <1>6

LEMMA QuietDepthType ==
  ASSUME f.depth \in Int, 1 <= f.depth, NEW i, i.hist \in Int, NEW r \in Int, S(0).static \in Int
  PROVE  QuietDepth(i, r) \in Int /\ QuietFutility(i, r) \in Int
<1>1. PICK d \in 1 .. 16 : d = Min2(f.depth, 16)
  BY DEF Min2
<1>2. PICK e \in -7 .. 8 : e = d - 8
  BY <1>1
<1>3. PICK q \in Nat : q = e * e
  BY <1>2
<1>4. lmr_divisor(f.depth) = 3000 + 7 * q
  <2>1. lmr_divisor(f.depth) = 3000 + 7 * e * e
    BY <1>1, <1>2 DEF lmr_divisor
  <2>2. 7 * e * e = 7 * (e * e)
    BY <1>2
  <2>. QED
    BY <1>3, <2>1, <2>2
<1>5. PICK n \in Int : n = lmr_divisor(f.depth) /\ n > 0
  BY <1>3, <1>4
<1>6. PICK h \in Int : h = Quot2(i.hist, n)
  BY <1>5, Quotients
<1>7. PICK z \in Int : z = Shallow(r)
  <2>1. PICK w \in Int : w = Quot2(r, 1024)
    BY Quotients
  <2>. QED
    BY <2>1 DEF Shallow
<1>8. QuietDepth(i, r) = z + h
  BY <1>5, <1>6, <1>7 DEF QuietDepth
<1>9. PICK b \in {0, 1} : b = Bit(S(0).static > f.alpha)
  BY DEF Bit
<1>10. PICK s \in Int : s = S(0).static
  OBVIOUS
<1>11. QuietFutility(i, r) = s + 119 * (z + h) + 90 * b + 164
  BY <1>8, <1>9, <1>10 DEF QuietFutility
<1>. QED
  BY <1>6, <1>7, <1>8, <1>9, <1>10, <1>11

(* A pruning may raise the best value, though never past alpha.             *)
LEMMA RaisedStays ==
  ASSUME f.depth \in Int, 1 <= f.depth, NEW i, i.hist \in Int, NEW r \in Int, S(0).static \in Int,
         f.best \in Int, f.alpha \in Int, f.best <= f.alpha
  PROVE  RaisedBest(i, r) \in Int /\ RaisedBest(i, r) <= f.alpha
<1>1. PICK v \in Int : v = QuietFutility(i, r)
  BY QuietDepthType
<1>2. PrunedByFutility(i, r) => v <= f.alpha
  BY <1>1 DEF PrunedByFutility
<1>3. RaisedBest(i, r) = f.best \/ (PrunedByFutility(i, r) /\ RaisedBest(i, r) = v)
  BY <1>1 DEF RaisedBest
<1>. QED
  BY <1>1, <1>2, <1>3

(* What is left of the queue when its lowest rank is dealt.                 *)
LEMMA QueueShrinks ==
  ASSUME TreeInv, stack # << >>, f.kind = "search", f.pc = "loop", NEW k \in Lowest
  PROVE  /\ f.mc + 1 < MaxMoves /\ 0 \notin f.queue \ {k}
         /\ f.queue \ {k} \subseteq 0 .. Len(G.moves[Node])
         /\ \A j \in f.queue \ {k} : f.mc + 1 <= j /\ f.mc <= j /\ (j # 0 => G.moves[Node][j].to # f.tt.move)
         /\ Ranked(k) = f.tt.move => f.depth <= MaxPly
<1>1. f.pc \in LoopPcs /\ f.pc \notin MadePcs
  BY DEF LoopPcs, MadePcs
<1>2. FrameOk(G, f, Node) /\ f.mc \in Nat /\ WellPosed(G) /\ Node \in DOMAIN G.moves /\ Here.pos = Node
  BY <1>1, InLoop
<1>3. /\ f.queue \subseteq 0 .. Len(G.moves[Node])
      /\ \A j \in f.queue : f.mc <= j /\ (j # 0 => G.moves[Node][j].to # f.tt.move)
  BY <1>1, <1>2 DEF FrameOk, FrameMoves
<1>4. /\ k \in f.queue /\ k \in 0 .. Len(G.moves[Node]) /\ \A j \in f.queue \ {k} : k < j
  BY <1>1, Dealing
<1>5. PICK L \in Nat : L = Len(G.moves[Node]) /\ L + 1 < MaxMoves
  BY <1>2, Chess
<1>6. f.mc + 1 < MaxMoves
  <2>1. f.mc <= k /\ k \in Int /\ k <= L
    BY <1>3, <1>4, <1>5
  <2>. QED
    BY <1>2, <1>5, <2>1, Sizes
<1>7. ASSUME NEW j \in f.queue \ {k}
      PROVE  f.mc + 1 <= j /\ f.mc <= j /\ j # 0
  <2>1. j \in 0 .. L /\ k \in 0 .. L /\ f.mc <= k /\ k < j
    BY <1>3, <1>4, <1>5, <1>7
  <2>. QED
    BY <1>2, <2>1
<1>8. ASSUME Ranked(k) = f.tt.move PROVE f.depth <= MaxPly
  <2>1. k = 0
    BY <1>2, <1>3, <1>4, <1>8 DEF Ranked
  <2>2. 0 \in f.queue
    BY <1>4, <2>1
  <2>. QED
    <3>1. f.depth <= MaxPly + (IF f.pc # "singularBack" /\ 0 \notin f.queue THEN 1 ELSE 0)
      BY <1>1, InLoop
    <3>2. f.depth <= MaxPly + 0
      BY <2>2, <3>1
    <3>. QED
      BY <3>2, Sizes
<1>. QED
  BY <1>3, <1>6, <1>7, <1>8

LEMMA LoopKeeps == TreeInv /\ Loop => TreeInv'
<1>. SUFFICES ASSUME TreeInv, Loop PROVE TreeInv'
  OBVIOUS
<1>1. /\ stack # << >> /\ f.kind = "search" /\ f.pc = "loop" /\ f.pc \in LoopPcs
      /\ f.pc \notin MadePcs \cup SamePcs \cup {"enter", "probe", "finish"}
  BY DEF Loop, At, LoopPcs, MadePcs, SamePcs
<1>2. UNCHANGED still /\ UNCHANGED <<board, ret, tt, nmpMinPly>>
  BY DEF Loop
<1>3. /\ DOMAIN f = FrameFields /\ f.depth \in Int /\ 1 <= f.depth /\ f.depth <= MaxPly + 1 /\ f.ply \in Nat
      /\ f.ply < MaxPly /\ f.mc \in Nat /\ f.mc < MaxMoves
      /\ TypedTable(G, tt) /\ FrameOk(G, f, Node) /\ WellPosed(G) /\ Node \in DOMAIN G.moves /\ Here.pos = Node
      /\ f.beta \in Int /\ f.alpha \in Int /\ f.alpha < f.beta /\ f.best \in Int /\ f.best <= f.alpha
  BY <1>1, InLoop
<1>a. f.depth <= MaxPly + (IF 0 \notin f.queue THEN 1 ELSE 0)
  BY <1>1, InLoop
<1>4. /\ f.queue \subseteq 0 .. Len(G.moves[Node]) /\ (0 \in f.queue => f.tt.move # NoMove)
      /\ f.bestMove \in MaybeMove(G, Node) /\ f.ext \in Int /\ f.newDepth \in Int /\ f.d \in Int
      /\ f.r \in Int /\ f.aim \in Int /\ f.value \in Int /\ f.tt.value \in Int
  BY <1>3 DEF FrameOk, FrameMoves, TypedFrame, TypedEntry
<1>5. CASE f.queue = {}
  <2>1. PICK g : g = [f EXCEPT !.pc = "finish"]
    OBVIOUS
  <2>2. DOMAIN g = FrameFields /\ g.pc = "finish" /\ \A x \in FrameFields \ {"pc"} : g[x] = f[x]
    BY <1>3, <2>1 DEF FrameFields
  <2>3. SameNode(f, g) /\ g.queue = {} /\ g.depth = f.depth /\ g.mc = f.mc /\ g.alpha = f.alpha
    BY <1>5, <2>2 DEF SameNode, FrameFields
  <2>4. LoopTyped(g)
    BY <1>3, <1>4, <2>2 DEF LoopTyped, FrameFields, PlayPcs
  <2>5. LoopQueue(g) /\ LoopBounds(g) /\ LoopWindow(g)
    BY <1>3, <2>2, <2>3, Sizes DEF LoopQueue, LoopBounds, LoopWindow
  <2>6. FrameOk(G, g, Node) /\ Succeeds(f, g, ss)
    BY <1>1, <2>2, <2>3, <2>4, <2>5, GoesRound DEF LoopPcs
  <2>7. Become(g) /\ UNCHANGED ss
    BY <1>5, <2>1 DEF Loop
  <2>8. Leaves(ss, ss')
    BY <1>1, <2>7, Places
  <2>. QED
    BY <1>1, <1>2, <1>3, <2>2, <2>6, <2>7, <2>8, GoingOnHere DEF MadePcs
<1>6. CASE f.queue # {}
  <2>1. PICK k \in Lowest :
     LET m == Ranked(k)
         i == Info(Here.pos, m)
         mc == f.mc + 1
         r == reduction(f.improving, f.depth, mc) - 512 * Bit(PvNode) + 929 * Bit(S(0).ttPv)
         skip == f.skip \/ (PrunesHere /\ mc >= QuietLimit)
         rest == [f EXCEPT !.queue = f.queue \ {k}]
         g == [rest EXCEPT !.m = m, !.mc = mc, !.r = r, !.skip = skip, !.ext = 0, !.newDepth = f.depth - 1]
         pruned == PrunesHere /\ (PrunedNoisy(i, r) \/ PrunedByHistory(i) \/ PrunedByFutility(i, r)
                                    \/ PrunedByExchange(i, r))
     IN  \/ /\ m = f.excl \/ (f.skip /\ i.cap = 0 /\ m # f.tt.move /\ ~S(0).inCheck)
            /\ Become(rest) /\ UNCHANGED ss
         \/ /\ ~(m = f.excl \/ (f.skip /\ i.cap = 0 /\ m # f.tt.move /\ ~S(0).inCheck))
            /\ \/ pruned /\ Become([g EXCEPT !.best = RaisedBest(i, r)]) /\ UNCHANGED ss
               \/ /\ ~pruned /\ Singular(m)
                  /\ ss' = [ss EXCEPT ![f.ply].excluded = m]
                  /\ Await([g EXCEPT !.aim = singularBeta], "singularBack",
                           Search("NonPV", f.ply, singularBeta - 1, singularBeta, (f.depth - 1) \div 2, f.cut))
               \/ ~pruned /\ ~Singular(m) /\ Become([g EXCEPT !.pc = "make"]) /\ UNCHANGED ss
    BY <1>6 DEF Loop
  <2>2. PICK m \in MovesOf(G, Node) : m = Ranked(k)
    BY <1>1, Dealing
  <2>3. PICK i : i = Info(Here.pos, m)
    OBVIOUS
  <2>4. PICK mc \in Nat : mc = f.mc + 1
    BY <1>3
  <2>5. PICK r \in Int : r = reduction(f.improving, f.depth, mc) - 512 * Bit(PvNode) + 929 * Bit(S(0).ttPv)
    <3>1. mc < MaxMoves
      BY <1>1, <2>4, QueueShrinks
    <3>2. f.depth \in 0 .. MaxMoves - 1 /\ mc \in 0 .. MaxMoves - 1
      BY <1>3, <3>1, Sizes
    <3>3. PICK x \in Int : x = reduction(f.improving, f.depth, mc)
      BY <3>2, TableOfReductions
    <3>4. PICK a \in {0, 1}, b \in {0, 1} : a = Bit(PvNode) /\ b = Bit(S(0).ttPv)
      BY DEF Bit
    <3>. QED
      BY <3>3, <3>4
  <2>6. PICK skip : skip = (f.skip \/ (PrunesHere /\ mc >= QuietLimit))
    OBVIOUS
  <2>7. PICK rest : rest = [f EXCEPT !.queue = f.queue \ {k}]
    OBVIOUS
  <2>8. PICK g : g = [rest EXCEPT !.m = m, !.mc = mc, !.r = r, !.skip = skip, !.ext = 0, !.newDepth = f.depth - 1]
    OBVIOUS
  <2>9. \/ Become(rest) /\ UNCHANGED ss
        \/ Become([g EXCEPT !.best = RaisedBest(i, r)]) /\ UNCHANGED ss
        \/ /\ Singular(m)
           /\ ss' = [ss EXCEPT ![f.ply].excluded = m]
           /\ Await([g EXCEPT !.aim = singularBeta], "singularBack",
                    Search("NonPV", f.ply, singularBeta - 1, singularBeta, (f.depth - 1) \div 2, f.cut))
        \/ Become([g EXCEPT !.pc = "make"]) /\ UNCHANGED ss
    BY <2>1, <2>2, <2>3, <2>4, <2>5, <2>6, <2>7, <2>8
  <2>10. /\ f.mc + 1 < MaxMoves /\ 0 \notin f.queue \ {k}
         /\ f.queue \ {k} \subseteq 0 .. Len(G.moves[Node])
         /\ \A j \in f.queue \ {k} : f.mc + 1 <= j /\ f.mc <= j /\ (j # 0 => G.moves[Node][j].to # f.tt.move)
    BY <1>1, QueueShrinks
  <2>11. /\ DOMAIN rest = FrameFields /\ rest.queue = f.queue \ {k}
         /\ \A x \in FrameFields \ {"queue"} : rest[x] = f[x]
    BY <1>3, <2>7 DEF FrameFields
  <2>12. /\ DOMAIN g = FrameFields /\ g.m = m /\ g.mc = mc /\ g.r = r /\ g.ext = 0 /\ g.newDepth = f.depth - 1
         /\ g.queue = f.queue \ {k}
         /\ \A x \in FrameFields \ {"queue", "m", "mc", "r", "skip", "ext", "newDepth"} : g[x] = f[x]
    BY <2>8, <2>11 DEF FrameFields
  <2>13. CASE Become(rest) /\ UNCHANGED ss
    <3>1. SameNode(f, rest) /\ rest.pc = "loop" /\ rest.depth = f.depth /\ rest.mc = f.mc /\ rest.alpha = f.alpha /\ rest.best = f.best
      BY <1>1, <2>11 DEF SameNode, FrameFields
    <3>2. LoopTyped(rest)
      BY <1>3, <1>4, <2>11, <3>1 DEF LoopTyped, FrameFields, PlayPcs
    <3>3. LoopQueue(rest) /\ LoopBounds(rest) /\ LoopWindow(rest)
      BY <1>3, <2>10, <2>11, <3>1, Sizes DEF LoopQueue, LoopBounds, LoopWindow
    <3>4. FrameOk(G, rest, Node) /\ Succeeds(f, rest, ss)
      BY <1>1, <3>1, <3>2, <3>3, GoesRound
    <3>5. Leaves(ss, ss')
      BY <1>1, <2>13, Places
    <3>. QED
      BY <1>1, <1>2, <1>3, <2>13, <3>1, <3>4, <3>5, GoingOnHere DEF MadePcs
  <2>14. CASE Become([g EXCEPT !.best = RaisedBest(i, r)]) /\ UNCHANGED ss
    <3>1. PICK best \in Int : best = RaisedBest(i, r) /\ best <= f.alpha
      <4>1. i.hist \in Int
        BY <1>3, <2>3, InfoOf
      <4>2. S(0).static \in Int
        BY <1>1, Statics
      <4>. QED
        BY <1>3, <4>1, <4>2, RaisedStays
    <3>2. PICK h : h = [g EXCEPT !.best = best]
      OBVIOUS
    <3>3. /\ DOMAIN h = FrameFields /\ h.best = best
          /\ \A x \in FrameFields \ {"best"} : h[x] = g[x]
      BY <2>12, <3>2 DEF FrameFields
    <3>4. /\ SameNode(f, h) /\ h.pc = "loop" /\ h.depth = f.depth /\ h.mc = f.mc + 1 /\ h.alpha = f.alpha
          /\ h.queue = f.queue \ {k}
      BY <1>1, <2>4, <2>12, <3>3 DEF SameNode, FrameFields
    <3>5. LoopTyped(h)
      <4>1. /\ h.ext = g.ext /\ h.newDepth = g.newDepth /\ h.d = g.d /\ h.r = g.r
            /\ h.value = g.value /\ h.bestMove = g.bestMove /\ h.m = g.m
        BY <3>3, <3>4 DEF FrameFields
      <4>2. h.aim \in Int
        BY <1>4, <2>12, <3>3, <3>4 DEF FrameFields
      <4>3. h.best \in Int
        BY <1>3, <2>12, <3>3, <3>4 DEF FrameFields
      <4>4. /\ g.ext = 0 /\ g.newDepth = f.depth - 1 /\ g.d = f.d /\ g.r = r
            /\ g.value = f.value /\ g.bestMove = f.bestMove /\ g.m = m
        BY <2>12 DEF FrameFields
      <4>. QED
        BY <1>3, <1>4, <2>4, <4>1, <4>2, <4>3, <4>4, <3>3, <3>4 DEF LoopTyped
    <3>6. LoopQueue(h) /\ LoopBounds(h) /\ LoopWindow(h)
      BY <1>3, <2>10, <3>1, <3>3, <3>4, Sizes DEF LoopQueue, LoopBounds, LoopWindow
    <3>7. FrameOk(G, h, Node) /\ Succeeds(f, h, ss)
      BY <1>1, <3>4, <3>5, <3>6, GoesRound
    <3>8. Leaves(ss, ss')
      BY <1>1, <2>14, Places
    <3>. QED
      BY <1>1, <1>2, <1>3, <2>14, <3>1, <3>2, <3>4, <3>7, <3>8, GoingOnHere DEF MadePcs
  <2>15. CASE /\ Singular(m)
              /\ ss' = [ss EXCEPT ![f.ply].excluded = m]
              /\ Await([g EXCEPT !.aim = singularBeta], "singularBack",
                       Search("NonPV", f.ply, singularBeta - 1, singularBeta, (f.depth - 1) \div 2, f.cut))
    <3>1. m = f.tt.move /\ f.excl = NoMove /\ f.depth >= 6
      <4>1. PICK b \in {0, 1} : b = Bit(S(0).ttPv)
        BY DEF Bit
      <4>2. m = f.tt.move /\ f.excl = NoMove /\ f.depth >= 6 + b
        BY <2>15, <4>1 DEF Singular
      <4>. QED
        BY <1>3, <4>1, <4>2
    <3>2. PICK aim \in Int : aim = singularBeta
      <4>1. PICK b \in {0, 1} : b = Bit(S(0).ttPv /\ ~PvNode)
        BY DEF Bit
      <4>2. PICK e \in Int : e = (59 + 66 * b) * f.depth
        BY <1>3, <4>1
      <4>3. PICK q \in Int : q = Quot2(e, 63)
        BY Quotients
      <4>4. singularBeta = f.tt.value - q
        BY <4>1, <4>2, <4>3 DEF singularBeta
      <4>. QED
        BY <1>4, <4>4
    <3>3. PICK h : h = [[g EXCEPT !.aim = aim] EXCEPT !.pc = "singularBack"]
      OBVIOUS
    <3>a. PICK cut : cut = f.cut
      OBVIOUS
    <3>4. PICK a \in Int, d \in Int : a = aim - 1 /\ d = (f.depth - 1) \div 2 /\ cut = f.cut
      BY <1>3, <3>a
    <3>5. PICK c : c = Frame("search", "NonPV", f.ply, a, aim, d, cut)
      OBVIOUS
    <3>6. stack' = Append(Append(Front(stack), h), c) /\ ss' = [ss EXCEPT ![f.ply].excluded = m]
      BY <2>15, <3>2, <3>3, <3>4, <3>5 DEF Await, Search
    <3>7. \A p : FrameOk(G, c, p)
      <4>1. a < aim /\ a = aim - 1 /\ f.ply \in Nat /\ f.ply <= MaxPly
        BY <1>3, <3>4, Sizes
      <4>2. cut => f.ply > 0
        BY <1>3, <3>4 DEF FrameOk, FrameWindow
      <4>. QED
        BY <3>5, <4>1, <4>2, FreshCall
    <3>8. c.pc = "enter" /\ c.ply = f.ply /\ c.kind = "search" /\ c.depth = d
      BY <3>5 DEF Frame
    <3>9. /\ DOMAIN h = FrameFields /\ h.pc = "singularBack" /\ h.aim = aim
          /\ \A x \in FrameFields \ {"pc", "aim"} : h[x] = g[x]
      BY <2>12, <3>3 DEF FrameFields
    <3>10. /\ SameNode(f, h) /\ h.depth = f.depth /\ h.mc = f.mc + 1 /\ h.alpha = f.alpha /\ h.best = f.best
           /\ h.queue = f.queue \ {k} /\ h.m = m
      BY <1>1, <2>4, <2>12, <3>9 DEF SameNode, FrameFields
    <3>11. LoopTyped(h)
      <4>1. /\ h.ext = g.ext /\ h.newDepth = g.newDepth /\ h.d = g.d /\ h.r = g.r
            /\ h.value = g.value /\ h.bestMove = g.bestMove /\ h.m = g.m
        BY <3>9, <3>10 DEF FrameFields
      <4>2. h.aim \in Int
        BY <1>4, <2>12, <3>9, <3>10 DEF FrameFields
      <4>3. h.best \in Int
        BY <1>3, <2>12, <3>9, <3>10 DEF FrameFields
      <4>4. /\ g.ext = 0 /\ g.newDepth = f.depth - 1 /\ g.d = f.d /\ g.r = r
            /\ g.value = f.value /\ g.bestMove = f.bestMove /\ g.m = m
        BY <2>12 DEF FrameFields
      <4>. QED
        BY <1>3, <1>4, <2>4, <4>1, <4>2, <4>3, <4>4, <3>9, <3>10 DEF LoopTyped
    <3>12. LoopQueue(h) /\ LoopWindow(h)
      BY <1>3, <2>10, <3>10, Sizes DEF LoopQueue, LoopWindow
    <3>13. LoopBounds(h)
      <4>1. f.depth <= MaxPly
        BY <1>1, <2>2, <3>1, QueueShrinks
      <4>. QED
        BY <1>3, <2>10, <3>1, <3>9, <3>10, <4>1, Sizes DEF LoopBounds
    <3>14. FrameOk(G, h, Node)
      BY <1>1, <3>9, <3>10, <3>11, <3>12, <3>13, GoesRound DEF LoopPcs
    <3>15. m # NoMove /\ f.ply \in -2 .. MaxPly + 2 /\ TypedStack(ss)
      <4>1. NoMove \notin MovesOf(G, Node)
        BY <1>3, Chess
      <4>2. m # NoMove
        BY <4>1
      <4>. QED
        BY <1>1, <4>2, Places
    <3>16. /\ TypedStack(ss') /\ ss'[f.ply].excluded = m
           /\ \A p \in -2 .. MaxPly + 2 : p # f.ply => ss'[p].excluded = ss[p].excluded
      BY <3>6, <3>15 DEF TypedStack, StackFields
    <3>17. Orderly
      BY <1>2, <3>16, Quiet DEF Orderly
    <3>18. Retreats
      BY <1>1, <1>2 DEF Retreats
    <3>19. Prepares(f, h, ss)
      BY <1>1, <3>9, <3>10 DEF Prepares, SameNode, BackPcs, SamePcs, Excludes
    <3>20. Asks(h, c, ss')
      <4>1. d > 0
        BY <1>3, <3>1, <3>4
      <4>. QED
        BY <1>3, <3>8, <3>9, <3>10, <3>15, <3>16, <4>1 DEF Asks, Onward, SamePcs, SameNode, Excludes
    <3>21. Verifies(f, h, c, nmpMinPly, nmpMinPly')
      BY <1>1, <1>2, <3>9, NotVerifying DEF Shallowed
    <3>22. Excluding(h, ss, ss')
      <4>1. h.ply = f.ply /\ h.pc = "singularBack"
        BY <3>9, <3>10 DEF SameNode
      <4>2. \A p \in -2 .. MaxPly + 2 : p # f.ply => ss'[p].excluded = ss[p].excluded
        BY <3>16
      <4>. QED
        BY <4>1, <4>2 DEF Excluding
    <3>. QED
      BY <1>1, <3>6, <3>7, <3>9, <3>14, <3>17, <3>18, <3>19, <3>20, <3>21, <3>22, WaitingOn DEF SamePcs
  <2>16. CASE Become([g EXCEPT !.pc = "make"]) /\ UNCHANGED ss
    <3>1. PICK h : h = [g EXCEPT !.pc = "make"]
      OBVIOUS
    <3>2. DOMAIN h = FrameFields /\ h.pc = "make" /\ \A x \in FrameFields \ {"pc"} : h[x] = g[x]
      BY <2>12, <3>1 DEF FrameFields
    <3>3. /\ SameNode(f, h) /\ h.depth = f.depth /\ h.mc = f.mc + 1 /\ h.alpha = f.alpha /\ h.best = f.best
          /\ h.queue = f.queue \ {k} /\ h.m = m
      BY <1>1, <2>4, <2>12, <3>2 DEF SameNode, FrameFields
    <3>4. LoopTyped(h)
      <4>1. /\ h.ext = g.ext /\ h.newDepth = g.newDepth /\ h.d = g.d /\ h.r = g.r
            /\ h.value = g.value /\ h.bestMove = g.bestMove /\ h.m = g.m
        BY <3>2, <3>3 DEF FrameFields
      <4>2. h.aim \in Int
        BY <1>4, <2>12, <3>2, <3>3 DEF FrameFields
      <4>3. h.best \in Int
        BY <1>3, <2>12, <3>2, <3>3 DEF FrameFields
      <4>4. /\ g.ext = 0 /\ g.newDepth = f.depth - 1 /\ g.d = f.d /\ g.r = r
            /\ g.value = f.value /\ g.bestMove = f.bestMove /\ g.m = m
        BY <2>12 DEF FrameFields
      <4>. QED
        BY <1>3, <1>4, <2>4, <4>1, <4>2, <4>3, <4>4, <3>2, <3>3 DEF LoopTyped
    <3>5. LoopQueue(h) /\ LoopBounds(h) /\ LoopWindow(h)
      BY <1>3, <2>10, <3>2, <3>3, Sizes DEF LoopQueue, LoopBounds, LoopWindow
    <3>6. FrameOk(G, h, Node) /\ Succeeds(f, h, ss)
      BY <1>1, <3>2, <3>3, <3>4, <3>5, GoesRound DEF LoopPcs
    <3>7. Leaves(ss, ss')
      BY <1>1, <2>16, Places
    <3>. QED
      BY <1>1, <1>2, <1>3, <2>16, <3>1, <3>2, <3>6, <3>7, GoingOnHere DEF MadePcs
  <2>. QED
    BY <2>9, <2>13, <2>14, <2>15, <2>16
<1>. QED
  BY <1>5, <1>6

LEMMA SingularBackKeeps == TreeInv /\ SingularBack => TreeInv'
<1>. SUFFICES ASSUME TreeInv, SingularBack PROVE TreeInv'
  OBVIOUS
<1>1. stack # << >> /\ f.kind = "search" /\ f.pc = "singularBack" /\ f.pc \in LoopPcs /\ f.pc \notin MadePcs
  BY DEF SingularBack, At, LoopPcs, MadePcs
<1>2. UNCHANGED still /\ UNCHANGED <<board, tt, nmpMinPly>> /\ ss' = [ss EXCEPT ![f.ply].excluded = NoMove] /\ Retreats
  BY <1>1 DEF SingularBack, Retreats
<1>3. /\ DOMAIN f = FrameFields /\ f.depth \in Int /\ 1 <= f.depth /\ f.depth <= MaxPly /\ f.ply \in Nat
      /\ f.mc \in Nat /\ f.mc < MaxMoves
      /\ TypedTable(G, tt) /\ FrameOk(G, f, Node) /\ WellPosed(G) /\ Node \in DOMAIN G.moves /\ Here.pos = Node
      /\ f.beta \in Int /\ f.alpha \in Int /\ f.alpha < f.beta /\ f.best \in Int /\ f.best <= f.alpha
  <2>1. f.depth \in Int /\ f.depth <= MaxPly + (IF f.pc # "singularBack" /\ 0 \notin f.queue THEN 1 ELSE 0)
    BY <1>1, InLoop
  <2>2. f.depth <= MaxPly
    BY <1>1, <2>1, Sizes
  <2>. QED
    BY <1>1, <2>2, InLoop
<1>4. /\ f.queue \subseteq 0 .. Len(G.moves[Node]) /\ (0 \in f.queue => f.tt.move # NoMove)
      /\ \A k \in f.queue : f.mc <= k /\ (k # 0 => G.moves[Node][k].to # f.tt.move)
      /\ f.bestMove \in MaybeMove(G, Node) /\ f.m \in MovesOf(G, Node) /\ f.newDepth \in Int /\ f.d \in Int
      /\ f.r \in Int /\ f.aim \in Int /\ f.value \in Int /\ 0 \notin f.queue
  BY <1>1, <1>3 DEF FrameOk, FrameMoves, TypedFrame, FrameProgress, PlayPcs
<1>5. PICK v \in Int : v = ret.v
  BY DEF TreeInv
<1>6. /\ TypedStack(ss')
      /\ \A p \in -2 .. MaxPly + 2 : p # f.ply => ss'[p].excluded = ss[p].excluded
  <2>1. f.ply \in -2 .. MaxPly + 2 /\ TypedStack(ss)
    BY <1>1, Places
  <2>. QED
    BY <1>2, <2>1 DEF TypedStack, StackFields
<1>7. Releases(f, ss, ss', nmpMinPly, nmpMinPly')
  <2>1. \A p \in -2 .. MaxPly + 2 : p # f.ply => ss'[p].excluded = ss[p].excluded
    BY <1>6
  <2>2. nmpMinPly' = nmpMinPly
    BY <1>2
  <2>. QED
    BY <1>1, <2>1, <2>2 DEF Releases
<1>8. PICK ext : ext = SingularExtension(v)
  OBVIOUS
<1>9. ext \in Int
  <2>1. PICK a \in {0, 1}, b \in {0, 1} :
          /\ a = Bit(v < f.aim - (-2 + 204 * Bit(PvNode) - 152 * Bit(~ttCapture) - (Abs2(G.correction) \div 198368)
                                     - Bit(f.ply > Head(depths)) * 38))
          /\ b = Bit(v < f.aim - (70 + 279 * Bit(PvNode) - 188 * Bit(~ttCapture) + 81 * Bit(S(0).ttPv)
                                     - (Abs2(G.correction) \div 198368) - Bit(f.ply > Head(depths)) * 43))
    BY DEF Bit
  <2>2. ext = 1 + a + b
    BY <1>8, <2>1 DEF SingularExtension
  <2>. QED
    BY <2>2
<1>10. \/ Become([f EXCEPT !.pc = "make", !.depth = @ + 1, !.ext = ext]) /\ UNCHANGED ret
       \/ Return(v)
       \/ Become([f EXCEPT !.pc = "make", !.ext = IF f.tt.value >= f.beta \/ f.cut THEN -3 ELSE 0]) /\ UNCHANGED ret
  BY <1>5, <1>8 DEF SingularBack
<1>11. CASE Return(v)
  <2>1. stack' = Front(stack) /\ ret'.v = v
    BY <1>11 DEF Return, ReturnFor
  <2>2. Orderly
    BY <1>2, <1>3, <1>6, <2>1, Quiet DEF Orderly
  <2>. QED
    BY <1>1, <1>2, <1>7, <2>1, <2>2, Returning
<1>12. ASSUME NEW depth \in {f.depth, f.depth + 1}, NEW x \in Int, UNCHANGED ret,
              Become([f EXCEPT !.pc = "make", !.depth = depth, !.ext = x])
       PROVE  TreeInv'
  <2>1. PICK g : g = [f EXCEPT !.pc = "make", !.depth = depth, !.ext = x]
    OBVIOUS
  <2>2. /\ DOMAIN g = FrameFields /\ g.pc = "make" /\ g.depth = depth /\ g.ext = x
        /\ \A y \in FrameFields \ {"pc", "depth", "ext"} : g[y] = f[y]
    BY <1>3, <2>1 DEF FrameFields
  <2>3. SameNode(f, g) /\ g.queue = f.queue /\ g.mc = f.mc /\ g.alpha = f.alpha /\ g.best = f.best /\ g.m = f.m
    BY <2>2 DEF SameNode, FrameFields
  <2>4. LoopTyped(g)
    <3>1. g.newDepth = f.newDepth /\ g.d = f.d /\ g.r = f.r /\ g.aim = f.aim /\ g.value = f.value /\ g.bestMove = f.bestMove
      BY <2>2 DEF FrameFields
    <3>. QED
      BY <1>3, <1>4, <1>12, <2>2, <2>3, <3>1 DEF LoopTyped
  <2>5. LoopQueue(g) /\ LoopBounds(g) /\ LoopWindow(g)
    <3>1. LoopQueue(g) /\ LoopWindow(g)
      BY <1>3, <1>4, <2>3 DEF LoopQueue, LoopWindow
    <3>2. 1 <= depth /\ depth <= MaxPly + 1
      <4>1. f.depth \in Int /\ 1 <= f.depth /\ f.depth <= MaxPly
        BY <1>3
      <4>. QED
        BY <1>12, <4>1, Sizes
    <3>3. LoopBounds(g)
      <4>1. 0 \notin g.queue /\ g.pc = "make" /\ g.depth = depth /\ g.mc < MaxMoves /\ g.best <= g.alpha
        BY <1>3, <1>4, <2>2, <2>3
      <4>. QED
        BY <3>2, <4>1 DEF LoopBounds
    <3>. QED
      BY <3>1, <3>3
  <2>6. FrameOk(G, g, Node) /\ Succeeds(f, g, ss)
    BY <1>1, <2>2, <2>3, <2>4, <2>5, GoesRound DEF LoopPcs
  <2>7. Orderly
    BY <1>2, <1>3, <1>6, <1>12, Quiet DEF Orderly
  <2>. QED
    BY <1>1, <1>2, <1>7, <1>12, <2>1, <2>2, <2>6, <2>7, GoingOn DEF MadePcs
<1>13. CASE Become([f EXCEPT !.pc = "make", !.depth = @ + 1, !.ext = ext]) /\ UNCHANGED ret
  BY <1>9, <1>12, <1>13
<1>14. CASE Become([f EXCEPT !.pc = "make", !.ext = IF f.tt.value >= f.beta \/ f.cut THEN -3 ELSE 0]) /\ UNCHANGED ret
  <2>1. PICK x \in Int : x = IF f.tt.value >= f.beta \/ f.cut THEN -3 ELSE 0
    OBVIOUS
  <2>2. [f EXCEPT !.pc = "make", !.ext = x] = [f EXCEPT !.pc = "make", !.depth = f.depth, !.ext = x]
    BY <1>3
  <2>. QED
    BY <1>12, <1>14, <2>1, <2>2
<1>. QED
  BY <1>10, <1>11, <1>13, <1>14

(* The frame of a move that is made or searched again, and its child.       *)
SameMove(r, g) ==
  /\ SameNode(r, g)
  /\ g.alpha = r.alpha /\ g.depth = r.depth /\ g.best = r.best /\ g.bestMove = r.bestMove
  /\ g.queue = r.queue /\ g.m = r.m /\ g.mc = r.mc /\ g.ext = r.ext /\ g.aim = r.aim

LEMMA SameMoveOk ==
  ASSUME TreeInv, stack # << >>, f.kind = "search", f.pc \in LoopPcs \ {"finish", "singularBack"}, NEW g, SameMove(f, g),
         g.pc \in LoopPcs \ {"singularBack"}, g.pc \in PlayPcs => f.pc \in PlayPcs,
         g.newDepth \in Int, g.d \in Int, g.r \in Int, g.value \in Int
  PROVE  FrameOk(G, g, Node) /\ Succeeds(f, g, ss)
<1>1. FrameOk(G, f, Node) /\ f.pc \in LoopPcs
  BY Standing
<1>2. /\ f.queue \subseteq 0 .. Len(G.moves[Node]) /\ (0 \in f.queue => f.tt.move # NoMove)
      /\ \A k \in f.queue : f.mc <= k /\ (k # 0 => G.moves[Node][k].to # f.tt.move)
      /\ f.bestMove \in MaybeMove(G, Node) /\ (f.pc \in PlayPcs => f.m \in MovesOf(G, Node))
  BY <1>1 DEF FrameOk, FrameMoves
<1>3. /\ 1 <= f.depth /\ f.depth <= MaxPly + (IF 0 \notin f.queue THEN 1 ELSE 0)
      /\ f.mc < MaxMoves /\ f.best <= f.alpha
  BY <1>1, InLoop
<1>4. f.alpha \in Int /\ f.alpha < f.beta /\ f.depth \in Int /\ f.best \in Int /\ f.ext \in Int /\ f.aim \in Int /\ f.mc \in Nat
  BY <1>1, InLoop
<1>5. LoopTyped(g)
  BY <1>2, <1>4 DEF LoopTyped, SameMove
<1>6. LoopQueue(g)
  BY <1>2 DEF LoopQueue, SameMove
<1>7. LoopBounds(g)
  BY <1>3 DEF LoopBounds, SameMove
<1>8. LoopWindow(g)
  BY <1>4 DEF LoopWindow, SameMove
<1>. QED
  BY <1>1, <1>5, <1>6, <1>7, <1>8, GoesRound DEF SameMove

(* The search of the move on a null window, and on the whole one.           *)
LEMMA NullWindow ==
  ASSUME TreeInv, stack # << >>, f.kind = "search", f.pc \in LoopPcs, NEW d \in Int, NEW cut,
         NEW c, c = Search("NonPV", f.ply + 1, -f.alpha - 1, -f.alpha, d, cut)
  PROVE  (\A p : FrameOk(G, c, p)) /\ c.pc = "enter" /\ c.ply = f.ply + 1 /\ c.cut = cut
<1>1. f.ply \in Nat /\ f.ply < MaxPly /\ f.alpha \in Int
  BY InLoop
<1>2. PICK ply \in Nat, a \in Int, b \in Int : ply = f.ply + 1 /\ a = -f.alpha - 1 /\ b = -f.alpha
  BY <1>1
<1>3. ply <= MaxPly /\ ply > 0 /\ a < b /\ a = b - 1
  BY <1>1, <1>2, Sizes
<1>4. c = Frame("search", "NonPV", ply, a, b, d, cut)
  BY <1>2 DEF Search
<1>5. \A p : FrameOk(G, c, p)
  BY <1>3, <1>4, FreshCall
<1>6. c.pc = "enter" /\ c.ply = ply /\ c.cut = cut
  BY <1>4 DEF Frame
<1>. QED
  BY <1>2, <1>5, <1>6

LEMMA WholeWindow ==
  ASSUME TreeInv, stack # << >>, f.kind = "search", f.pc \in LoopPcs, NEW g, SameNode(f, g), g.alpha = f.alpha,
         g.newDepth \in Int, NEW c, c = PvChild(g)
  PROVE  (\A p : FrameOk(G, c, p)) /\ c.pc = "enter" /\ c.ply = f.ply + 1
<1>1. f.ply \in Nat /\ f.ply < MaxPly /\ f.alpha \in Int /\ f.beta \in Int /\ f.alpha < f.beta
  BY InLoop
<1>2. PICK ply \in Nat, a \in Int, b \in Int : ply = f.ply + 1 /\ a = -f.beta /\ b = -f.alpha
  BY <1>1
<1>3. ply <= MaxPly /\ a < b
  BY <1>1, <1>2, Sizes
<1>4. PICK d \in Int : d = PvDepth(g)
  BY DEF PvDepth, Max2
<1>5. PICK cut : cut = FALSE
  OBVIOUS
<1>6. c = Frame("search", "PV", ply, a, b, d, cut)
  BY <1>2, <1>4, <1>5 DEF PvChild, Search, SameNode
<1>7. \A p : FrameOk(G, c, p)
  BY <1>3, <1>5, <1>6, FreshCall
<1>8. c.pc = "enter" /\ c.ply = ply
  BY <1>6 DEF Frame
<1>. QED
  BY <1>2, <1>7, <1>8

(* The top frame waits for the search of its move.                          *)
LEMMA SearchingMove ==
  ASSUME TreeInv, stack # << >>, f.kind = "search", f.pc \in LoopPcs \ {"finish", "singularBack"},
         NEW g, NEW c, stack' = Append(Append(Front(stack), g), c), UNCHANGED still,
         UNCHANGED <<ret, tt, nmpMinPly>>, Leaves(ss, ss'), Advances(g) \/ Stays(g),
         SameMove(f, g), g.pc \in {"lmrBack", "zeroBack", "pvBack"}, f.pc \in PlayPcs,
         g.newDepth \in Int, g.d \in Int, g.r \in Int, g.value \in Int,
         \A p : FrameOk(G, c, p), c.pc = "enter", c.ply = f.ply + 1
  PROVE  TreeInv'
<1>1. FrameOk(G, g, Node)
  BY SameMoveOk DEF LoopPcs
<1>2. Orderly
  BY Quiet DEF Orderly, Leaves
<1>3. g.ply = f.ply /\ g.cut = f.cut /\ g.excl = f.excl
  BY DEF SameMove, SameNode
<1>4. Prepares(f, g, ss)
  BY <1>3, Preparing DEF BackPcs, MadePcs, SamePcs, LoopPcs
<1>5. Asks(g, c, ss')
  BY <1>3 DEF Asks, Onward, SamePcs
<1>6. Verifies(f, g, c, nmpMinPly, nmpMinPly')
  BY NotVerifying DEF Shallowed, LoopPcs
<1>7. Excluding(g, ss, ss')
  BY ReleasesNothing
<1>. QED
  BY <1>1, <1>2, <1>4, <1>5, <1>6, <1>7, WaitingOn DEF SamePcs

(* How far a late move is reduced is a number.                              *)
LEMMA ReducedType ==
  ASSUME G.correction \in Int, f.r \in Int, f.mc \in Int, f.alpha \in Int, f.eval \in Int, f.depth \in Int, 1 <= f.depth,
         NEW i, i.hist \in Int
  PROVE  Reduced(i) \in Int
<1>1. PICK b1 \in Int, b2 \in Int, b3 \in Int, b4 \in Int, b5 \in Int :
        /\ b1 = Bit(S(0).ttPv) /\ b2 = Bit(PvNode) /\ b3 = Bit(f.tt.value > f.alpha)
        /\ b4 = Bit(f.tt.depth >= f.depth) /\ b5 = Bit(f.cut)
  BY DEF Bit
<1>2. PICK b6 \in Int, b7 \in Int, b8 \in Int, b9 \in Int :
        /\ b6 = Bit(f.tt.move = NoMove) /\ b7 = Bit(ttCapture) /\ b8 = Bit(S(1).cutoffs > 2) /\ b9 = Bit(allNode)
  BY DEF Bit
<1>3. PICK a \in Int : a = ReducedByTable
  <2>1. PICK x \in Int : x = 816 + b5 * 940
    OBVIOUS
  <2>2. PICK y \in Int : y = b4 * x
    OBVIOUS
  <2>3. PICK z \in Int : z = 3023 + b2 * 1004 + b3 * 885 + y
    OBVIOUS
  <2>4. PICK w \in Int : w = b1 * z
    OBVIOUS
  <2>5. PICK a \in Int : a = f.r - w
    OBVIOUS
  <2>. QED
    BY <1>1, <2>1, <2>2, <2>3, <2>4, <2>5 DEF ReducedByTable
<1>4. PICK q \in Int : q = Abs2(G.correction) \div 26310
  BY DEF Abs2
<1>5. PICK b \in Int : b = ReducedByNode
  <2>1. PICK x \in Int : x = 4026 + 933 * b6
    OBVIOUS
  <2>2. PICK y \in Int : y = b5 * x
    OBVIOUS
  <2>3. PICK b \in Int : b = a + 697 - f.mc * 65 - q + y + 1079 * b7
    OBVIOUS
  <2>. QED
    BY <1>1, <1>2, <1>3, <1>4, <2>1, <2>2, <2>3 DEF ReducedByNode
<1>6. PICK c \in Int : c = ReducedByReplies
  <2>1. PICK x \in Int : x = b + 264 + 1095 * b8 + 1138 * b9
    OBVIOUS
  <2>. QED
    BY <1>2, <1>5, <2>1 DEF ReducedByReplies
<1>7. PICK h \in Int : h = Quot2(i.hist * 439, 4096)
  BY DEF Quot2
<1>8. PICK w \in Int : w = Min2(Max2(f.alpha - f.eval, -64), 96)
  BY DEF Min2, Max2
<1>9. PICK d \in Int : d = ReducedByHistory(i)
  BY <1>6, <1>7, <1>8 DEF ReducedByHistory
<1>10. PICK s \in Int : s = Quot2(d * 276, 256 * f.depth + 268)
  <2>1. PICK x \in Int, y \in Int : x = d * 276 /\ y = 256 * f.depth + 268
    BY <1>9
  <2>2. y > 0
    BY <2>1
  <2>. QED
    BY <2>1, <2>2, Quotients
<1>11. PICK e \in Int : e = ReducedByType(i)
  BY <1>9, <1>10 DEF ReducedByType
<1>12. PICK t \in Int : t = Quot2(IF InCheck(i.to) THEN -e ELSE e, 4)
  BY <1>11 DEF Quot2
<1>13. Reduced(i) = IF G.seekMate /\ e > 0 THEN e + t ELSE e
  BY <1>11, <1>12 DEF Reduced
<1>. QED
  BY <1>11, <1>12, <1>13

LEMMA MarkedReduction ==
  ASSUME TreeInv, stack # << >>, NEW s, Leaves(ss, s), NEW d \in Int
  PROVE  Leaves(ss, [s EXCEPT ![f.ply].reduction = d])
<1>1. TypedStack(s)
  BY DEF Leaves
<1>2. PICK p : p = f.ply
  OBVIOUS
<1>3. PICK t : t = [s EXCEPT ![p].reduction = d]
  OBVIOUS
<1>4. DOMAIN t = DOMAIN s /\ \A q \in DOMAIN s : q # p => t[q] = s[q]
  BY <1>3
<1>5. p \in DOMAIN s => DOMAIN s[p] = StackFields /\ t[p] = [s[p] EXCEPT !.reduction = d]
  BY <1>1, <1>3 DEF TypedStack
<1>6. p \in DOMAIN s => /\ DOMAIN t[p] = DOMAIN s[p] /\ t[p].reduction \in Int
                        /\ t[p].static = s[p].static /\ t[p].excluded = s[p].excluded
  BY <1>5 DEF StackFields
<1>7. Reduces(s, p, t)
  BY <1>4, <1>6 DEF Reduces
<1>8. Leaves(s, t)
  BY <1>1, <1>7, Reducing
<1>9. Leaves(ss, t)
  BY <1>8 DEF Leaves
<1>. QED
  BY <1>2, <1>3, <1>9

LEMMA MakeKeeps == TreeInv /\ Make => TreeInv'
<1>. SUFFICES ASSUME TreeInv, Make PROVE TreeInv'
  OBVIOUS
<1>1. /\ stack # << >> /\ f.kind = "search" /\ f.pc = "make" /\ f.pc \in LoopPcs \ {"finish", "singularBack"}
      /\ f.pc \notin MadePcs \cup SamePcs /\ f.pc \in PlayPcs
  BY DEF Make, At, LoopPcs, MadePcs, SamePcs, PlayPcs
<1>2. UNCHANGED still /\ UNCHANGED <<ret, tt, nmpMinPly>> /\ MakeMove(f.m)
  BY DEF Make
<1>3. /\ DOMAIN f = FrameFields /\ f.depth \in Int /\ 1 <= f.depth /\ f.ply \in Nat /\ f.mc \in Nat
      /\ FrameOk(G, f, Node) /\ WellPosed(G) /\ Node \in DOMAIN G.moves /\ Here.pos = Node
      /\ f.alpha \in Int /\ f.newDepth \in Int /\ f.ext \in Int /\ f.r \in Int /\ f.eval \in Int /\ f.value \in Int
  BY <1>1, InLoop
<1>4. f.m \in MovesOf(G, Node)
  BY <1>1, <1>3 DEF FrameOk, FrameMoves
<1>5. PICK r \in Int : r = ReductionOf(Info(Here.pos, f.m))
  <2>1. PICK i : i = Info(Here.pos, f.m)
    OBVIOUS
  <2>2. i.hist \in Int
    BY <1>3, <1>4, <2>1, InfoOf
  <2>3. G.correction \in Int
    BY <1>3, Chess
  <2>4. PICK x \in Int : x = Reduced(i)
    BY <1>3, <2>2, <2>3, ReducedType
  <2>5. PICK b \in {0, 1} : b = Bit(f.tt.move = NoMove /\ ~Late)
    BY DEF Bit
  <2>. QED
    BY <2>1, <2>4, <2>5 DEF ReductionOf
<1>6. PICK newDepth \in Int : newDepth = f.newDepth + f.ext
  BY <1>3
<1>7. PICK d \in Int : d = LmrDepth(newDepth, r)
  <2>1. PICK q \in Int : q = Quot2(-r, 1024)
    BY <1>5, Quotients
  <2>2. PICK b \in {0, 1} : b = Bit(PvNode)
    BY DEF Bit
  <2>3. PICK x \in Int : x = Min2(q, IF f.ply < 2 * Head(depths) THEN 2 ELSE 0)
    BY <2>1 DEF Min2
  <2>4. PICK y \in Int : y = Max2(1, newDepth + x)
    BY <1>6, <2>3 DEF Max2
  <2>. QED
    BY <2>1, <2>2, <2>3, <2>4 DEF LmrDepth
<1>8. PICK h : h = [f EXCEPT !.newDepth = newDepth, !.d = d, !.r = r]
  OBVIOUS
<1>9. /\ SameNode(f, h) /\ h.alpha = f.alpha /\ h.newDepth = newDepth /\ h.d = d /\ h.r = r
  BY <1>3, <1>8 DEF SameNode, FrameFields
<1>10. PICK d2 \in Int : d2 = ZeroDepth(h)
  <2>1. PICK a \in {0, 1}, b \in {0, 1} : a = Bit(h.r > 5234) /\ b = Bit(h.r > 5487 /\ h.newDepth > 2)
    BY DEF Bit
  <2>. QED
    BY <1>6, <1>9, <2>1 DEF ZeroDepth
<1>11. PICK moved : moved = [ss EXCEPT ![f.ply].move = f.m]
  OBVIOUS
<1>12. SearchMove(h, moved)
  BY <1>5, <1>6, <1>7, <1>8, <1>11 DEF Make
<1>13. Leaves(ss, moved)
  BY <1>1, <1>11, MarkedMove
<1>14. \/ /\ ss' = [moved EXCEPT ![f.ply].reduction = h.newDepth - h.d]
          /\ Await(h, "lmrBack", Search("NonPV", f.ply + 1, -f.alpha - 1, -f.alpha, h.d, TRUE))
       \/ ss' = moved /\ Await(h, "zeroBack", Search("NonPV", f.ply + 1, -f.alpha - 1, -f.alpha, ZeroDepth(h), ~f.cut))
       \/ ss' = moved /\ Await(h, "pvBack", PvChild(h))
  BY <1>12, Zenon DEF SearchMove
<1>15. Leaves(ss, ss')
  <2>1. PICK x \in Int : x = h.newDepth - h.d
    BY <1>6, <1>7, <1>9
  <2>2. Leaves(ss, [moved EXCEPT ![f.ply].reduction = x])
    BY <1>1, <1>13, MarkedReduction
  <2>. QED
    BY <1>13, <1>14, <2>1, <2>2
<1>16. PICK pc, c :
         /\ pc \in {"lmrBack", "zeroBack", "pvBack"} /\ stack' = Append(Append(Front(stack), [h EXCEPT !.pc = pc]), c)
         /\ (\A p : FrameOk(G, c, p)) /\ c.pc = "enter" /\ c.ply = f.ply + 1
  <2>0. f.pc \in LoopPcs
    BY <1>1
  <2>1. CASE Await(h, "lmrBack", Search("NonPV", f.ply + 1, -f.alpha - 1, -f.alpha, h.d, TRUE))
    <3>1. PICK cut : cut = TRUE
      OBVIOUS
    <3>2. PICK c : c = Search("NonPV", f.ply + 1, -f.alpha - 1, -f.alpha, h.d, cut)
      OBVIOUS
    <3>3. (\A p : FrameOk(G, c, p)) /\ c.pc = "enter" /\ c.ply = f.ply + 1
      BY <1>1, <1>7, <1>9, <2>0, <3>2, NullWindow
    <3>4. stack' = Append(Append(Front(stack), [h EXCEPT !.pc = "lmrBack"]), c)
      BY <2>1, <3>1, <3>2 DEF Await
    <3>. QED
      BY <3>3, <3>4
  <2>2. CASE Await(h, "zeroBack", Search("NonPV", f.ply + 1, -f.alpha - 1, -f.alpha, ZeroDepth(h), ~f.cut))
    <3>1. PICK cut : cut = ~f.cut
      OBVIOUS
    <3>2. PICK c : c = Search("NonPV", f.ply + 1, -f.alpha - 1, -f.alpha, d2, cut)
      OBVIOUS
    <3>3. (\A p : FrameOk(G, c, p)) /\ c.pc = "enter" /\ c.ply = f.ply + 1
      BY <1>1, <1>10, <2>0, <3>2, NullWindow
    <3>4. stack' = Append(Append(Front(stack), [h EXCEPT !.pc = "zeroBack"]), c)
      BY <1>10, <2>2, <3>1, <3>2 DEF Await
    <3>. QED
      BY <3>3, <3>4
  <2>3. CASE Await(h, "pvBack", PvChild(h))
    <3>1. SameNode(f, h) /\ h.alpha = f.alpha /\ h.newDepth \in Int
      BY <1>6, <1>9
    <3>2. PICK c : c = PvChild(h)
      OBVIOUS
    <3>3. (\A p : FrameOk(G, c, p)) /\ c.pc = "enter" /\ c.ply = f.ply + 1
      BY <1>1, <2>0, <3>1, <3>2, WholeWindow
    <3>4. stack' = Append(Append(Front(stack), [h EXCEPT !.pc = "pvBack"]), c)
      BY <2>3, <3>2 DEF Await
    <3>. QED
      BY <3>3, <3>4
  <2>. QED
    BY <1>14, <2>1, <2>2, <2>3
<1>17. PICK g : g = [h EXCEPT !.pc = pc]
  OBVIOUS
<1>18. /\ DOMAIN h = FrameFields /\ h.newDepth = newDepth /\ h.d = d /\ h.r = r
       /\ \A x \in FrameFields \ {"newDepth", "d", "r"} : h[x] = f[x]
  BY <1>3, <1>8 DEF FrameFields
<1>19. DOMAIN g = FrameFields /\ g.pc = pc /\ \A x \in FrameFields \ {"pc"} : g[x] = h[x]
  BY <1>17, <1>18 DEF FrameFields
<1>20. SameMove(f, g)
  BY <1>18, <1>19 DEF SameMove, SameNode, FrameFields
<1>21. g.newDepth = newDepth /\ g.d = d /\ g.r = r /\ g.value = f.value
  BY <1>18, <1>19 DEF FrameFields
<1>22. g.pc \in {"lmrBack", "zeroBack", "pvBack"} /\ g.pc \in MadePcs /\ g.pc # "nullBack"
  BY <1>16, <1>19 DEF MadePcs
<1>23. Advances(g)
  BY <1>1, <1>2, <1>4, <1>22, Moving
<1>. QED
  <2>1. stack' = Append(Append(Front(stack), g), c) /\ (\A p : FrameOk(G, c, p)) /\ c.pc = "enter" /\ c.ply = f.ply + 1
    BY <1>16, <1>17
  <2>2. g.newDepth \in Int /\ g.d \in Int /\ g.r \in Int /\ g.value \in Int
    BY <1>3, <1>5, <1>6, <1>7, <1>21
  <2>. QED
    BY <1>1, <1>2, <1>15, <1>20, <1>22, <1>23, <2>1, <2>2, SearchingMove

LEMMA LmrBackKeeps == TreeInv /\ LmrBack => TreeInv'
<1>. SUFFICES ASSUME TreeInv, LmrBack PROVE TreeInv'
  OBVIOUS
<1>1. /\ stack # << >> /\ f.kind = "search" /\ f.pc = "lmrBack" /\ f.pc \in LoopPcs \ {"finish", "singularBack"}
      /\ f.pc \in MadePcs /\ f.pc \notin SamePcs /\ f.pc \in PlayPcs /\ f.pc # "nullBack"
  BY DEF LmrBack, At, LoopPcs, MadePcs, SamePcs, PlayPcs
<1>2. UNCHANGED still /\ UNCHANGED <<board, ret, tt, nmpMinPly>> /\ ss' = [ss EXCEPT ![f.ply].reduction = 0]
  BY DEF LmrBack
<1>3. /\ DOMAIN f = FrameFields /\ f.newDepth \in Int /\ f.d \in Int /\ f.r \in Int /\ f.best \in Int
      /\ TypedTable(G, tt)
  BY <1>1, InLoop
<1>4. PICK v \in Int : v = -ret.v
  BY DEF TreeInv
<1>5. PICK newDepth \in Int : newDepth = f.newDepth + Bit(f.d < f.newDepth /\ v > f.best + 53) - Bit(v < f.best + 8)
  <2>1. PICK a \in {0, 1}, b \in {0, 1} : a = Bit(f.d < f.newDepth /\ v > f.best + 53) /\ b = Bit(v < f.best + 8)
    BY DEF Bit
  <2>. QED
    BY <1>3, <2>1
<1>6. Leaves(ss, ss')
  <2>1. PICK x \in Int : x = 0
    OBVIOUS
  <2>2. Leaves(ss, ss)
    BY <1>1, Places
  <2>. QED
    BY <1>1, <1>2, <2>1, <2>2, MarkedReduction
<1>7. \/ Await([f EXCEPT !.newDepth = newDepth, !.value = v], "zeroBack",
               Search("NonPV", f.ply + 1, -f.alpha - 1, -f.alpha, newDepth, ~f.cut))
      \/ Become([[f EXCEPT !.newDepth = newDepth, !.value = v] EXCEPT !.pc = "value"])
      \/ Become([f EXCEPT !.pc = "value", !.value = v])
  BY <1>4, <1>5 DEF LmrBack
<1>8. ASSUME NEW g, Become(g), SameMove(f, g), g.pc = "value", g.newDepth \in Int, g.d = f.d, g.r = f.r, g.value = v
      PROVE  TreeInv'
  <2>1. FrameOk(G, g, Node) /\ Succeeds(f, g, ss)
    BY <1>1, <1>3, <1>8, SameMoveOk DEF LoopPcs
  <2>2. Stays(g)
    BY <1>1, <1>2, <1>8 DEF Stays, MadePcs
  <2>. QED
    BY <1>1, <1>2, <1>3, <1>6, <1>8, <2>1, <2>2, GoingOnBack
<1>9. CASE Await([f EXCEPT !.newDepth = newDepth, !.value = v], "zeroBack",
                 Search("NonPV", f.ply + 1, -f.alpha - 1, -f.alpha, newDepth, ~f.cut))
  <2>1. PICK g : g = [[f EXCEPT !.newDepth = newDepth, !.value = v] EXCEPT !.pc = "zeroBack"]
    OBVIOUS
  <2>2. PICK cut : cut = ~f.cut
    OBVIOUS
  <2>3. PICK c : c = Search("NonPV", f.ply + 1, -f.alpha - 1, -f.alpha, newDepth, cut)
    OBVIOUS
  <2>4. stack' = Append(Append(Front(stack), g), c)
    BY <1>9, <2>1, <2>2, <2>3 DEF Await
  <2>5. f.pc \in LoopPcs
    BY <1>1
  <2>6. (\A p : FrameOk(G, c, p)) /\ c.pc = "enter" /\ c.ply = f.ply + 1
    BY <1>1, <2>3, <2>5, NullWindow
  <2>7. /\ DOMAIN g = FrameFields /\ g.pc = "zeroBack" /\ g.newDepth = newDepth /\ g.value = v
        /\ \A x \in FrameFields \ {"pc", "newDepth", "value"} : g[x] = f[x]
    BY <1>3, <2>1 DEF FrameFields
  <2>8. SameMove(f, g) /\ g.d = f.d /\ g.r = f.r
    BY <2>7 DEF SameMove, SameNode, FrameFields
  <2>9. Stays(g)
    BY <1>1, <1>2, <2>7 DEF Stays, MadePcs
  <2>. QED
    BY <1>1, <1>2, <1>3, <1>6, <2>4, <2>6, <2>7, <2>8, <2>9, SearchingMove
<1>10. CASE Become([[f EXCEPT !.newDepth = newDepth, !.value = v] EXCEPT !.pc = "value"])
  <2>1. PICK g : g = [[f EXCEPT !.newDepth = newDepth, !.value = v] EXCEPT !.pc = "value"]
    OBVIOUS
  <2>2. /\ DOMAIN g = FrameFields /\ g.pc = "value" /\ g.newDepth = newDepth /\ g.value = v
        /\ \A x \in FrameFields \ {"pc", "newDepth", "value"} : g[x] = f[x]
    BY <1>3, <2>1 DEF FrameFields
  <2>3. SameMove(f, g) /\ g.d = f.d /\ g.r = f.r
    BY <2>2 DEF SameMove, SameNode, FrameFields
  <2>. QED
    BY <1>8, <1>10, <2>1, <2>2, <2>3
<1>11. CASE Become([f EXCEPT !.pc = "value", !.value = v])
  <2>1. PICK g : g = [f EXCEPT !.pc = "value", !.value = v]
    OBVIOUS
  <2>2. DOMAIN g = FrameFields /\ g.pc = "value" /\ g.value = v /\ \A x \in FrameFields \ {"pc", "value"} : g[x] = f[x]
    BY <1>3, <2>1 DEF FrameFields
  <2>3. SameMove(f, g) /\ g.d = f.d /\ g.r = f.r /\ g.newDepth = f.newDepth
    BY <2>2 DEF SameMove, SameNode, FrameFields
  <2>. QED
    BY <1>3, <1>8, <1>11, <2>1, <2>2, <2>3
<1>. QED
  BY <1>7, <1>9, <1>10, <1>11

LEMMA ZeroBackKeeps == TreeInv /\ ZeroBack => TreeInv'
<1>. SUFFICES ASSUME TreeInv, ZeroBack PROVE TreeInv'
  OBVIOUS
<1>1. /\ stack # << >> /\ f.kind = "search" /\ f.pc = "zeroBack" /\ f.pc \in LoopPcs \ {"finish", "singularBack"}
      /\ f.pc \in MadePcs /\ f.pc \notin SamePcs /\ f.pc \in PlayPcs /\ f.pc # "nullBack"
  BY DEF ZeroBack, At, LoopPcs, MadePcs, SamePcs, PlayPcs
<1>2. UNCHANGED still /\ UNCHANGED <<board, ss, ret, tt, nmpMinPly>> /\ Leaves(ss, ss')
  BY <1>1, Places DEF ZeroBack
<1>3. DOMAIN f = FrameFields /\ f.newDepth \in Int /\ f.d \in Int /\ f.r \in Int /\ TypedTable(G, tt)
  BY <1>1, InLoop
<1>4. PICK v \in Int : v = -ret.v
  BY DEF TreeInv
<1>5. PICK g : g = [f EXCEPT !.pc = "value", !.value = v]
  OBVIOUS
<1>6. Become(g)
  BY <1>4, <1>5 DEF ZeroBack
<1>7. DOMAIN g = FrameFields /\ g.pc = "value" /\ g.value = v /\ \A x \in FrameFields \ {"pc", "value"} : g[x] = f[x]
  BY <1>3, <1>5 DEF FrameFields
<1>8. SameMove(f, g) /\ g.d = f.d /\ g.r = f.r /\ g.newDepth = f.newDepth
  BY <1>7 DEF SameMove, SameNode, FrameFields
<1>9. FrameOk(G, g, Node) /\ Succeeds(f, g, ss)
  BY <1>1, <1>3, <1>7, <1>8, SameMoveOk DEF LoopPcs
<1>10. Stays(g)
  BY <1>1, <1>2, <1>7 DEF Stays, MadePcs
<1>. QED
  BY <1>1, <1>2, <1>3, <1>6, <1>9, <1>10, GoingOnBack

LEMMA PvSearchKeeps == TreeInv /\ PvSearch => TreeInv'
<1>. SUFFICES ASSUME TreeInv, PvSearch PROVE TreeInv'
  OBVIOUS
<1>1. /\ stack # << >> /\ f.kind = "search" /\ f.pc = "value" /\ f.pc \in LoopPcs \ {"finish", "singularBack"}
      /\ f.pc \in LoopPcs /\ f.pc \in MadePcs /\ f.pc \notin SamePcs /\ f.pc \in PlayPcs /\ f.pc # "nullBack"
  BY DEF PvSearch, At, LoopPcs, MadePcs, SamePcs, PlayPcs
<1>2. UNCHANGED still /\ UNCHANGED <<board, ss, ret, tt, nmpMinPly>> /\ Leaves(ss, ss')
  BY <1>1, Places DEF PvSearch
<1>3. /\ DOMAIN f = FrameFields /\ f.newDepth \in Int /\ f.d \in Int /\ f.r \in Int /\ f.value \in Int
  BY <1>1, InLoop
<1>4. PICK g : g = [f EXCEPT !.pc = "pvBack"]
  OBVIOUS
<1>5. PICK c : c = PvChild(f)
  OBVIOUS
<1>6. stack' = Append(Append(Front(stack), g), c)
  BY <1>4, <1>5 DEF PvSearch, Await
<1>7. DOMAIN g = FrameFields /\ g.pc = "pvBack" /\ \A x \in FrameFields \ {"pc"} : g[x] = f[x]
  BY <1>3, <1>4 DEF FrameFields
<1>8. SameMove(f, g) /\ g.d = f.d /\ g.r = f.r /\ g.newDepth = f.newDepth /\ g.value = f.value
  BY <1>7 DEF SameMove, SameNode, FrameFields
<1>9. SameNode(f, f)
  BY <1>3 DEF SameNode
<1>10. (\A p : FrameOk(G, c, p)) /\ c.pc = "enter" /\ c.ply = f.ply + 1
  BY <1>1, <1>3, <1>5, <1>9, WholeWindow
<1>11. Stays(g)
  BY <1>1, <1>2, <1>7 DEF Stays, MadePcs
<1>. QED
  BY <1>1, <1>2, <1>3, <1>6, <1>7, <1>8, <1>10, <1>11, SearchingMove

(* The value of the move: what the frame becomes with it.                   *)
LEMMA ValueTaken ==
  ASSUME TreeInv, stack # << >>, f.kind = "search", f.pc \in {"value", "pvBack"}, NEW v \in Int, NEW g, g = Taken(v)
  PROVE  FrameOk(G, g, Node) /\ Succeeds(f, g, ss) /\ g.pc \in {"loop", "finish"}
<1>1. f.pc \in LoopPcs /\ f.pc \in PlayPcs /\ f.pc # "singularBack" /\ f.pc # "finish"
  BY DEF LoopPcs, PlayPcs
<1>2. /\ DOMAIN f = FrameFields /\ f.depth \in Int /\ 1 <= f.depth
      /\ f.depth <= MaxPly + (IF 0 \notin f.queue THEN 1 ELSE 0)
      /\ f.alpha \in Int /\ f.beta \in Int /\ f.alpha < f.beta /\ f.best \in Int /\ f.best <= f.alpha
      /\ f.mc \in Nat /\ f.mc < MaxMoves /\ f.newDepth \in Int /\ f.ext \in Int /\ f.d \in Int /\ f.r \in Int
      /\ f.aim \in Int /\ f.value \in Int /\ FrameOk(G, f, Node)
  BY <1>1, InLoop
<1>3. /\ f.queue \subseteq 0 .. Len(G.moves[Node]) /\ (0 \in f.queue => f.tt.move # NoMove)
      /\ \A k \in f.queue : f.mc <= k /\ (k # 0 => G.moves[Node][k].to # f.tt.move)
      /\ f.bestMove \in MaybeMove(G, Node) /\ f.m \in MaybeMove(G, Node)
      /\ f.type = "NonPV" => f.alpha = f.beta - 1
  BY <1>1, <1>2 DEF FrameOk, FrameMoves, FrameWindow, MaybeMove
<1>4. PICK x \in {0, 1} : x = Inc(v) /\ (x = 1 => v = f.best)
  BY DEF Inc, Bit
<1>5. PICK depth \in {f.depth, f.depth - 3} :
        /\ depth = (IF f.depth > 3 /\ f.depth < 12 /\ ~IsDecisive(v) THEN f.depth - 3 ELSE f.depth)
        /\ 1 <= depth /\ depth <= f.depth
  BY <1>2
<1>6. ASSUME NEW pc \in {"loop", "finish"}, NEW best \in Int, NEW bestMove \in MaybeMove(G, Node), NEW alpha \in Int,
             NEW dd \in Int, pc # "finish" => best <= alpha, f.alpha <= alpha, alpha < f.beta, 1 <= dd, dd <= f.depth,
             f.type = "NonPV" => alpha = f.alpha, DOMAIN g = FrameFields,
             g.pc = pc, g.best = best, g.bestMove = bestMove, g.alpha = alpha, g.depth = dd,
             \A y \in FrameFields \ {"pc", "best", "bestMove", "alpha", "depth"} : g[y] = f[y]
      PROVE  FrameOk(G, g, Node) /\ Succeeds(f, g, ss) /\ g.pc \in {"loop", "finish"}
  <2>1. SameNode(f, g) /\ g.queue = f.queue /\ g.mc = f.mc
    BY <1>6 DEF SameNode, FrameFields
  <2>2. g.ext = f.ext /\ g.newDepth = f.newDepth /\ g.d = f.d /\ g.r = f.r /\ g.aim = f.aim /\ g.value = f.value
    BY <1>6 DEF FrameFields
  <2>3. g.pc \notin PlayPcs /\ g.pc \in LoopPcs /\ g.pc # "singularBack" /\ g.pc \in {"loop", "finish"}
    BY <1>6 DEF PlayPcs, LoopPcs
  <2>4. LoopTyped(g)
    BY <1>2, <1>6, <2>1, <2>2, <2>3 DEF LoopTyped
  <2>5. LoopQueue(g) /\ LoopWindow(g)
    BY <1>3, <1>6, <2>1 DEF LoopQueue, LoopWindow
  <2>6. dd <= MaxPly + (IF 0 \notin f.queue THEN 1 ELSE 0)
    <3>1. PICK limit \in Int : limit = MaxPly + (IF 0 \notin f.queue THEN 1 ELSE 0)
      BY Sizes
    <3>2. f.depth <= limit /\ f.depth \in Int
      BY <1>2, <3>1
    <3>3. dd <= limit
      BY <1>6, <3>2
    <3>. QED
      BY <3>1, <3>3
  <2>7. LoopBounds(g)
    BY <1>2, <1>6, <2>1, <2>3, <2>6 DEF LoopBounds
  <2>. QED
    BY <1>1, <2>1, <2>3, <2>4, <2>5, <2>7, GoesRound
<1>7. \/ v + x <= f.best /\ g = [f EXCEPT !.pc = "loop"]
      \/ v + x > f.best /\ ~(v + x > f.alpha) /\ g = [f EXCEPT !.pc = "loop", !.best = v]
      \/ g = [f EXCEPT !.pc = "finish", !.best = v, !.bestMove = f.m]
      \/ /\ v + x > f.alpha /\ v + x > f.best /\ v < f.beta
         /\ g = [f EXCEPT !.pc = "loop", !.best = v, !.bestMove = f.m, !.alpha = v, !.depth = depth]
  BY <1>2, <1>4, <1>5 DEF Taken
<1>8. CASE v + x <= f.best /\ g = [f EXCEPT !.pc = "loop"]
  <2>1. DOMAIN g = FrameFields /\ g.pc = "loop" /\ \A y \in FrameFields \ {"pc"} : g[y] = f[y]
    BY <1>2, <1>8 DEF FrameFields
  <2>2. g.best = f.best /\ g.bestMove = f.bestMove /\ g.alpha = f.alpha /\ g.depth = f.depth
    BY <2>1 DEF FrameFields
  <2>3. \A y \in FrameFields \ {"pc", "best", "bestMove", "alpha", "depth"} : g[y] = f[y]
    BY <2>1
  <2>4. f.alpha <= f.alpha /\ f.depth <= f.depth
    BY <1>2
  <2>. QED
    BY <1>2, <1>3, <1>6, <2>1, <2>2, <2>3, <2>4
<1>9. CASE v + x > f.best /\ ~(v + x > f.alpha) /\ g = [f EXCEPT !.pc = "loop", !.best = v]
  <2>1. DOMAIN g = FrameFields /\ g.pc = "loop" /\ g.best = v /\ \A y \in FrameFields \ {"pc", "best"} : g[y] = f[y]
    BY <1>2, <1>9 DEF FrameFields
  <2>2. g.bestMove = f.bestMove /\ g.alpha = f.alpha /\ g.depth = f.depth
    BY <2>1 DEF FrameFields
  <2>3. \A y \in FrameFields \ {"pc", "best", "bestMove", "alpha", "depth"} : g[y] = f[y]
    BY <2>1
  <2>4. f.alpha <= f.alpha /\ f.depth <= f.depth /\ v <= f.alpha
    BY <1>2, <1>4, <1>9
  <2>. QED
    BY <1>2, <1>3, <1>6, <2>1, <2>2, <2>3, <2>4
<1>10. CASE g = [f EXCEPT !.pc = "finish", !.best = v, !.bestMove = f.m]
  <2>1. /\ DOMAIN g = FrameFields /\ g.pc = "finish" /\ g.best = v /\ g.bestMove = f.m
        /\ \A y \in FrameFields \ {"pc", "best", "bestMove"} : g[y] = f[y]
    BY <1>2, <1>10 DEF FrameFields
  <2>2. g.alpha = f.alpha /\ g.depth = f.depth
    BY <2>1 DEF FrameFields
  <2>3. \A y \in FrameFields \ {"pc", "best", "bestMove", "alpha", "depth"} : g[y] = f[y]
    BY <2>1
  <2>4. f.alpha <= f.alpha /\ f.depth <= f.depth
    BY <1>2
  <2>. QED
    BY <1>2, <1>3, <1>6, <2>1, <2>2, <2>3, <2>4
<1>11. CASE /\ v + x > f.alpha /\ v + x > f.best /\ v < f.beta
            /\ g = [f EXCEPT !.pc = "loop", !.best = v, !.bestMove = f.m, !.alpha = v, !.depth = depth]
  <2>1. /\ DOMAIN g = FrameFields /\ g.pc = "loop" /\ g.best = v /\ g.bestMove = f.m /\ g.alpha = v /\ g.depth = depth
        /\ \A y \in FrameFields \ {"pc", "best", "bestMove", "alpha", "depth"} : g[y] = f[y]
    BY <1>2, <1>11 DEF FrameFields
  <2>2. f.alpha <= v
    BY <1>2, <1>4, <1>11
  <2>3. f.type = "NonPV" => v = f.alpha
    BY <1>2, <1>3, <1>11, <2>2
  <2>4. depth \in Int /\ 1 <= depth /\ depth <= f.depth /\ v <= v /\ v < f.beta
    BY <1>2, <1>5, <1>11
  <2>. QED
    BY <1>3, <1>6, <2>1, <2>2, <2>3, <2>4
<1>. QED
  BY <1>7, <1>8, <1>9, <1>10, <1>11

LEMMA TakeValueKeeps == TreeInv /\ TakeValue => TreeInv'
<1>. SUFFICES ASSUME TreeInv, TakeValue PROVE TreeInv'
  OBVIOUS
<1>1. /\ stack # << >> /\ f.kind = "search" /\ f.pc \in {"value", "pvBack"}
      /\ f.pc \in MadePcs /\ f.pc \notin SamePcs /\ f.pc # "nullBack" /\ f.pc \in LoopPcs
  BY DEF TakeValue, At, MadePcs, SamePcs, LoopPcs
<1>2. UNCHANGED still /\ UNCHANGED <<tt, nmpMinPly>> /\ UndoMove
  BY DEF TakeValue
<1>3. Retreats
  BY <1>1, <1>2 DEF Retreats, UndoMove
<1>4. TypedTable(G, tt) /\ f.value \in Int
  BY <1>1, InLoop
<1>5. PICK v \in Int : v = IF f.pc = "pvBack" THEN -ret.v ELSE f.value
  BY <1>4 DEF TreeInv
<1>6. \/ ReturnFor(0, line[Len(line) - 1]) /\ UNCHANGED ss
      \/ /\ Become(Taken(v)) /\ UNCHANGED ret
         /\ ss' = [ss EXCEPT ![f.ply].cutoffs = @ + Bit(f.ext < 2 \/ PvNode)] \/ UNCHANGED ss
  BY <1>5 DEF TakeValue
<1>7. Leaves(ss, ss')
  <2>1. f.ply \in -2 .. MaxPly + 2 /\ TypedStack(ss) /\ Leaves(ss, ss)
    BY <1>1, Places
  <2>2. CASE ss' = [ss EXCEPT ![f.ply].cutoffs = @ + Bit(f.ext < 2 \/ PvNode)]
    <3>1. PICK b : b = ss[f.ply].cutoffs + Bit(f.ext < 2 \/ PvNode)
      OBVIOUS
    <3>2. ss' = [ss EXCEPT ![f.ply].cutoffs = b]
      BY <2>2, <3>1
    <3>. QED
      BY <2>1, <3>2 DEF Leaves, TypedStack, StackFields
  <2>3. CASE UNCHANGED ss
    BY <2>1, <2>3
  <2>. QED
    BY <1>6, <2>2, <2>3
<1>8. CASE ReturnFor(0, line[Len(line) - 1]) /\ UNCHANGED ss
  <2>1. PICK z \in Int : z = 0
    OBVIOUS
  <2>. QED
    BY <1>1, <1>2, <1>3, <1>4, <1>7, <1>8, <2>1, ReturningBack
<1>9. CASE Become(Taken(v)) /\ UNCHANGED ret
  <2>1. PICK g : g = Taken(v)
    OBVIOUS
  <2>2. FrameOk(G, g, Node) /\ Succeeds(f, g, ss) /\ g.pc \in {"loop", "finish"}
    BY <1>1, <2>1, ValueTaken
  <2>. QED
    BY <1>1, <1>2, <1>3, <1>4, <1>7, <1>9, <2>1, <2>2, GoingOnBack DEF MadePcs
<1>. QED
  BY <1>6, <1>8, <1>9

LEMMA FinishKeeps == TreeInv /\ Finish => TreeInv'
<1>. SUFFICES ASSUME TreeInv, Finish PROVE TreeInv'
  OBVIOUS
<1>1. stack # << >> /\ f.kind = "search" /\ f.pc = "finish" /\ f.pc \in LoopPcs /\ f.pc \notin MadePcs \cup SamePcs
  BY DEF Finish, At, LoopPcs, MadePcs, SamePcs
<1>2. UNCHANGED still /\ UNCHANGED <<board, nmpMinPly>>
  BY DEF Finish
<1>3. /\ f.depth \in Int /\ 1 <= f.depth /\ f.ply \in Nat /\ f.best \in Int /\ f.beta \in Int /\ f.alpha \in Int
      /\ f.max \in Int /\ f.uns \in Int /\ FrameOk(G, f, Node)
      /\ TypedTable(G, tt) /\ Node \in DOMAIN G.moves /\ Here.pos = Node
  BY <1>1, InLoop
<1>4. f.bestMove \in MaybeMove(G, Node)
  BY <1>3 DEF FrameOk, FrameMoves
<1>5. PICK v \in Int : v = FinalValue
  <2>1. PICK s \in Int : s = Quot2(f.best * f.depth + f.beta, f.depth + 1)
    <3>1. PICK p \in Int : p = f.best * f.depth
      BY <1>3
    <3>2. PICK x \in Int : x = p + f.beta
      BY <1>3, <3>1
    <3>3. PICK y \in Int : y = f.depth + 1
      BY <1>3
    <3>4. y > 0
      BY <1>3, <3>3
    <3>. QED
      BY <3>1, <3>2, <3>3, <3>4, Quotients
  <2>2. PICK soft \in Int : soft = IF f.best >= f.beta /\ ~IsDecisive(f.best) /\ ~IsDecisive(f.alpha) THEN s ELSE f.best
    BY <1>3, <2>1
  <2>3. PICK ended \in Int : ended = IF f.mc > 0 THEN soft
               ELSE IF f.excl # NoMove THEN f.alpha ELSE IF S(0).inCheck THEN MatedIn(f.ply) ELSE 0
    BY <1>3, <2>2 DEF MatedIn, ValueMate
  <2>4. FinalValue = IF PvNode THEN Min2(ended, f.max) ELSE ended
    BY <2>1, <2>2, <2>3 DEF FinalValue
  <2>. QED
    BY <1>3, <2>3, <2>4, MinMaxType
<1>6. PICK ttPv, d, b :
        /\ ttPv = (S(0).ttPv \/ (v <= f.alpha /\ S(-1).ttPv))
        /\ d = (IF f.mc # 0 THEN f.depth ELSE Min2(MaxPly - 1, f.depth + 6)) /\ b = BoundFor(v)
  OBVIOUS
<1>7. /\ ss' = [ss EXCEPT ![f.ply].ttPv = ttPv]
      /\ tt' = (IF ~Stored THEN tt ELSE Write(ValueToTT(v, f.ply), ttPv, b, d, f.bestMove, f.uns))
      /\ Return(v)
  BY <1>5, <1>6 DEF Finish
<1>8. Leaves(ss, ss')
  <2>1. f.ply \in -2 .. MaxPly + 2 /\ TypedStack(ss)
    BY <1>1, Places
  <2>. QED
    BY <1>7, <2>1 DEF Leaves, TypedStack, StackFields
<1>9. TypedTable(G, tt')
  <2>1. PICK w \in Int : w = ValueToTT(v, f.ply)
    BY <1>3, Conversions
  <2>2. TypedTable(G, Write(w, ttPv, b, d, f.bestMove, f.uns))
    BY <1>3, <1>4, WriteKeeps
  <2>. QED
    BY <1>3, <1>7, <2>1, <2>2
<1>. QED
  BY <1>1, <1>2, <1>7, <1>8, <1>9, ReturningHere DEF Return

(* The same node of qsearch, a step on.                                     *)
SameQuiescence(r, g) ==
  /\ DOMAIN g = FrameFields
  /\ g.kind = r.kind /\ g.type = r.type /\ g.ply = r.ply /\ g.beta = r.beta /\ g.depth = r.depth
  /\ g.cut = r.cut /\ g.excl = r.excl /\ g.eval = r.eval /\ g.max = r.max /\ g.ext = r.ext
  /\ g.newDepth = r.newDepth /\ g.d = r.d /\ g.r = r.r /\ g.aim = r.aim /\ g.value = r.value

QuietTyped(g) ==
  /\ g.best \in Int /\ g.base \in Int /\ g.uns \in Int /\ g.mc \in Nat
  /\ TypedEntry(G, g.tt, Node) /\ g.bestMove \in MaybeMove(G, Node)
  /\ g.pc \in PlayPcs => g.m \in MovesOf(G, Node)
  /\ g.queue \subseteq 0 .. Len(G.moves[Node]) /\ (0 \in g.queue => g.tt.move # NoMove)

LEMMA GoesQuiet ==
  ASSUME TreeInv, stack # << >>, f.kind = "qsearch", f.ply < MaxPly, NEW g, SameQuiescence(f, g),
         g.pc \in QPcs, QuietTyped(g), LoopWindow(g)
  PROVE  FrameOk(G, g, Node) /\ Succeeds(f, g, ss) /\ g.pc \notin SamePcs
<1>1. FrameOk(G, f, Node)
  BY Standing
<1>2. TypedFrame(f) /\ FrameMoves(G, f, Node) /\ FrameWindow(f) /\ FrameProgress(f)
  BY <1>1 DEF FrameOk
<1>3. TypedFrame(g)
  BY <1>2 DEF TypedFrame, SameQuiescence, QuietTyped, LoopWindow
<1>4. FrameMoves(G, g, Node)
  BY DEF FrameMoves, SameQuiescence, QuietTyped
<1>5. f.type # "Root"
  BY <1>2 DEF FrameProgress
<1>6. FrameWindow(g)
  BY <1>2, <1>5 DEF FrameWindow, SameQuiescence, LoopWindow
<1>7. FrameProgress(g)
  BY <1>5 DEF FrameProgress, SameQuiescence
<1>8. g.pc \notin {"nullBack", "verifyBack", "singularBack"}
  BY DEF QPcs
<1>9. Succeeds(f, g, ss)
  BY <1>8 DEF Succeeds, SameQuiescence, Excludes, Shallowed
<1>. QED
  BY <1>3, <1>4, <1>6, <1>7, <1>8, <1>9 DEF FrameOk, SamePcs

(* A call of qsearch and what it may rely on.                               *)
LEMMA InQuiet ==
  ASSUME TreeInv, stack # << >>, f.kind = "qsearch"
  PROVE  /\ FrameOk(G, f, Node) /\ DOMAIN f = FrameFields /\ f.ply \in Nat /\ f.ply <= MaxPly
         /\ (f.pc # "enter" => f.ply < MaxPly) /\ f.type \in {"PV", "NonPV"}
         /\ f.alpha \in Int /\ f.beta \in Int /\ f.alpha < f.beta /\ (f.type = "NonPV" => f.alpha = f.beta - 1)
         /\ f.best \in Int /\ f.base \in Int /\ f.uns \in Int /\ f.mc \in Nat
         /\ WellPosed(G) /\ TypedTable(G, tt) /\ TypedEntry(G, f.tt, Node)
         /\ f.bestMove \in MaybeMove(G, Node) /\ (f.pc \in PlayPcs => f.m \in MovesOf(G, Node))
         /\ f.queue \subseteq 0 .. Len(G.moves[Node]) /\ (0 \in f.queue => f.tt.move # NoMove)
         /\ Node \in DOMAIN G.moves /\ (f.pc \notin MadePcs => Here.pos = Node)
<1>1. FrameOk(G, f, Node) /\ WellPosed(G) /\ TypedTable(G, tt)
  BY Standing DEF TreeInv
<1>2. TypedFrame(f) /\ FrameMoves(G, f, Node) /\ FrameWindow(f) /\ FrameProgress(f)
  BY <1>1 DEF FrameOk
<1>3. /\ DOMAIN f = FrameFields /\ f.ply \in Nat /\ f.ply <= MaxPly /\ f.alpha \in Int /\ f.beta \in Int
      /\ f.best \in Int /\ f.base \in Int /\ f.uns \in Int /\ f.mc \in Nat
  BY <1>2 DEF TypedFrame
<1>4. (f.pc # "enter" => f.ply < MaxPly) /\ f.type \in {"PV", "NonPV"}
  BY <1>2 DEF FrameProgress, TypedFrame
<1>5. f.alpha < f.beta /\ (f.type = "NonPV" => f.alpha = f.beta - 1)
  BY <1>2 DEF FrameWindow
<1>6. Node \in DOMAIN G.moves /\ (f.pc \notin MadePcs => Here.pos = Node)
  BY Standpoint, LineShrinks
<1>. QED
  BY <1>1, <1>2, <1>3, <1>4, <1>5, <1>6 DEF FrameMoves

LEMMA QFinishKeeps == TreeInv /\ QFinish => TreeInv'
<1>. SUFFICES ASSUME TreeInv, QFinish PROVE TreeInv'
  OBVIOUS
<1>1. stack # << >> /\ f.kind = "qsearch" /\ f.pc = "qfinish" /\ f.pc \notin MadePcs \cup SamePcs
  BY DEF QFinish, At, MadePcs, SamePcs
<1>2. UNCHANGED still /\ UNCHANGED <<board, ss, nmpMinPly>> /\ Leaves(ss, ss')
  BY <1>1, Places DEF QFinish
<1>3. /\ f.ply \in Nat /\ f.best \in Int /\ f.beta \in Int /\ f.uns \in Int /\ f.bestMove \in MaybeMove(G, Node)
      /\ TypedTable(G, tt) /\ Node \in DOMAIN G.moves /\ Here.pos = Node
  BY <1>1, InQuiet
<1>5. PICK best \in Int :
        best = IF f.mc = 0 /\ (~S(0).inCheck /\ Here.pos \in G.bare /\ Legal(Here.pos) = {}) THEN 0 ELSE f.best
  <2>1. f.best \in Int
    BY <1>3
  <2>. QED
    BY <2>1
<1>6. PICK soft \in Int : soft = Quot2(462 * best + 562 * f.beta, 1024)
  <2>1. PICK x \in Int : x = 462 * best + 562 * f.beta
    BY <1>3
  <2>. QED
    BY <2>1, Quotients
<1>7. PICK v \in Int : v = IF ~IsDecisive(best) /\ best > f.beta THEN soft ELSE best
  BY <1>6
<1>4. v = IF ~IsDecisive(best) /\ best > f.beta THEN Quot2(462 * best + 562 * f.beta, 1024) ELSE best
  BY <1>6, <1>7
<1>8. PICK pv : pv = (f.tt.hit /\ f.tt.pv)
  OBVIOUS
<1>12. PICK b : b = (IF v >= f.beta THEN BoundLower ELSE BoundUpper)
  OBVIOUS
<1>9. \/ Return(MatedIn(f.ply)) /\ UNCHANGED tt
      \/ Return(v) /\ tt' = Write(ValueToTT(v, f.ply), pv, b, DepthQS, f.bestMove, f.uns)
  BY <1>4, <1>5, <1>8, <1>12 DEF QFinish
<1>10. CASE Return(MatedIn(f.ply)) /\ UNCHANGED tt
  <2>1. PICK w \in Int : w = MatedIn(f.ply)
    BY <1>3 DEF MatedIn, ValueMate
  <2>. QED
    BY <1>1, <1>2, <1>3, <1>10, <2>1, ReturningHere DEF Return
<1>11. CASE Return(v) /\ tt' = Write(ValueToTT(v, f.ply), pv, b, DepthQS, f.bestMove, f.uns)
  <2>1. PICK w \in Int : w = ValueToTT(v, f.ply)
    BY <1>3, Conversions
  <2>2. TypedTable(G, tt')
    BY <1>3, <1>11, <2>1, WriteKeeps
  <2>. QED
    BY <1>1, <1>2, <1>11, <2>2, ReturningHere DEF Return
<1>. QED
  BY <1>9, <1>10, <1>11

LEMMA QBackKeeps == TreeInv /\ QBack => TreeInv'
<1>. SUFFICES ASSUME TreeInv, QBack PROVE TreeInv'
  OBVIOUS
<1>1. /\ stack # << >> /\ f.kind = "qsearch" /\ f.pc = "qback" /\ f.pc \in MadePcs /\ f.pc \notin SamePcs
      /\ f.pc # "nullBack" /\ f.pc \in PlayPcs
  BY DEF QBack, At, MadePcs, SamePcs, PlayPcs
<1>2. UNCHANGED still /\ UNCHANGED <<ss, ret, tt, nmpMinPly>> /\ UndoMove /\ Leaves(ss, ss')
  BY <1>1, Places DEF QBack
<1>3. /\ DOMAIN f = FrameFields /\ f.ply \in Nat /\ f.ply < MaxPly /\ f.best \in Int /\ f.base \in Int /\ f.uns \in Int
      /\ f.mc \in Nat /\ f.alpha \in Int /\ f.beta \in Int /\ f.alpha < f.beta /\ (f.type = "NonPV" => f.alpha = f.beta - 1)
      /\ TypedTable(G, tt) /\ TypedEntry(G, f.tt, Node) /\ f.bestMove \in MaybeMove(G, Node)
      /\ f.m \in MovesOf(G, Node) /\ f.m \in MaybeMove(G, Node)
      /\ f.queue \subseteq 0 .. Len(G.moves[Node]) /\ (0 \in f.queue => f.tt.move # NoMove)
  BY <1>1, InQuiet DEF MaybeMove
<1>4. PICK v \in Int : v = -ret.v
  BY DEF TreeInv
<1>5. PICK better, raises : better = (v > f.best) /\ raises = (better /\ v > f.alpha)
  OBVIOUS
<1>6. PICK best \in Int : best = IF better THEN v ELSE f.best
  BY <1>3
<1>7. PICK bestMove \in MaybeMove(G, Node) : bestMove = IF raises THEN f.m ELSE f.bestMove
  BY <1>3
<1>8. PICK alpha \in Int : alpha = IF raises /\ v < f.beta THEN v ELSE f.alpha
  BY <1>3
<1>9. PICK pc \in {"qfinish", "qloop"} : pc = IF raises /\ v >= f.beta THEN "qfinish" ELSE "qloop"
  OBVIOUS
<1>10. PICK g : g = [f EXCEPT !.best = best, !.bestMove = bestMove, !.alpha = alpha, !.pc = pc]
  OBVIOUS
<1>11. Become(g)
  BY <1>4, <1>5, <1>6, <1>7, <1>8, <1>9, <1>10 DEF QBack
<1>12. /\ DOMAIN g = FrameFields /\ g.pc = pc /\ g.best = best /\ g.bestMove = bestMove /\ g.alpha = alpha
       /\ \A y \in FrameFields \ {"pc", "best", "bestMove", "alpha"} : g[y] = f[y]
  BY <1>3, <1>10 DEF FrameFields
<1>13. SameQuiescence(f, g) /\ g.base = f.base /\ g.uns = f.uns /\ g.mc = f.mc /\ g.tt = f.tt /\ g.queue = f.queue
  BY <1>12 DEF SameQuiescence, FrameFields
<1>14. g.pc \in QPcs /\ g.pc \notin PlayPcs /\ g.pc \notin MadePcs
  BY <1>12 DEF QPcs, PlayPcs, MadePcs
<1>15. QuietTyped(g)
  BY <1>3, <1>12, <1>13, <1>14 DEF QuietTyped
<1>16. LoopWindow(g)
  <2>3. raises => v > f.alpha
    BY <1>5
  <2>1. f.alpha <= alpha /\ alpha < f.beta
    BY <1>3, <1>8, <2>3
  <2>2. f.type = "NonPV" => alpha = f.alpha
    BY <1>3, <2>1
  <2>. QED
    BY <1>12, <2>1, <2>2 DEF LoopWindow
<1>17. FrameOk(G, g, Node) /\ Succeeds(f, g, ss)
  BY <1>1, <1>3, <1>13, <1>14, <1>15, <1>16, GoesQuiet
<1>18. Retreats
  BY <1>1, <1>2 DEF Retreats, UndoMove
<1>. QED
  BY <1>1, <1>2, <1>3, <1>11, <1>14, <1>17, <1>18, GoingOnBack

LEMMA QPruneType ==
  ASSUME f.base \in Int, f.best \in Int, f.alpha \in Int, NEW i, i.cap \in Int, NEW mc
  PROVE  QPrune(i, mc).best \in Int
<1>1. PICK gain \in Int : gain = f.base + i.cap
  OBVIOUS
<1>2. PICK x \in Int : x = IF gain <= f.alpha THEN gain ELSE Min2(f.alpha, f.base)
  BY <1>1, MinMaxType
<1>3. PICK y \in Int : y = Max2(f.best, x)
  BY <1>2, MinMaxType
<1>4. PICK quiet : quiet = (~InCheck(i.to) /\ i.to # S(-1).move /\ ~IsLoss(f.base))
  OBVIOUS
<1>5. QPrune(i, mc).best \in {f.best, y}
  BY <1>1, <1>2, <1>3, <1>4 DEF QPrune
<1>. QED
  BY <1>3, <1>5

LEMMA QLoopKeeps == TreeInv /\ QLoop => TreeInv'
<1>. SUFFICES ASSUME TreeInv, QLoop PROVE TreeInv'
  OBVIOUS
<1>1. stack # << >> /\ f.kind = "qsearch" /\ f.pc = "qloop" /\ f.pc \notin MadePcs /\ f.pc \notin MadePcs \cup SamePcs
  BY DEF QLoop, At, MadePcs, SamePcs
<1>2. UNCHANGED still /\ UNCHANGED <<ret, tt, nmpMinPly>>
  BY DEF QLoop
<1>3. /\ DOMAIN f = FrameFields /\ f.ply \in Nat /\ f.ply < MaxPly /\ f.best \in Int /\ f.base \in Int /\ f.uns \in Int
      /\ f.mc \in Nat /\ f.alpha \in Int /\ f.beta \in Int /\ f.alpha < f.beta /\ (f.type = "NonPV" => f.alpha = f.beta - 1)
      /\ f.type \in {"PV", "NonPV"} /\ WellPosed(G) /\ Node \in DOMAIN G.moves /\ Here.pos = Node
      /\ TypedTable(G, tt) /\ TypedEntry(G, f.tt, Node) /\ f.bestMove \in MaybeMove(G, Node)
      /\ f.queue \subseteq 0 .. Len(G.moves[Node]) /\ (0 \in f.queue => f.tt.move # NoMove)
  BY <1>1, InQuiet
<1>4. f.alpha <= f.alpha
  BY <1>3
<1>5. CASE f.queue = {}
  <2>1. PICK g : g = [f EXCEPT !.pc = "qfinish"]
    OBVIOUS
  <2>2. Become(g) /\ UNCHANGED <<board, ss>>
    BY <1>5, <2>1 DEF QLoop
  <2>3. DOMAIN g = FrameFields /\ g.pc = "qfinish" /\ \A y \in FrameFields \ {"pc"} : g[y] = f[y]
    BY <1>3, <2>1 DEF FrameFields
  <2>4. /\ SameQuiescence(f, g) /\ g.base = f.base /\ g.uns = f.uns /\ g.mc = f.mc /\ g.tt = f.tt /\ g.queue = f.queue
        /\ g.best = f.best /\ g.bestMove = f.bestMove /\ g.alpha = f.alpha
    BY <2>3 DEF SameQuiescence, FrameFields
  <2>5. g.pc \in QPcs /\ g.pc \notin PlayPcs /\ g.pc \notin MadePcs
    BY <2>3 DEF QPcs, PlayPcs, MadePcs
  <2>6. QuietTyped(g) /\ LoopWindow(g)
    BY <1>3, <1>4, <2>4, <2>5 DEF QuietTyped, LoopWindow
  <2>7. FrameOk(G, g, Node) /\ Succeeds(f, g, ss)
    BY <1>1, <1>3, <2>4, <2>5, <2>6, GoesQuiet
  <2>8. Leaves(ss, ss')
    BY <1>1, <2>2, Places
  <2>. QED
    BY <1>1, <1>2, <1>3, <2>2, <2>5, <2>7, <2>8, GoingOnHere
<1>6. CASE f.queue # {}
  <2>1. PICK k \in Lowest :
          LET m == Ranked(k)
              p == QPrune(Info(Here.pos, m), f.mc + 1)
              g == [f EXCEPT !.queue = f.queue \ {k}, !.m = m, !.mc = f.mc + 1, !.best = p.best]
          IN  IF p.skips THEN Become(g) /\ UNCHANGED <<board, nodes, ss>>
              ELSE /\ MakeMove(m)
                   /\ ss' = [ss EXCEPT ![f.ply].move = m]
                   /\ Await(g, "qback", QSearch(f.type, f.ply + 1, -f.beta, -f.alpha))
    BY <1>6 DEF QLoop
  <2>2. PICK m \in MovesOf(G, Node) : m = Ranked(k)
    BY <1>1, Dealing
  <2>3. PICK p : p = QPrune(Info(Here.pos, m), f.mc + 1)
    OBVIOUS
  <2>4. PICK best \in Int : best = p.best
    <3>1. Info(Node, m).cap \in Int
      BY <1>3, InfoOf
    <3>2. PICK i : i = Info(Here.pos, m)
      OBVIOUS
    <3>3. i.cap \in Int
      BY <1>3, <3>1, <3>2
    <3>. QED
      BY <1>3, <2>3, <3>2, <3>3, QPruneType
  <2>5. PICK mc \in Nat : mc = f.mc + 1
    BY <1>3
  <2>6. PICK g : g = [f EXCEPT !.queue = f.queue \ {k}, !.m = m, !.mc = mc, !.best = best]
    OBVIOUS
  <2>7. IF p.skips THEN Become(g) /\ UNCHANGED <<board, nodes, ss>>
        ELSE /\ MakeMove(m)
             /\ ss' = [ss EXCEPT ![f.ply].move = m]
             /\ Await(g, "qback", QSearch(f.type, f.ply + 1, -f.beta, -f.alpha))
    BY <2>1, <2>2, <2>3, <2>4, <2>5, <2>6
  <2>8. /\ DOMAIN g = FrameFields /\ g.queue = f.queue \ {k} /\ g.m = m /\ g.mc = mc /\ g.best = best
        /\ \A y \in FrameFields \ {"queue", "m", "mc", "best"} : g[y] = f[y]
    BY <1>3, <2>6 DEF FrameFields
  <2>9. ASSUME NEW h, DOMAIN h = FrameFields, h.pc \in {"qloop", "qback"}, h.queue = f.queue \ {k}, h.m = m, h.mc = mc,
               h.best = best, \A y \in FrameFields \ {"pc", "queue", "m", "mc", "best"} : h[y] = f[y]
        PROVE  FrameOk(G, h, Node) /\ Succeeds(f, h, ss) /\ SameQuiescence(f, h)
    <3>1. /\ SameQuiescence(f, h) /\ h.base = f.base /\ h.uns = f.uns /\ h.tt = f.tt
          /\ h.bestMove = f.bestMove /\ h.alpha = f.alpha
      BY <2>9 DEF SameQuiescence, FrameFields
    <3>2. h.pc \in QPcs
      BY <2>9 DEF QPcs
    <3>3. QuietTyped(h) /\ LoopWindow(h)
      BY <1>3, <1>4, <2>9, <3>1 DEF QuietTyped, LoopWindow
    <3>. QED
      BY <1>1, <1>3, <3>1, <3>2, <3>3, GoesQuiet
  <2>10. CASE p.skips
    <3>1. Become(g) /\ UNCHANGED <<board, ss>>
      BY <2>7, <2>10
    <3>2. g.pc = "qloop" /\ g.pc \notin MadePcs
      BY <1>1, <2>8 DEF FrameFields, MadePcs
    <3>3. FrameOk(G, g, Node) /\ Succeeds(f, g, ss)
      BY <2>8, <2>9, <3>2
    <3>4. Leaves(ss, ss')
      BY <1>1, <3>1, Places
    <3>. QED
      BY <1>1, <1>2, <1>3, <3>1, <3>2, <3>3, <3>4, GoingOnHere
  <2>11. CASE ~p.skips
    <3>1. PICK h : h = [g EXCEPT !.pc = "qback"]
      OBVIOUS
    <3>2. PICK ply \in Nat, a \in Int, b \in Int : ply = f.ply + 1 /\ a = -f.beta /\ b = -f.alpha
      BY <1>3
    <3>3. PICK c : c = Frame("qsearch", f.type, ply, a, b, 0, FALSE)
      OBVIOUS
    <3>4. MakeMove(m) /\ ss' = [ss EXCEPT ![f.ply].move = m] /\ stack' = Append(Append(Front(stack), h), c)
      BY <2>7, <2>11, <3>1, <3>2, <3>3 DEF Await, QSearch
    <3>5. \A q : FrameOk(G, c, q)
      <4>1. f.ply \in Nat /\ f.ply < MaxPly
        BY <1>3
      <4>2. ply <= MaxPly /\ a < b /\ (f.type = "NonPV" => a = b - 1)
        <5>1. f.alpha \in Int /\ f.beta \in Int /\ f.alpha < f.beta /\ (f.type = "NonPV" => f.alpha = f.beta - 1)
          BY <1>3
        <5>. QED
          BY <3>2, <4>1, <5>1, Sizes
      <4>3. PICK d \in Int : d = 0
        OBVIOUS
      <4>4. c = Frame("qsearch", f.type, ply, a, b, d, FALSE)
        BY <3>3, <4>3
      <4>. QED
        BY <1>3, <4>2, <4>4, FreshCall
    <3>6. c.pc = "enter" /\ c.ply = f.ply + 1 /\ ~c.cut /\ c.kind = "qsearch"
      BY <3>2, <3>3 DEF Frame
    <3>7. /\ DOMAIN h = FrameFields /\ h.pc = "qback" /\ h.queue = f.queue \ {k} /\ h.m = m /\ h.mc = mc /\ h.best = best
          /\ \A y \in FrameFields \ {"pc", "queue", "m", "mc", "best"} : h[y] = f[y]
      BY <2>8, <3>1 DEF FrameFields
    <3>8. FrameOk(G, h, Node) /\ Succeeds(f, h, ss) /\ SameQuiescence(f, h)
      BY <2>9, <3>7
    <3>9. Leaves(ss, ss')
      BY <1>1, <3>4, MarkedMove
    <3>10. Orderly
      BY <1>2, <3>9, Quiet DEF Orderly, Leaves
    <3>11. Advances(h)
      BY <1>1, <3>4, <3>7, Moving DEF MadePcs
    <3>12. Prepares(f, h, ss)
      BY <1>1, <3>7, <3>8 DEF Prepares, Succeeds, BackPcs, MadePcs, SamePcs
    <3>13. Asks(h, c, ss')
      BY <3>6, <3>7, <3>8 DEF Asks, Onward, SamePcs, SameQuiescence
    <3>14. Verifies(f, h, c, nmpMinPly, nmpMinPly)
      BY <1>1, <3>6, <3>7, <3>8, NotVerifying DEF Shallowed, SameQuiescence
    <3>15. Excluding(h, ss, ss')
      BY <3>9, ReleasesNothing
    <3>. QED
      BY <1>1, <1>2, <3>4, <3>5, <3>7, <3>8, <3>10, <3>11, <3>12, <3>13, <3>14, <3>15, WaitingOn DEF SamePcs
  <2>. QED
    BY <2>10, <2>11
<1>. QED
  BY <1>5, <1>6

LEMMA QEnterKeeps == TreeInv /\ QEnter => TreeInv'
<1>. SUFFICES ASSUME TreeInv, QEnter PROVE TreeInv'
  OBVIOUS
<1>1. stack # << >> /\ f.kind = "qsearch" /\ f.pc = "enter" /\ f.pc \notin MadePcs /\ f.pc \notin MadePcs \cup SamePcs
  BY DEF QEnter, At, MadePcs, SamePcs
<1>2. UNCHANGED still /\ UNCHANGED <<board, nmpMinPly>>
  BY DEF QEnter
<1>3. /\ DOMAIN f = FrameFields /\ f.ply \in Nat /\ f.ply <= MaxPly
      /\ f.alpha \in Int /\ f.beta \in Int /\ f.alpha < f.beta /\ (f.type = "NonPV" => f.alpha = f.beta - 1)
      /\ WellPosed(G) /\ Node \in DOMAIN G.moves /\ Here.pos = Node /\ TypedTable(G, tt)
  BY <1>1, InQuiet
<1>a. PICK draws : draws = (f.alpha < 0 /\ upcoming_repetition(f.ply))
  OBVIOUS
<1>b. PICK a : a = IF draws THEN value_draw ELSE f.alpha
  OBVIOUS
<1>c. PICK entry : entry = TableRead(Here.pos, f.ply)
  OBVIOUS
<1>d. PICK uns : uns = IF InCheck(Here.pos) THEN ValueNone
                       ELSE IF entry.hit /\ IsValid(entry.eval) THEN entry.eval ELSE G.eval[Here.pos]
  OBVIOUS
<1>e. PICK stand : stand = IF InCheck(Here.pos) THEN -ValueInfinite ELSE QStand(entry, uns)
  OBVIOUS
<1>f. PICK taken : taken = { k \in DOMAIN G.moves[Here.pos] : InCheck(Here.pos) \/ G.moves[Here.pos][k].cap > 0 }
  OBVIOUS
<1>h. PICK base : base = IF InCheck(Here.pos) THEN -ValueInfinite ELSE Corrected(uns) + 306
  OBVIOUS
<1>i. PICK queue : queue = Ranks(entry.move, taken)
  OBVIOUS
<1>j. PICK alpha : alpha = Max2(a, stand)
  OBVIOUS
<1>k. PICK g : g = [f EXCEPT !.pc = "qloop", !.alpha = alpha, !.tt = entry, !.uns = uns,
                             !.best = stand, !.bestMove = NoMove, !.mc = 0, !.base = base, !.queue = queue]
  OBVIOUS
<1>l. PICK seen : seen = [ss EXCEPT ![f.ply].inCheck = InCheck(Here.pos)]
  OBVIOUS
<1>m. PICK full : full = [seen EXCEPT ![f.ply].static = Corrected(uns)]
  OBVIOUS
<1>4. TypedEntry(G, entry, Node) /\ entry.value \in Int /\ entry.eval \in Int /\ G.eval[Node] \in Int /\ G.correction \in Int
  BY <1>3, <1>c, Reading, Chess DEF TypedEntry
<1>5. a \in Int /\ f.alpha <= a /\ (~draws => a = f.alpha)
  <2>1. CASE draws
    <3>1. f.alpha < 0
      BY <1>a, <2>1, Zenon
    <3>2. a = value_draw
      BY <1>b, <2>1
    <3>. QED
      BY <1>3, <2>1, <3>1, <3>2, DrawType
  <2>2. CASE ~draws
    BY <1>3, <1>b, <2>2
  <2>. QED
    BY <2>1, <2>2
<1>6. uns \in Int /\ Corrected(uns) \in Int
  <2>1. uns \in Int
    BY <1>3, <1>4, <1>d DEF ValueNone
  <2>. QED
    BY <1>4, <2>1, CorrectedType
<1>7. stand \in Int
  <2>1. PICK x \in Int : x = Corrected(uns)
    BY <1>6
  <2>2. QStand(entry, uns) \in {x, entry.value}
    BY <2>1 DEF QStand
  <2>. QED
    BY <1>4, <1>e, <2>1, <2>2 DEF ValueInfinite
<1>8. base \in Int
  BY <1>6, <1>h DEF ValueInfinite
<1>9. Leaves(ss, ss) /\ Leaves(ss, seen) /\ Leaves(ss, full)
  <2>1. f.ply \in -2 .. MaxPly + 2 /\ TypedStack(ss) /\ Leaves(ss, ss)
    BY <1>1, Places
  <2>2. Leaves(ss, seen)
    BY <1>l, <2>1 DEF Leaves, TypedStack, StackFields
  <2>3. PICK x \in Int : x = Corrected(uns)
    BY <1>6
  <2>4. Leaves(seen, full)
    BY <1>m, <2>1, <2>2, <2>3 DEF Leaves, TypedStack, StackFields
  <2>. QED
    BY <2>1, <2>2, <2>4 DEF Leaves
<1>10. CASE draws /\ a >= f.beta
  <2>1. Return(a) /\ UNCHANGED <<ss, tt>>
    BY <1>a, <1>b, <1>10 DEF QEnter
  <2>. QED
    BY <1>1, <1>2, <1>3, <1>5, <1>9, <2>1, ReturningHere DEF Return
<1>11. CASE ~(draws /\ a >= f.beta) /\ (is_draw(f.ply) \/ f.ply >= MaxPly)
  <2>1. PICK v : v = IF f.ply >= MaxPly /\ ~InCheck(Here.pos) THEN G.eval[Here.pos] ELSE 0
    OBVIOUS
  <2>2. v \in Int
    BY <1>3, <1>4, <2>1
  <2>3. Return(v) /\ ss' = seen /\ UNCHANGED tt
    BY <1>a, <1>b, <1>l, <1>11, <2>1 DEF QEnter
  <2>. QED
    BY <1>1, <1>2, <1>3, <1>9, <2>2, <2>3, ReturningHere DEF Return
<1>. DEFINE cuts == /\ ~PvNode /\ entry.depth >= DepthQS /\ IsValid(entry.value)
                    /\ Covers(entry.bound, entry.value >= f.beta)
<1>13. CASE ~(draws /\ a >= f.beta) /\ ~(is_draw(f.ply) \/ f.ply >= MaxPly) /\ cuts
  <2>1. Return(entry.value) /\ ss' = seen /\ UNCHANGED tt
    BY <1>a, <1>b, <1>c, <1>l, <1>13 DEF QEnter
  <2>. QED
    BY <1>1, <1>2, <1>3, <1>4, <1>9, <2>1, ReturningHere DEF Return
<1>14. ASSUME ~(draws /\ a >= f.beta), ~(is_draw(f.ply) \/ f.ply >= MaxPly), ~cuts
       PROVE  TreeInv'
  <2>a. /\ ss' = IF InCheck(Here.pos) THEN seen ELSE full
        /\ IF stand >= f.beta
           THEN /\ Return(Quot2(441 * stand + 583 * f.beta, 1024))
                /\ tt' = IF entry.hit THEN tt
                         ELSE Write(ValueNone, FALSE, BoundLower, DepthUnsearched, NoMove, uns)
           ELSE Become(g) /\ UNCHANGED <<ret, tt>>
    <3>. DEFINE Outcome(aa, e, un, st, rd) ==
           IF (f.alpha < 0 /\ upcoming_repetition(f.ply)) /\ aa >= f.beta THEN Return(aa) /\ UNCHANGED <<ss, tt>>
           ELSE IF is_draw(f.ply) \/ f.ply >= MaxPly
           THEN /\ Return(IF f.ply >= MaxPly /\ ~InCheck(Here.pos) THEN G.eval[Here.pos] ELSE 0)
                /\ ss' = [ss EXCEPT ![f.ply].inCheck = InCheck(Here.pos)] /\ UNCHANGED tt
           ELSE IF /\ ~PvNode /\ e.depth >= DepthQS /\ IsValid(e.value) /\ Covers(e.bound, e.value >= f.beta)
           THEN Return(e.value) /\ ss' = [ss EXCEPT ![f.ply].inCheck = InCheck(Here.pos)] /\ UNCHANGED tt
           ELSE /\ ss' = IF InCheck(Here.pos) THEN [ss EXCEPT ![f.ply].inCheck = InCheck(Here.pos)]
                         ELSE [[ss EXCEPT ![f.ply].inCheck = InCheck(Here.pos)] EXCEPT ![f.ply].static = Corrected(un)]
                /\ IF st >= f.beta
                   THEN /\ Return(Quot2(441 * st + 583 * f.beta, 1024))
                        /\ tt' = IF e.hit THEN tt
                                 ELSE Write(ValueNone, FALSE, BoundLower, DepthUnsearched, NoMove, un)
                   ELSE Become(rd) /\ UNCHANGED <<ret, tt>>
    <3>1. LET draw == f.alpha < 0 /\ upcoming_repetition(f.ply)
              aa == IF draw THEN value_draw ELSE f.alpha
              check == InCheck(Here.pos)
              e == TableRead(Here.pos, f.ply)
              un == IF check THEN ValueNone
                    ELSE IF e.hit /\ IsValid(e.eval) THEN e.eval ELSE G.eval[Here.pos]
              st == IF check THEN -ValueInfinite ELSE QStand(e, un)
              set == { k \in DOMAIN G.moves[Here.pos] : check \/ G.moves[Here.pos][k].cap > 0 }
          IN  Outcome(aa, e, un, st,
                [f EXCEPT !.pc = "qloop", !.alpha = Max2(aa, st), !.tt = e, !.uns = un,
                          !.best = st, !.bestMove = NoMove, !.mc = 0,
                          !.base = IF check THEN -ValueInfinite ELSE Corrected(un) + 306,
                          !.queue = Ranks(e.move, set)])
      BY ZenonT(60) DEF QEnter
    <3>2. Outcome(a, entry, uns, stand, g)
      <4>1. a = IF f.alpha < 0 /\ upcoming_repetition(f.ply) THEN value_draw ELSE f.alpha
        BY <1>a, <1>b
      <4>. HIDE DEF Outcome
      <4>2. Outcome(a, entry, uns, stand, [f EXCEPT !.pc = "qloop", !.alpha = Max2(a, stand), !.tt = entry, !.uns = uns,
                          !.best = stand, !.bestMove = NoMove, !.mc = 0,
                          !.base = IF InCheck(Here.pos) THEN -ValueInfinite ELSE Corrected(uns) + 306,
                          !.queue = Ranks(entry.move,
                            { k \in DOMAIN G.moves[Here.pos] : InCheck(Here.pos) \/ G.moves[Here.pos][k].cap > 0 })])
        BY <1>c, <1>d, <1>e, <3>1, <4>1
      <4>. QED
        BY <1>f, <1>h, <1>i, <1>j, <1>k, <4>2
    <3>3. ~((f.alpha < 0 /\ upcoming_repetition(f.ply)) /\ a >= f.beta)
      BY <1>a, <1>14
    <3>. QED
      BY <1>l, <1>m, <1>14, <3>2, <3>3
  <2>2. Leaves(ss, ss')
    BY <1>9, <2>a
  <2>3. CASE stand >= f.beta
    <3>1. PICK v \in Int : v = Quot2(441 * stand + 583 * f.beta, 1024)
      <4>1. PICK x \in Int : x = 441 * stand + 583 * f.beta
        BY <1>3, <1>7
      <4>. QED
        BY <4>1, Quotients
    <3>2. Return(v)
      <4>1. ReturnFor(Quot2(441 * stand + 583 * f.beta, 1024), Here)
        BY <2>3, <2>a DEF Return
      <4>. QED
        BY <3>1, <4>1 DEF Return, ReturnFor
    <3>3. tt' = IF entry.hit THEN tt ELSE Write(ValueNone, FALSE, BoundLower, DepthUnsearched, NoMove, uns)
      BY <2>3, <2>a
    <3>4. TypedTable(G, tt')
      <4>1. ValueNone \in Int /\ NoMove \in MaybeMove(G, Node)
        BY NoMoveIsMaybe DEF ValueNone
      <4>2. TypedTable(G, Write(ValueNone, FALSE, BoundLower, DepthUnsearched, NoMove, uns))
        BY <1>3, <1>6, <4>1, WriteKeeps
      <4>. QED
        BY <1>3, <3>3, <4>2
    <3>. QED
      BY <1>1, <1>2, <2>2, <3>1, <3>2, <3>4, ReturningHere DEF Return
  <2>4. CASE ~(stand >= f.beta)
    <3>1. Become(g) /\ UNCHANGED <<ret, tt>>
      BY <2>4, <2>a
    <3>2. PICK zero \in Nat : zero = 0
      OBVIOUS
    <3>3. /\ DOMAIN g = FrameFields /\ g.pc = "qloop" /\ g.alpha = alpha /\ g.tt = entry /\ g.uns = uns
          /\ g.best = stand /\ g.bestMove = NoMove /\ g.mc = zero /\ g.base = base /\ g.queue = queue
          /\ \A y \in FrameFields \ {"pc", "alpha", "tt", "uns", "best", "bestMove", "mc", "base", "queue"} : g[y] = f[y]
      BY <1>3, <1>k, <3>2 DEF FrameFields
    <3>4. SameQuiescence(f, g)
      BY <3>3 DEF SameQuiescence, FrameFields
    <3>5. g.pc \in QPcs /\ g.pc \notin PlayPcs /\ g.pc \notin MadePcs
      BY <3>3 DEF QPcs, PlayPcs, MadePcs
    <3>6. queue \subseteq 0 .. Len(G.moves[Node]) /\ (0 \in queue => entry.move # NoMove)
      <4>1. /\ Len(G.moves[Here.pos]) \in Nat /\ DOMAIN G.moves[Here.pos] = 1 .. Len(G.moves[Here.pos])
            /\ taken \in SUBSET DOMAIN G.moves[Here.pos]
        BY <1>3, <1>f, Chess
      <4>. QED
        BY <1>3, <1>i, <4>1, Ranking
    <3>7. QuietTyped(g)
      BY <1>4, <1>6, <1>7, <1>8, <3>2, <3>3, <3>5, <3>6, NoMoveIsMaybe DEF QuietTyped
    <3>8. LoopWindow(g)
      <4>1. a < f.beta
        BY <1>3, <1>5, <1>14
      <4>2. alpha \in Int /\ f.alpha <= alpha /\ alpha < f.beta
        BY <1>3, <1>5, <1>7, <1>j, <2>4, <4>1 DEF Max2
      <4>3. f.type = "NonPV" => alpha = f.alpha
        BY <1>3, <4>2
      <4>. QED
        BY <3>3, <4>2, <4>3 DEF LoopWindow
    <3>9. f.ply < MaxPly
      BY <1>3, <1>14, Sizes
    <3>10. FrameOk(G, g, Node) /\ Succeeds(f, g, ss)
      BY <1>1, <3>4, <3>5, <3>7, <3>8, <3>9, GoesQuiet
    <3>. QED
      BY <1>1, <1>2, <1>3, <2>2, <3>1, <3>5, <3>10, GoingOnHere
  <2>. QED
    BY <2>3, <2>4
<1>. QED
  BY <1>10, <1>11, <1>13, <1>14

-----------------------------------------------------------------------------
(* The iterations: one call, the root's, on the game's first position.      *)
LEMMA RootOk ==
  ASSUME NEW h, NEW alpha \in Int, NEW beta \in Int, -ValueInfinite <= alpha, alpha < beta, NEW depth \in Int, NEW p
  PROVE  FrameOk(h, Frame("search", "Root", 0, alpha, beta, depth, FALSE), p)
<1>0. MaxPly \in Nat
  BY Sizes
<1>. DEFINE c == Frame("search", "Root", 0, alpha, beta, depth, FALSE)
<1>1. TypedFrame(c)
  BY <1>0 DEF TypedFrame, Frame, FrameFields, ValueNone, ValueInfinite
<1>2. FrameMoves(h, c, p)
  <2>1. TypedEntry(h, Empty, p)
    BY DEF TypedEntry, Empty, EntryFields, MaybeMove, ValueNone
  <2>. QED
    BY <2>1 DEF FrameMoves, Frame, PlayPcs, LoopPcs, MaybeMove
<1>3. FrameWindow(c)
  BY DEF FrameWindow, Frame
<1>4. FrameProgress(c)
  BY DEF FrameProgress, Frame, QPcs, SearchPcs, LoopPcs
<1>. HIDE DEF c
<1>. QED
  BY <1>1, <1>2, <1>3, <1>4 DEF FrameOk, c

LEMMA OneFrame ==
  ASSUME NEW h, NEW ln, Len(ln) = 1, NEW a, a = 1, NEW s, NEW n, n = 0,
         NEW r, FrameOk(h, r, ln[1].pos), r.ply = 0, r.pc = "enter"
  PROVE  Calls(h, <<r>>, ln, a, s, n)
<1>3. PICK st : st = <<r>>
  OBVIOUS
<1>4. Len(st) = 1 /\ st[1] = r /\ st # << >> /\ st \in Seq({r})
  BY <1>3
<1>11. ASSUME NEW k \in 1 .. Len(st) PROVE k = 1 /\ st[k] = r
  BY <1>4, <1>11
<1>5. IsSeq(st)
  BY <1>4 DEF IsSeq
<1>6. FramesOk(h, st, ln)
  <2>1. ASSUME NEW k \in 1 .. Len(st) PROVE st[k].ply < Len(ln) /\ FrameOk(h, st[k], ln[st[k].ply + 1].pos)
    <3>1. st[k] = r /\ r.ply < Len(ln) /\ r.ply + 1 = 1
      BY <1>11
    <3>. QED
      BY <3>1
  <2>. QED
    BY <2>1 DEF FramesOk
<1>7. Linked(st, s)
  <2>1. r.ply <= r.ply
    OBVIOUS
  <2>2. 1 .. Len(st) - 1 = {}
    BY <1>4
  <2>. QED
    BY <1>11, <2>1, <2>2 DEF Linked
<1>8. Topped(st, ln)
  <2>1. Made(r) = 0
    BY DEF Made, MadePcs
  <2>2. Reaches(ln, r)
    BY <2>1 DEF Reaches
  <2>3. st[Len(st)] = r
    BY <1>4
  <2>. QED
    BY <1>4, <2>2, <2>3 DEF Topped
<1>9. Counted(st, ln, a)
  <2>1. NullsOf(st) = {}
    BY <1>11 DEF NullsOf
  <2>2. Cardinality(NullsOf(st)) = 0
    BY <2>1, FS_EmptySet
  <2>. QED
    BY <2>2 DEF Counted
<1>10. Verifying(st, n)
  BY <1>11 DEF Verifying
<1>. QED
  BY <1>3, <1>5, <1>6, <1>7, <1>8, <1>9, <1>10 DEF Calls

LEMMA OneCall ==
  ASSUME NEW h, WellPosed(h), NEW depth \in Int, NEW ln, Len(ln) = 1, NEW a, a = 1, NEW s, NEW n, n = 0,
         NEW r, r = Frame("search", "Root", 0, h.window[1], h.window[2], depth, FALSE)
  PROVE  Calls(h, <<r>>, ln, a, s, n)
<1>1. FrameOk(h, r, ln[1].pos)
  <2>1. PICK x \in Int, y \in Int : x = h.window[1] /\ y = h.window[2]
    BY DEF WellPosed
  <2>2. -ValueInfinite <= x /\ x < y
    BY <2>1 DEF WellPosed
  <2>3. r = Frame("search", "Root", 0, x, y, depth, FALSE)
    BY <2>1
  <2>. QED
    BY <2>2, <2>3, RootOk
<1>2. r.ply = 0 /\ r.pc = "enter"
  BY DEF Frame
<1>. QED
  BY <1>1, <1>2, OneFrame

(* Between two iterations nothing is left of the search.                    *)
LEMMA AtRest ==
  ASSUME TreeInv, stack = << >>
  PROVE  Len(line) = 1 /\ acc = 1 /\ nmpMinPly = 0
<1>1. Len(stack) = 0
  OBVIOUS
<1>2. Topped(stack, line) /\ Counted(stack, line, acc) /\ Verifying(stack, nmpMinPly)
  BY DEF TreeInv, Calls
<1>3. Len(line) = 1
  BY <1>2 DEF Topped
<1>4. NullsOf(stack) = {}
  BY <1>1 DEF NullsOf
<1>5. Cardinality(NullsOf(stack)) = 0
  BY <1>4, FS_EmptySet
<1>. QED
  BY <1>1, <1>2, <1>3, <1>5 DEF Counted, Verifying

LEMMA NextIterationKeeps == TreeInv /\ NextIteration => TreeInv'
<1>. SUFFICES ASSUME TreeInv, NextIteration PROVE TreeInv'
  OBVIOUS
<1>1. /\ stack = << >> /\ Len(depths) > 1 /\ depths' = Tail(depths) /\ stack' = <<RootFrame(depths[2])>>
      /\ UNCHANGED <<G, line, acc, ss, ret, tt, nmpMinPly>>
  BY DEF NextIteration, board
<1>2. depths \in Seq(Nat \ {0}) /\ WellPosed(G)
  BY DEF TreeInv
<1>3. depths' \in Seq(Nat \ {0})
  BY <1>1, <1>2
<1>4. PICK d \in Int : d = depths[2]
  BY <1>1, <1>2
<1>5. PICK r : r = Frame("search", "Root", 0, G.window[1], G.window[2], d, FALSE)
  OBVIOUS
<1>6. stack' = <<r>>
  BY <1>1, <1>4, <1>5 DEF RootFrame, Search
<1>7. Calls(G, <<r>>, line, acc, ss, nmpMinPly)
  BY <1>1, <1>2, <1>5, AtRest, OneCall
<1>. QED
  BY <1>1, <1>3, <1>6, <1>7 DEF TreeInv

LEMMA TreeStarts == TreeInit => TreeInv
<1>. SUFFICES ASSUME TreeInit PROVE TreeInv
  OBVIOUS
<1>1. WellPosed(G)
  BY GamesAssumption DEF TreeInit, Library
<1>2. G.root \in DOMAIN G.moves /\ G.rule50 \in Nat /\ G.depths \in Seq(Nat \ {0}) /\ G.depths # << >>
  BY <1>1 DEF WellPosed
<1>3. TypedLine(G, line) /\ Len(line) = 1
  <2>1. PICK x : x = Start(G)
    OBVIOUS
  <2>2. x \in Plies(G) /\ x.pos = G.root
    BY <1>2, <2>1 DEF Start, Plies
  <2>3. line = <<x>>
    BY <2>1 DEF TreeInit
  <2>. QED
    BY <2>2, <2>3 DEF TypedLine
<1>4. TypedStack(ss)
  BY Sizes DEF TreeInit, TypedStack, StackFields, ValueNone
<1>5. TypedTable(G, tt)
  <2>1. ASSUME NEW p PROVE TypedEntry(G, Empty, p)
    BY DEF TypedEntry, Empty, EntryFields, MaybeMove, ValueNone
  <2>. QED
    BY <2>1 DEF TreeInit, TypedTable, Pos
<1>6. depths \in Seq(Nat \ {0}) /\ ret.v \in Int /\ acc = 1 /\ nmpMinPly = 0
  BY <1>2 DEF TreeInit
<1>7. PICK d \in Int : d = Head(G.depths)
  BY <1>2
<1>8. PICK r : r = Frame("search", "Root", 0, G.window[1], G.window[2], d, FALSE)
  OBVIOUS
<1>9. stack = <<r>>
  BY <1>7, <1>8 DEF TreeInit, RootFrame, Search
<1>10. Calls(G, <<r>>, line, acc, ss, nmpMinPly)
  BY <1>1, <1>3, <1>6, <1>8, OneCall
<1>. QED
  BY <1>1, <1>3, <1>4, <1>5, <1>6, <1>9, <1>10 DEF TreeInv

LEMMA SearchStepKeeps == TreeInv /\ SearchStep => TreeInv'
<1>. SUFFICES ASSUME TreeInv, SearchStep PROVE TreeInv'
  OBVIOUS
<1>1. CASE Dive \/ Enter \/ Probe \/ Cutoff \/ Tables \/ Prune
  BY <1>1, DiveKeeps, EnterKeeps, ProbeKeeps, CutoffKeeps, TablesKeeps, PruneKeeps
<1>2. CASE Null \/ NullBack \/ VerifyBack \/ ProbCut \/ ProbNext \/ ProbBack \/ Small
  BY <1>2, NullKeeps, NullBackKeeps, VerifyBackKeeps, ProbCutKeeps, ProbNextKeeps, ProbBackKeeps, SmallKeeps
<1>3. CASE Loop \/ SingularBack \/ Make \/ LmrBack \/ ZeroBack \/ PvSearch \/ TakeValue \/ Finish
  BY <1>3, LoopKeeps, SingularBackKeeps, MakeKeeps, LmrBackKeeps, ZeroBackKeeps, PvSearchKeeps, TakeValueKeeps, FinishKeeps
<1>4. CASE QEnter \/ QLoop \/ QBack \/ QFinish
  BY <1>4, QEnterKeeps, QLoopKeeps, QBackKeeps, QFinishKeeps
<1>. QED
  BY <1>1, <1>2, <1>3, <1>4 DEF SearchStep

LEMMA TreeStepKeeps == TreeInv /\ [TreeNext]_treeVars => TreeInv'
<1>1. TreeInv /\ RaiseStop => TreeInv'
  BY DEF RaiseStop, TreeInv, still, board
<1>2. TreeInv /\ UNCHANGED treeVars => TreeInv'
  BY DEF treeVars, TreeInv
<1>. QED
  BY <1>1, <1>2, SearchStepKeeps, NextIterationKeeps DEF TreeNext

-----------------------------------------------------------------------------
(* What the invariant says of the calls.                                    *)
LEMMA Balanced == TreeInv => SearchIsBalanced
<1>. SUFFICES ASSUME TreeInv PROVE SearchIsBalanced
  OBVIOUS
<1>1. CASE stack = << >>
  BY <1>1, AtRest DEF SearchIsBalanced
<1>2. CASE stack # << >>
  <2>1. /\ IsSeq(stack) /\ FramesOk(G, stack, line) /\ Linked(stack, ss) /\ Topped(stack, line)
        /\ Counted(stack, line, acc) /\ Verifying(stack, nmpMinPly)
    BY DEF TreeInv, Calls
  <2>2. f = stack[Len(stack)] /\ Len(stack) \in Nat \ {0} /\ Frames = 1 .. Len(stack) /\ 1 \in Frames
    BY <1>2, <2>1, Standing DEF Frames, IsSeq
  <2>3. ASSUME NEW k \in Frames
        PROVE  TypedFrame(stack[k]) /\ FrameWindow(stack[k]) /\ FrameProgress(stack[k])
    BY <2>1, <2>2 DEF FramesOk, FrameOk
  <2>4. ASSUME NEW k \in Frames, k + 1 \in Frames PROVE Answers(stack[k], stack[k + 1], ss)
    BY <2>1, <2>2, <2>4 DEF Linked
  <2>5. CallsAgreeWithBoard
    <3>1. stack[1].ply = 0 /\ Reaches(line, f)
      BY <1>2, <2>1, <2>2 DEF Topped
    <3>2. ASSUME NEW k \in Frames, k + 1 \in Frames PROVE stack[k + 1].ply = stack[k].ply + Bit(Waiting(stack[k]))
      BY <2>4, <3>2 DEF Answers, Onward, Bit, Waiting, SamePcs
    <3>3. Len(line) = f.ply + 1 + Bit(f.pc \in {"lmrBack", "zeroBack", "pvBack", "qback", "probBack",
                                               "probDeep", "nullBack", "value"})
      BY <3>1 DEF Reaches, Made, MadePcs, Bit
    <3>4. NullsOf(stack) = { k \in Frames : stack[k].pc = "nullBack" }
      BY <2>2 DEF NullsOf
    <3>5. acc = Len(line) - Cardinality({ k \in Frames : stack[k].pc = "nullBack" })
      BY <2>1, <3>4 DEF Counted
    <3>. QED
      BY <3>1, <3>2, <3>3, <3>5 DEF CallsAgreeWithBoard
  <2>6. NoCallIsNested
    <3>1. ASSUME NEW k \in Frames, k + 1 \in Frames, stack[k].pc = "nullBack" PROVE stack[k + 1].pc # "nullBack"
      <4>1. ~stack[k + 1].cut
        BY <2>4, <3>1 DEF Answers
      <4>2. FrameProgress(stack[k + 1]) /\ stack[k + 1].kind \in {"search", "qsearch"}
        BY <2>3, <3>1 DEF TypedFrame
      <4>. QED
        BY <4>1, <4>2 DEF FrameProgress, QPcs
    <3>2. ASSUME NEW j \in Frames, NEW k \in Frames, stack[j].pc = "verifyBack", stack[k].pc = "verifyBack" PROVE j = k
      BY <2>1, <2>2, <3>2 DEF Verifying
    <3>3. ASSUME NEW j \in Frames, NEW k \in Frames, stack[j].pc = "singularBack", stack[k].pc = "singularBack"
          PROVE  j = k \/ stack[j].ply # stack[k].ply
      BY <2>1, <2>2, <3>3, SingularsApart
    <3>4. nmpMinPly # 0 => \E k \in Frames : stack[k].pc = "verifyBack"
      BY <2>1, <2>2 DEF Verifying
    <3>. QED
      BY <3>1, <3>2, <3>3, <3>4 DEF NoCallIsNested
  <2>7. WindowsAreOpen
    <3>1. ASSUME NEW k \in Frames
          PROVE  /\ stack[k].alpha < stack[k].beta
                 /\ IF stack[k].type = "NonPV" THEN stack[k].alpha = stack[k].beta - 1 ELSE ~stack[k].cut
                 /\ stack[k].kind = "search" /\ stack[k].pc \notin {"enter", "finish"} => stack[k].best <= stack[k].alpha
      BY <2>3 DEF FrameWindow, FrameProgress
    <3>. QED
      BY <3>1 DEF WindowsAreOpen
  <2>8. TablesAreNotOverrun
    <3>1. ASSUME NEW k \in Frames
          PROVE  /\ stack[k].ply <= MaxPly
                 /\ stack[k].kind = "search" /\ stack[k].pc # "enter" =>
                      stack[k].depth \in 1 .. MaxMoves - 1 /\ stack[k].mc < MaxMoves
      <4>1. stack[k].ply <= MaxPly /\ stack[k].depth \in Int
        BY <2>3 DEF TypedFrame
      <4>2. ASSUME stack[k].kind = "search", stack[k].pc # "enter"
            PROVE  stack[k].depth \in 1 .. MaxMoves - 1 /\ stack[k].mc < MaxMoves
        <5>1. /\ 1 <= stack[k].depth /\ stack[k].mc < MaxMoves
              /\ stack[k].depth <= MaxPly + (IF stack[k].pc \in LoopPcs \ {"singularBack"} /\ 0 \notin stack[k].queue THEN 1 ELSE 0)
          BY <2>3, <4>2 DEF FrameProgress
        <5>2. stack[k].depth <= MaxPly + 1
          BY <4>1, <5>1, Sizes
        <5>. QED
          BY <4>1, <5>1, <5>2, Sizes
      <4>. QED
        BY <4>1, <4>2
    <3>. QED
      BY <3>1 DEF TablesAreNotOverrun
  <2>. QED
    BY <1>2, <2>5, <2>6, <2>7, <2>8 DEF SearchIsBalanced
<1>. QED
  BY <1>1, <1>2

(* The calls of search() and qsearch() agree with the position and the      *)
(* accumulators, never nest what must not nest, keep their windows open and *)
(* stay inside their tables, for every game, window, table of reductions    *)
(* and moment of a stop.                                                    *)
THEOREM SearchStaysBalanced == TreeSpec => []SearchIsBalanced
<1>1. TreeInit => TreeInv
  BY TreeStarts
<1>2. TreeInv /\ [TreeNext]_treeVars => TreeInv'
  BY TreeStepKeeps
<1>3. TreeInv => SearchIsBalanced
  BY Balanced
<1>. QED
  BY <1>1, <1>2, <1>3, PTL DEF TreeSpec
=============================================================================
