----------------------------- MODULE MovePicker -----------------------------
(***************************************************************************)
(* The picker that deals the moves of one node, best first, generating     *)
(* them stage by stage (src/src/engine/movepick.cpp).  Captures and quiets *)
(* share one array: the captures that lose material are swapped to its     *)
(* front while the good ones are dealt, and the quiets follow them.  What  *)
(* score computes from the histories, and see_ge from the board, is an     *)
(* input here: any value and any outcome.                                  *)
(***************************************************************************)
EXTENDS Integers, Sequences, FiniteSets, SequencesExt

CONSTANTS
  Captures, Quiets,   \* the captures and the other moves of the node
  Stray,              \* a table move that is not legal here
  PickDepths,         \* depths of main-search nodes
  CaptureValues,      \* what score gives a capture
  QuietValues         \* and a quiet

AboveQuiets == 268435456    \* 1 << 28

(* A move is a capture, a quiet or not one of the node's, and scores are    *)
(* numbers; those of the histories never reach what an evasion that         *)
(* captures is given on top (1 << 28).                                      *)
ASSUME PickerAssumption ==
  /\ Captures \cap Quiets = {} /\ Stray \notin Captures \cup Quiets
  /\ "none" \notin Captures \cup Quiets
  /\ IsFiniteSet(Captures) /\ IsFiniteSet(Quiets)
ASSUME ScoreAssumption ==
  /\ PickDepths \subseteq Int /\ CaptureValues \subseteq Int /\ QuietValues \subseteq Int
  /\ \A c \in CaptureValues, q \in QuietValues : q < c + AboveQuiets

VARIABLES node, picker, dealt

pickVars == <<node, picker, dealt>>

quietSortScale     == 3560
goodQuietThreshold == -14000
goodQuietDepth     == (-goodQuietThreshold + quietSortScale - 1) \div quietSortScale

none  == "none"
Unwritten == 0          \* a pointer that nothing has written yet

(* What score stores: the sum of the histories, which is the node's input,  *)
(* and of an evasion that captures a value far above any of them.           *)
Slot(m) == [move |-> m, value |-> IF node.mode = "evasion" /\ m \in Captures
                                  THEN node.value[m] + AboveQuiets ELSE node.value[m]]
See(m)  == node.see[m]

(* What select is asked for: every move, a capture that does not lose       *)
(* material, or a quiet on one side of the threshold.                       *)
Every      == {Slot(m) : m \in Captures \cup Quiets}
Winning    == {Slot(m) : m \in {c \in Captures : See(c)}}
LikelyGood == {s \in Every : s.value > goodQuietThreshold}
LikelyBad  == Every \ LikelyGood

(* The two constructors: the table move is dealt first if it is legal, and  *)
(* in ProbCut if it is a capture too.                                       *)
TableStage(mode) == CASE mode = "main" -> "MAIN_TT" [] mode = "evasion" -> "EVASION_TT"
                      [] mode = "qsearch" -> "QSEARCH_TT" [] OTHER -> "PROBCUT_TT"
FirstInit(mode)  == CASE mode = "main" -> "CAPTURE_INIT" [] mode = "evasion" -> "EVASION_INIT"
                      [] mode = "qsearch" -> "QCAPTURE_INIT" [] OTHER -> "PROBCUT_INIT"

Nodes == [mode : {"main"}, depth : PickDepths, tt : Captures \cup Quiets \cup {Stray, none},
          value : [Captures -> CaptureValues], see : [Captures -> BOOLEAN]]
         \cup [mode : {"evasion", "qsearch", "probcut"}, depth : {0},
               tt : Captures \cup Quiets \cup {Stray, none},
               value : [Captures -> CaptureValues], see : [Captures -> BOOLEAN]]

PickInit ==
  /\ \E n \in Nodes, v \in [Quiets -> QuietValues] :
       node = [n EXCEPT !.value = [m \in Captures \cup Quiets |->
                                     IF m \in Quiets THEN v[m] ELSE n.value[m]]]
  /\ LET taken == IF node.mode = "probcut" THEN Captures ELSE Captures \cup Quiets
     IN  picker = [stage |-> IF node.tt \in taken THEN TableStage(node.mode) ELSE FirstInit(node.mode),
                   moves |-> << >>, cur |-> 1, endCur |-> 1, endBadCaptures |-> Unwritten,
                   endCaptures |-> Unwritten, endGenerated |-> Unwritten, skipQuiets |-> FALSE, skippedAt |-> 0]
  /\ dealt = << >>

-----------------------------------------------------------------------------
(* sort_quiets and sort_all, which every move reaches: the first move and   *)
(* those that reach the limit are sorted to the front; each makes way by    *)
(* exchange with the first unsorted one and climbs down to its place.       *)
SortStep(a, p, reaching) ==
  LET x == a.seq[p]
      place == CHOOSE q \in 1 .. a.end + 1 :
                 /\ q = 1 \/ a.seq[q - 1].value >= x.value
                 /\ \A i \in q .. a.end : a.seq[i].value < x.value
  IN  IF x \notin reaching THEN a
      ELSE [end |-> a.end + 1,
            seq |-> [i \in DOMAIN a.seq |->
                       IF i = place THEN x
                       ELSE IF place < i /\ i <= a.end + 1 THEN a.seq[i - 1]
                       ELSE IF i = p THEN a.seq[a.end + 1] ELSE a.seq[i]]]

InsertionSort(s, reaching) ==
  LET sorted[p \in 1 .. Len(s)] == IF p = 1 THEN [seq |-> s, end |-> 1]
                                   ELSE SortStep(sorted[p - 1], p, reaching)
  IN  IF s = << >> THEN s ELSE sorted[Len(s)].seq

sort_all(s)           == InsertionSort(s, Every)
sort_quiets(s, limit) == InsertionSort(s, {x \in Every : x.value >= limit})

(* gen_and_score writes at cur, over whatever lies there.                   *)
GenerateAt(p, s) ==
  [p EXCEPT !.moves = [i \in 1 .. p.cur + Len(s) - 1 |-> IF i < p.cur THEN p.moves[i] ELSE s[i - p.cur + 1]],
            !.endCur = p.cur + Len(s)]

Listed(S) == SetToSeq({Slot(m) : m \in S})

(* select: the next move that passes, the table move never.                 *)
Result(p, m) == [picker |-> p, move |-> m]
select(p, passing) ==
  LET hits == {i \in p.cur .. p.endCur - 1 : p.moves[i].move # node.tt /\ p.moves[i] \in passing}
      i == CHOOSE i \in hits : \A j \in hits : i <= j
  IN  IF hits = {} THEN Result([p EXCEPT !.cur = p.endCur], none)
      ELSE Result([p EXCEPT !.cur = i + 1], p.moves[i].move)

(* The walk of GOOD_CAPTURE, which swaps what loses material to the front.  *)
CaptureStep(r, i) ==
  LET p == r.picker
      s == p.moves[i]
      swapped == [p.moves EXCEPT ![p.endBadCaptures] = s, ![i] = p.moves[p.endBadCaptures]]
  IN  IF r.move # none THEN r
      ELSE IF s.move = node.tt THEN Result([p EXCEPT !.cur = i + 1], none)
      ELSE IF See(s.move) THEN Result([p EXCEPT !.cur = i + 1], s.move)
      ELSE Result([p EXCEPT !.moves = swapped, !.endBadCaptures = p.endBadCaptures + 1, !.cur = i + 1], none)

GoodCapture(p) ==
  LET walked[k \in 0 .. p.endCur - p.cur] ==
        IF k = 0 THEN Result(p, none) ELSE CaptureStep(walked[k - 1], p.cur + k - 1)
  IN  walked[p.endCur - p.cur]

BadQuiet(p) ==
  IF p.skipQuiets THEN Result(p, none)
  ELSE select(p, LikelyBad)

ToBadQuiets(p) ==
  IF p.skipQuiets THEN [p EXCEPT !.stage = "BAD_QUIET"]
  ELSE [p EXCEPT !.stage = "BAD_QUIET", !.cur = p.endCaptures, !.endCur = p.endGenerated]

BadCapture(p) ==
  LET r == select(p, Every)
  IN  IF r.move # none THEN r ELSE BadQuiet(ToBadQuiets(r.picker))

(* At depths whose sort reaches the threshold, nothing good lies beyond the *)
(* first move that is not.                                                  *)
EarlyBreak(p) ==
  LET stops == {i \in p.cur .. p.endCur - 1 : p.moves[i].value <= goodQuietThreshold}
      stop == IF stops = {} THEN p.endCur ELSE CHOOSE i \in stops : \A j \in stops : i <= j
  IN  [select([p EXCEPT !.endCur = stop], Every) EXCEPT !.picker.endCur = p.endCur]

(* Mutant: breaks early a depth too soon.                                   *)
GoodQuietTooSoon(p) ==
  LET r == IF p.skipQuiets THEN Result(p, none)
           ELSE IF node.depth >= goodQuietDepth - 1 THEN EarlyBreak(p)
           ELSE select(p, LikelyGood)
  IN  IF r.move # none THEN r
      ELSE BadCapture([r.picker EXCEPT !.stage = "BAD_CAPTURE", !.cur = 1, !.endCur = p.endBadCaptures])

GoodQuiet(p) ==
  LET r == IF p.skipQuiets THEN Result(p, none)
           ELSE IF node.depth >= goodQuietDepth THEN EarlyBreak(p)
           ELSE select(p, LikelyGood)
  IN  IF r.move # none THEN r
      ELSE BadCapture([r.picker EXCEPT !.stage = "BAD_CAPTURE", !.cur = 1, !.endCur = p.endBadCaptures])

QuietInit(p) ==
  LET q == GenerateAt(p, sort_quiets(Listed(Quiets), -quietSortScale * node.depth))
  IN  IF p.skipQuiets THEN [p EXCEPT !.stage = "GOOD_QUIET"]
      ELSE [q EXCEPT !.stage = "GOOD_QUIET", !.endGenerated = q.endCur]

CaptureInit(p, stage) ==
  LET q == GenerateAt([p EXCEPT !.cur = 1], sort_all(Listed(Captures)))
  IN  [q EXCEPT !.stage = stage, !.endBadCaptures = 1, !.endCaptures = q.endCur]

EvasionInit(p) ==
  LET q == GenerateAt([p EXCEPT !.cur = 1], sort_all(Listed(Captures \cup Quiets)))
  IN  [q EXCEPT !.stage = "EVASION", !.endGenerated = q.endCur]

GoodCaptureThenQuiets(p) ==
  LET r == GoodCapture(p)
  IN  IF r.move # none THEN r ELSE GoodQuiet(QuietInit(r.picker))

(* generate_stage and walk_lists: what one call returns, and leaves.        *)
Deal(p) ==
  CASE p.stage \in {"MAIN_TT", "EVASION_TT", "QSEARCH_TT", "PROBCUT_TT"} ->
         Result([p EXCEPT !.stage = FirstInit(node.mode)], node.tt)
    [] p.stage = "CAPTURE_INIT"  -> GoodCaptureThenQuiets(CaptureInit(p, "GOOD_CAPTURE"))
    [] p.stage = "GOOD_CAPTURE"  -> GoodCaptureThenQuiets(p)
    [] p.stage = "GOOD_QUIET"    -> GoodQuiet(p)
    [] p.stage = "BAD_CAPTURE"   -> BadCapture(p)
    [] p.stage = "BAD_QUIET"     -> BadQuiet(p)
    [] p.stage = "EVASION_INIT"  -> select(EvasionInit(p), Every)
    [] p.stage = "QCAPTURE_INIT" -> select(CaptureInit(p, "QCAPTURE"), Every)
    [] p.stage \in {"EVASION", "QCAPTURE"} -> select(p, Every)
    [] p.stage = "PROBCUT_INIT"  -> select(CaptureInit(p, "PROBCUT"), Winning)
    [] OTHER                     -> select(p, Winning)

Finished == dealt # << >> /\ Last(dealt) = none

next_move ==
  /\ ~Finished
  /\ LET r == Deal(picker)
     IN  picker' = r.picker /\ dealt' = Append(dealt, r.move)
  /\ UNCHANGED node

(* The search gives up on quiets; it never takes that back.                 *)
skip_quiet_moves ==
  /\ node.mode \in {"main", "evasion"} /\ dealt # << >> /\ ~Finished /\ ~picker.skipQuiets
  /\ picker' = [picker EXCEPT !.skipQuiets = TRUE, !.skippedAt = Len(dealt)]
  /\ UNCHANGED <<node, dealt>>

PickNext == next_move \/ skip_quiet_moves

PickSpec == PickInit /\ [][PickNext]_pickVars

-----------------------------------------------------------------------------
(* Each move of the node is dealt at most once and, unless the search has   *)
(* given up on quiets, none is forgotten when none is left: though the      *)
(* table move jumps the queue, though captures change places while they are *)
(* walked, and though the walk of the good quiets may stop early.  They     *)
(* come in the order the stages promise: the table move, good captures,     *)
(* good quiets, bad captures, bad quiets; of evasions the captures first.   *)
(* Once quiets are given up, none is dealt (movepick.cpp next_move,         *)
(* generate_stage, walk_lists, sort_quiets).                                *)
Dealt == {dealt[i] : i \in DOMAIN dealt} \ {none}

Owed ==
  LET tt == {node.tt} \cap (IF node.mode = "probcut" THEN Captures ELSE Captures \cup Quiets)
  IN  tt \cup CASE node.mode = "evasion" -> Captures \cup Quiets
                [] node.mode = "main" -> IF picker.skipQuiets THEN Captures ELSE Captures \cup Quiets
                [] node.mode = "qsearch" -> Captures
                [] OTHER -> {m \in Captures : See(m)}

Turn(m) == IF m = node.tt THEN 0
           ELSE IF m \in Captures THEN (IF See(m) THEN 1 ELSE 3)
           ELSE IF node.value[m] > goodQuietThreshold THEN 2 ELSE 4

DealsEveryMoveOnce ==
  /\ IsInjective(dealt)
  /\ Finished => Owed \subseteq Dealt
  /\ ~picker.skipQuiets => Dealt \subseteq Owed
  /\ node.mode = "evasion" =>
       \A i, j \in DOMAIN dealt : i < j /\ dealt[j] \in Captures => dealt[i] \in Captures \cup {node.tt}
  /\ node.mode = "main" =>
       /\ \A i, j \in DOMAIN dealt : i < j /\ dealt[j] # none => Turn(dealt[i]) <= Turn(dealt[j])
       /\ picker.skipQuiets => \A i \in DOMAIN dealt : i > picker.skippedAt => dealt[i] \notin Quiets
=============================================================================
