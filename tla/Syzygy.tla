------------------------------- MODULE Syzygy -------------------------------
(* How tbprobe.cpp turns a position into an index of a table: the squares   *)
(* folded by the symmetries of the board, the leading group, the groups     *)
(* that follow, in the order the file gives them. And how it finds the      *)
(* table: the materials Tablebases::init looks for and the Robin Hood hash  *)
(* they are entered in. A behaviour moves the men of a position one by one. *)
EXTENDS Integers, Sequences, FiniteSets, SequencesExt, FiniteSetsExt

CONSTANTS
  Tables,        \* the tables probed: records of TableOf, with orders and pieces
  Placements,    \* for each of them, squares of its men (in the order of pieces)
  Walk           \* how many men leave the squares of a placement

VARIABLE probe

NoProbe == [walked |-> 0, stm |-> 0, table |-> 0, at |-> << >>]

-----------------------------------------------------------------------------
(* Squares are 0 .. 63, pieces 1 .. 6 for white and 9 .. 14 for black.      *)
Squares == 0 .. 63
FileOf(s) == s % 8
RankOf(s) == s \div 8
flip_file(s) == 8 * RankOf(s) + 7 - FileOf(s)
flip_rank(s) == 8 * (7 - RankOf(s)) + FileOf(s)
Transposed(s) == 8 * FileOf(s) + RankOf(s)
EdgeDistance(f) == IF f > 3 THEN 7 - f ELSE f
off_A1H8(s) == RankOf(s) - FileOf(s)
Touching(s, t) ==
  /\ FileOf(s) - FileOf(t) \in -1 .. 1
  /\ RankOf(s) - RankOf(t) \in -1 .. 1

Pawn == 1
King == 6
TypeOf(pc) == pc % 8
Flipped(pc) == (pc + 8) % 16

(* The number of elements of S below s: the code of s when S is numbered in *)
(* ascending order.                                                         *)
CodeIn(S, s) == Cardinality({t \in S : t < s})

-----------------------------------------------------------------------------
(* The tables Tablebases::init computes.                                    *)
MapB1H1H7 ==
  LET below == {s \in Squares : off_A1H8(s) < 0} IN [s \in below |-> CodeIn(below, s)]

Triangle == {s \in Squares : FileOf(s) <= 3 /\ off_A1H8(s) <= 0}
MapA1D1D4 ==
  LET below == {s \in Triangle : off_A1H8(s) < 0}
  IN  [s \in Triangle |-> IF s \in below THEN CodeIn(below, s)
                          ELSE Cardinality(below) + CodeIn(Triangle \ below, s)]

(* Pairs of kings that are both on the diagonal are numbered last.          *)
KingPairs == {kk \in Triangle \X Squares :
                /\ ~Touching(kk[1], kk[2])
                /\ ~(off_A1H8(kk[1]) = 0 /\ off_A1H8(kk[2]) > 0)}
KingOrder(kk) ==
  (IF off_A1H8(kk[1]) = 0 /\ off_A1H8(kk[2]) = 0 THEN 1024 ELSE 0) + 64 * MapA1D1D4[kk[1]] + kk[2]
MapKK == LET orders == {KingOrder(kk) : kk \in KingPairs}
         IN  [kk \in KingPairs |-> CodeIn(orders, KingOrder(kk))]

(* Binomial[k][n], which init fills in by Pascal's rule, k up to 5.          *)
Binomial(k, n) ==
  CASE k = 0 -> 1
    [] k = 1 -> n
    [] k = 2 -> (n * (n - 1)) \div 2
    [] k = 3 -> (n * (n - 1) * (n - 2)) \div 6
    [] k = 4 -> (n * (n - 1) * (n - 2) * (n - 3)) \div 24
    [] k = 5 -> (n * (n - 1) * (n - 2) * (n - 3) * (n - 4)) \div 120

PawnSquares == 8 .. 55
MapPawns == [s \in PawnSquares |->
               47 - 12 * EdgeDistance(FileOf(s)) - 2 * (RankOf(s) - 1)
                  - (IF FileOf(s) > 3 THEN 1 ELSE 0)]

RanksBelow(r) == 1 .. r - 1
LeadPawns(cnt, f, ranks) ==
  FoldSet(LAMBDA r, idx : idx + Binomial(cnt - 1, MapPawns[8 * r + f]), 0, ranks)
LeadPawnIdx(cnt, s) == LeadPawns(cnt, FileOf(s), RanksBelow(RankOf(s)))
LeadPawnsSize(cnt, f) == LeadPawns(cnt, f, 1 .. 6)

-----------------------------------------------------------------------------
(* TBTable: what the name of a table says of it, each side a sequence of    *)
(* piece types. A key is the pair of the two sides' men as bags.            *)
Count(seq, x) == Cardinality({i \in DOMAIN seq : seq[i] = x})
Bag(side) == [pt \in Pawn .. King |-> Count(side, pt)]
TableOf(white, black) ==
  LET n(c) == Count(IF c = 0 THEN white ELSE black, Pawn)
      lead == IF n(1) = 0 \/ (n(0) > 0 /\ n(1) >= n(0)) THEN 0 ELSE 1
  IN [key  |-> <<Bag(white), Bag(black)>>,
      key2 |-> <<Bag(black), Bag(white)>>,
      pieceCount |-> Len(white) + Len(black),
      hasPawns |-> n(0) + n(1) > 0,
      hasUniquePieces |-> \E side \in {white, black} : \E pt \in Pawn .. King - 1 : Count(side, pt) = 1,
      pawnCount |-> <<n(lead), n(1 - lead)>>]

TwoPawnSides(T) == T.hasPawns /\ T.pawnCount[2] > 0

(* set_groups: how many men each group of the sequence pieces holds; the    *)
(* leading group takes the first firstLen of them whatever they are.        *)
GroupLengths(T, pieces) ==
  LET firstLen == IF T.hasPawns THEN 0 ELSE IF T.hasUniquePieces THEN 3 ELSE 2
      joins(i) == i <= firstLen \/ pieces[i] = pieces[i - 1]
      heads == {i \in 1 .. Len(pieces) : i = 1 \/ ~joins(i)}
      next(i) == Min({j \in heads : j > i} \cup {Len(pieces) + 1})
      at == SetToSortSeq(heads, <)
  IN  [g \in 1 .. Len(at) |-> next(at[g]) - at[g]]

(* ... and the weight of each group, in the order of the file: order[1] is  *)
(* the place of the leading group, order[2] that of the other side's pawns. *)
(* The last entry is the size of the table.                                 *)
RECURSIVE Layout(_, _, _, _, _, _, _, _)
Layout(T, lens, order, f, k, next, free, groupIdx) ==
  LET n == Len(lens)
      idx == groupIdx[n + 1]
      give(g, ways) == [groupIdx EXCEPT ![g] = idx, ![n + 1] = idx * ways]
  IN IF next > n /\ k # order[1] /\ k # order[2] THEN groupIdx
     ELSE IF k = order[1] THEN
       Layout(T, lens, order, f, k + 1, next, free,
              give(1, IF T.hasPawns THEN LeadPawnsSize(lens[1], f)
                      ELSE IF T.hasUniquePieces THEN 31332 ELSE 462))
     ELSE IF k = order[2] THEN
       Layout(T, lens, order, f, k + 1, next, free, give(2, Binomial(lens[2], 48 - lens[1])))
     ELSE Layout(T, lens, order, f, k + 1, next + 1, free - lens[next],
                 give(next, Binomial(lens[next], free)))

GroupWeights(T, lens, order, f) ==
  LET pp == TwoPawnSides(T)
  IN  Layout(T, lens, order, f, 0, IF pp THEN 3 ELSE 2,
             64 - lens[1] - (IF pp THEN lens[2] ELSE 0),
             [g \in 1 .. Len(lens) + 1 |-> IF g > Len(lens) THEN 1 ELSE 0])

(* PairsData as set() leaves it: one for each side to move (one only when   *)
(* the two sides have the same men) and, with pawns, for each file.         *)
Sides(T) == IF T.key # T.key2 THEN 2 ELSE 1
PairsOf(T, stm, f) ==
  LET side == 1 + (stm % Sides(T))
      lens == GroupLengths(T, T.pieces[side])
  IN  [pieces |-> T.pieces[side], groupLen |-> lens,
       groupIdx |-> GroupWeights(T, lens, T.order[side], f)]
TableSize(d) == d.groupIdx[Len(d.groupLen) + 1]

-----------------------------------------------------------------------------
(* do_probe_table. A position is the squares its men stand on and the side  *)
(* to move (0 for white).                                                   *)
MaterialOf(pos) ==
  LET men(c) == [pt \in Pawn .. King |->
                   Cardinality({s \in DOMAIN pos.on : pos.on[s] = pt + 8 * c})]
  IN  <<men(0), men(1)>>

FlipsFor(T, pos) == (T.key = T.key2 /\ pos.stm = 1) \/ MaterialOf(pos) # T.key

(* The position as the table sees it: its stronger side white.              *)
Seen(T, pos) ==
  IF FlipsFor(T, pos)
  THEN [on |-> [s \in {flip_rank(t) : t \in DOMAIN pos.on} |-> Flipped(pos.on[flip_rank(s)])],
        stm |-> 1 - pos.stm]
  ELSE pos

(* The men in the order of pieces, the k-th of equal ones on the k-th of    *)
(* their squares; the leading pawn is the one with the largest MapPawns.    *)
Arranged(d, seen) ==
  LET of(pc) == SetToSortSeq({s \in DOMAIN seen.on : seen.on[s] = pc}, <)
      nth(i) == Cardinality({j \in 1 .. i : d.pieces[j] = d.pieces[i]})
  IN  [i \in 1 .. Len(d.pieces) |-> of(d.pieces[i])[nth(i)]]

LeadingPawn(squares) == CHOOSE s \in squares : \A t \in squares : MapPawns[t] <= MapPawns[s]
LeadingPawnsOf(T, seen) == {s \in DOMAIN seen.on : seen.on[s] = T.pieces[1][1]}

TableFile(T, seen) ==
  IF T.hasPawns THEN EdgeDistance(FileOf(LeadingPawn(LeadingPawnsOf(T, seen)))) ELSE 0

Mapped(sq, Flip(_)) == [i \in 1 .. Len(sq) |-> Flip(sq[i])]

(* Without pawns the leading man goes to the triangle a1-d1-d4, and the     *)
(* first man of the leading group off the diagonal goes below it.           *)
Folded(T, d, sq, leader) ==
  LET files == IF FileOf(leader) > 3 THEN Mapped(sq, flip_file) ELSE sq
      ranks == IF RankOf(files[1]) > 3 THEN Mapped(files, flip_rank) ELSE files
      off == {i \in 1 .. d.groupLen[1] : off_A1H8(ranks[i]) # 0}
  IN  IF T.hasPawns THEN files
      ELSE IF off # {} /\ off_A1H8(ranks[Min(off)]) > 0 THEN Mapped(ranks, Transposed) ELSE ranks

LeadPawnsIndex(cnt, sq) ==
  LET lead == LeadingPawn({sq[i] : i \in 1 .. cnt})
      rest == SetToSortSeq({MapPawns[sq[i]] : i \in 1 .. cnt} \ {MapPawns[lead]}, <)
  IN  LeadPawnIdx(cnt, lead) + FoldLeft(LAMBDA acc, i : acc + Binomial(i, rest[i]), 0,
                                        [i \in 1 .. cnt - 1 |-> i])

Above(s, earlier) == Cardinality({i \in DOMAIN earlier : s > earlier[i]})

(* Three unique men: the first below the diagonal, or the second, or the    *)
(* third, or none of them.                                                  *)
LeadThreeIndex(a, b, c) ==
  LET adjust1 == Above(b, <<a>>)
      adjust2 == Above(c, <<a, b>>)
  IN  IF off_A1H8(a) # 0 THEN (MapA1D1D4[a] * 63 + (b - adjust1)) * 62 + c - adjust2
      ELSE IF off_A1H8(b) # 0 THEN (6 * 63 + RankOf(a) * 28 + MapB1H1H7[b]) * 62 + c - adjust2
      ELSE IF off_A1H8(c) # 0 THEN 6 * 63 * 62 + 4 * 28 * 62 + RankOf(a) * 7 * 28
                                   + (RankOf(b) - adjust1) * 28 + MapB1H1H7[c]
      ELSE 6 * 63 * 62 + 4 * 28 * 62 + 4 * 7 * 28 + RankOf(a) * 7 * 6
           + (RankOf(b) - adjust1) * 6 + (RankOf(c) - adjust2)

LeadIndex(T, d, sq) ==
  IF T.hasPawns THEN LeadPawnsIndex(d.groupLen[1], sq)
  ELSE IF T.hasUniquePieces THEN LeadThreeIndex(sq[1], sq[2], sq[3])
  ELSE MapKK[<<sq[1], sq[2]>>]

(* A later group: its squares in ascending order, each less the squares of  *)
(* earlier groups below it, and less the first rank for the other pawns.    *)
GroupIndex(squares, earlier, pawns) ==
  FoldLeft(LAMBDA n, i : n + Binomial(i, squares[i] - Above(squares[i], earlier)
                                           - (IF pawns THEN 8 ELSE 0)),
           0, [i \in 1 .. Len(squares) |-> i])

RestIndex(T, d, sq) ==
  LET from(g) == FoldSet(LAMBDA h, n : n + d.groupLen[h], 0, 1 .. g - 1)
      part(g) == GroupIndex(SortSeq(SubSeq(sq, from(g) + 1, from(g) + d.groupLen[g]), <),
                            SubSeq(sq, 1, from(g)), g = 2 /\ TwoPawnSides(T))
  IN  FoldSet(LAMBDA g, idx : idx + part(g) * d.groupIdx[g], 0, 2 .. Len(d.groupLen))

PairsFor(T, pos) == LET seen == Seen(T, pos) IN PairsOf(T, seen.stm, TableFile(T, seen))

Slotted(T, pos) ==
  LET seen == Seen(T, pos)
      d == PairsFor(T, pos)
      sq == Arranged(d, seen)
      leader == IF T.hasPawns THEN LeadingPawn(LeadingPawnsOf(T, seen)) ELSE sq[1]
      folded == Folded(T, d, sq, leader)
  IN  [side |-> seen.stm % Sides(T), file |-> TableFile(T, seen),
       index |-> LeadIndex(T, d, folded) * d.groupIdx[1] + RestIndex(T, d, folded),
       size |-> TableSize(d)]

-----------------------------------------------------------------------------
(* What the index must do. Two positions of a table are the same when a     *)
(* symmetry of the board (left and right, with pawns) or the exchange of    *)
(* the colours maps one to the other; the reflection in a long diagonal     *)
(* that holds the whole leading group is not used, nor the mirror when the  *)
(* leading pawn's mirror image is a leading pawn too.                       *)
On(pieces, at) == [s \in {at[i] : i \in DOMAIN at} |-> pieces[CHOOSE i \in DOMAIN at : at[i] = s]]
PositionAt(T, p) == [on |-> On(T.pieces[1], p.at), stm |-> p.stm]

Moved(pos, Map(_), Unmap(_)) ==
  [pos EXCEPT !.on = [s \in {Map(t) : t \in DOMAIN pos.on} |-> pos.on[Unmap(s)]]]
Colours(pos) ==
  [on |-> [s \in {flip_rank(t) : t \in DOMAIN pos.on} |-> Flipped(pos.on[flip_rank(s)])],
   stm |-> 1 - pos.stm]

OnLongDiagonal(squares) ==
  (\A s \in squares : off_A1H8(s) = 0) \/ (\A s \in squares : off_A1H8(flip_file(s)) = 0)
LeadingGroup(T, pos) ==
  LET d == PairsFor(T, pos)
      sq == Arranged(d, Seen(T, pos))
  IN  {sq[i] : i \in 1 .. d.groupLen[1]}

MirrorsLeader(T, pos) ==
  LET pawns == LeadingPawnsOf(T, Seen(T, pos)) IN flip_file(LeadingPawn(pawns)) \in pawns

Images(T, pos) ==
  LET mirror == {pos, Moved(pos, flip_file, flip_file)}
      upside == mirror \cup {Moved(q, flip_rank, flip_rank) : q \in mirror}
      turned == upside \cup {Moved(q, Transposed, Transposed) : q \in upside}
      board == IF T.hasPawns /\ MirrorsLeader(T, pos) THEN {pos}
               ELSE IF T.hasPawns THEN mirror
               ELSE IF OnLongDiagonal(LeadingGroup(T, pos)) THEN upside ELSE turned
  IN  board \cup {Colours(q) : q \in board}

Legal(T, at) ==
  /\ \A i, j \in DOMAIN at : i # j => at[i] # at[j]
  /\ \A i \in DOMAIN at : TypeOf(T.pieces[1][i]) = Pawn => at[i] \in PawnSquares
  /\ \A i, j \in DOMAIN at : i # j /\ TypeOf(T.pieces[1][i]) = King /\ TypeOf(T.pieces[1][j]) = King
       => ~Touching(at[i], at[j])

Neighbours(T, p) ==
  {q \in {[p EXCEPT !.at = [p.at EXCEPT ![i] = s]] : i \in DOMAIN p.at, s \in Squares} :
     Legal(T, q.at)}

(* Every position has an index inside its table, its images have the same,  *)
(* and no other position one man away shares it (asked of the placements).  *)
IndexNamesPosition ==
  probe.walked > 0 =>
  LET T == Tables[probe.table]
      pos == PositionAt(T, probe)
      slot == Slotted(T, pos)
      images == Images(T, pos)
  IN  /\ slot.index \in 0 .. slot.size - 1
      /\ \A q \in images : Slotted(T, q) = slot
      /\ probe.walked = 1 =>
           \A n \in Neighbours(T, probe) :
             LET q == PositionAt(T, n) IN q \in images \/ Slotted(T, q) # slot

(* The leading groups leave no hole: 462 pairs of kings, 31332 triples and, *)
(* with pawns, every index of every file.                                   *)
LeadTriples ==
  {t \in Triangle \X Squares \X Squares :
     /\ Cardinality({t[1], t[2], t[3]}) = 3
     /\ LET off == {i \in 1 .. 3 : off_A1H8(t[i]) # 0}
        IN  off = {} \/ off_A1H8(t[Min(off)]) < 0}
LeadGroupsAreDense ==
  probe.walked = 1 /\ probe.table = 1 =>
    /\ {MapKK[kk] : kk \in KingPairs} = 0 .. 461
    /\ {LeadThreeIndex(t[1], t[2], t[3]) : t \in LeadTriples} = 0 .. 31331
    /\ \A f \in 0 .. 3 : \A cnt \in 1 .. 2 :
         LET leads == {S \in {{s, t} : s, t \in PawnSquares} :
                         Cardinality(S) = cnt /\ FileOf(LeadingPawn(S)) = f}
         IN  {LeadPawnsIndex(cnt, SetToSeq(S)) : S \in leads} = 0 .. LeadPawnsSize(cnt, f) - 1

-----------------------------------------------------------------------------
(* The materials Tablebases::init looks for, by its nested loops: the men   *)
(* of white and of black besides the kings, each side in descending order.  *)
Kinds == Pawn .. King - 1
Descending(k) == {s \in [1 .. k -> Kinds] : \A i \in 1 .. k - 1 : s[i + 1] <= s[i]}

CodesLoose ==
  UNION {Descending(n[1]) \X Descending(n[2]) :
           n \in {<<1, 0>>, <<2, 0>>, <<2, 1>>, <<3, 0>>, <<4, 0>>, <<5, 0>>, <<4, 1>>, <<3, 1>>, <<3, 2>>}}
  \cup {c \in Descending(1) \X Descending(1) : c[2][1] <= c[1][1]}
  \cup {c \in Descending(2) \X Descending(2) : c[2][1] <= c[1][1]}
Codes ==
  UNION {Descending(n[1]) \X Descending(n[2]) :
           n \in {<<1, 0>>, <<2, 0>>, <<2, 1>>, <<3, 0>>, <<4, 0>>, <<5, 0>>, <<4, 1>>, <<3, 1>>, <<3, 2>>}}
  \cup {c \in Descending(1) \X Descending(1) : c[2][1] <= c[1][1]}
  \cup {c \in Descending(2) \X Descending(2) :
          c[2][1] <= c[1][1] /\ c[2][2] <= (IF c[1][1] = c[2][1] THEN c[1][2] ELSE c[2][1])}

(* Up to seven men, every material is looked for, under one name only.      *)
EveryMaterialHasOneName ==
  probe.walked = 1 /\ probe.table = 1 =>
    LET pairs == {n \in (0 .. 5) \X (0 .. 5) : n[1] + n[2] \in 1 .. 5}
    IN  \A c \in UNION {Descending(n[1]) \X Descending(n[2]) : n \in pairs} :
          Cardinality({c, <<c[2], c[1]>>} \cap Codes) = 1

-----------------------------------------------------------------------------
ProbeInit == probe = NoProbe
Choose ==
  /\ probe.walked = 0
  /\ \E t \in DOMAIN Tables : \E at \in Placements[t], stm \in 0 .. 1 :
       /\ Legal(Tables[t], at)
       /\ probe' = [walked |-> 1, stm |-> stm, table |-> t, at |-> at]
MoveMan ==
  /\ probe.walked \in 1 .. Walk
  /\ \E n \in Neighbours(Tables[probe.table], probe) :
       n.at # probe.at /\ probe' = [n EXCEPT !.walked = probe.walked + 1]
ProbeNext == Choose \/ MoveMan

(* Stated of the whole reader.                                              *)
ReaderIsFaithful == IndexNamesPosition /\ LeadGroupsAreDense /\ EveryMaterialHasOneName
=============================================================================
