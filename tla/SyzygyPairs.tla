----------------------------- MODULE SyzygyPairs -----------------------------
(* The compressed values of a table: set_sizes(), which refuses a table     *)
(* whose header describes something the file does not hold, and             *)
(* decompress_pairs(), which finds the block of an index, reads canonical   *)
(* Huffman symbols from it and expands the pairs they stand for. A          *)
(* behaviour compresses values symbol by symbol, then damages the file.     *)
(* The widths are parameters: a machine word of the stream, the half word   *)
(* it is refilled with, the symbols' domain, the index bits of lenTab.      *)
EXTENDS Integers, Sequences, FiniteSets, SequencesExt, FiniteSetsExt

CONSTANTS
  Half,          \* 32: bits read by a refill, half the bits of the window
  LenTabMaxBits, \* 12
  SymCount,      \* 4096
  Shapes,        \* alphabets: [min, lowest, tree], tree[s] = <<left, right>>
  Spans,         \* values between two entries of sparseIndex
  BlockWords,    \* half words of a block: two at least in any file that was compressed
  Paddings,      \* entries of blockLength past the last block
  MaxSymbols     \* symbols compressed

VARIABLE file    \* what is on disk, or NoFile

NoFile == [stream |-> << >>]
Window == 2 * Half
Word == 2^Window
Leaf == SymCount - 1          \* the right child 0xFFF
LeafNode == <<0, Leaf>>
NoFastLen == 255
Symbols == 0 .. SymCount - 1

Shr(x, n) == x \div 2^n
Shl(x, n) == (x * 2^n) % Word
FitsIn(count, room) == count <= room

-----------------------------------------------------------------------------
(* set_symlen: a symbol's children come first, and one that is being        *)
(* visited closes a cycle. The walk is [len, colour, cyclic].               *)
RECURSIVE SetSymlen(_, _, _)
SetSymlen(tree, s, w) ==
  LET grey == [w EXCEPT !.colour[s] = "grey"]
      sl == tree[s][1]
      sr == tree[s][2]
      visit(c, v) == IF v.colour[c] = "white" THEN SetSymlen(tree, c, v) ELSE v
      both == visit(sr, visit(sl, grey))
  IN IF sr = Leaf THEN [w EXCEPT !.colour[s] = "black", !.len[s] = 0]
     ELSE IF "grey" \in {grey.colour[sl], grey.colour[sr]}
       THEN [grey EXCEPT !.colour[s] = "black", !.cyclic = TRUE, !.len[s] = 0]
     ELSE [both EXCEPT !.colour[s] = "black", !.len[s] = (both.len[sl] + both.len[sr] + 1) % 256]

SymbolLengths(tree, declared) ==
  FoldLeft(LAMBDA w, s : IF w.colour[s - 1] = "white" THEN SetSymlen(tree, s - 1, w) ELSE w,
           [len |-> [s \in Symbols |-> 0], colour |-> [s \in Symbols |-> "white"], cyclic |-> FALSE],
           [i \in 1 .. declared |-> i])

(* base64: one entry for each code length, the last 0. Before the padding a *)
(* base is the number of codes of its length that longer codes begin with.  *)
RECURSIVE BasesFrom(_, _, _)
BasesFrom(lowest, i, bases) ==
  IF i = 0 THEN bases
  ELSE BasesFrom(lowest, i - 1, <<((Head(bases) + lowest[i] - lowest[i + 1]) % Word) \div 2>> \o bases)
Bases(lowest) == BasesFrom(lowest, Len(lowest) - 1, <<0>>)

Canonical(bases) == \A i \in 1 .. Len(bases) - 1 : (2 * bases[i]) % Word >= bases[i + 1]

(* The largest window that reaches length i: one less than the first base   *)
(* above it, unless that base was 0, which every window reaches.            *)
Reaches(base, i) == \A j \in 1 .. i - 1 : base[j] # 0
Upper(base, i) == IF i = 1 THEN Word - 1 ELSE base[i - 1] - 1
AlphabetHolds(base, lowest, min) ==
  \A i \in 1 .. Len(base) :
    Reaches(base, i) /\ Upper(base, i) >= base[i]
      => lowest[i] + Shr(Upper(base, i) - base[i], Window + 1 - i - min) < SymCount

Least(a, b) == IF a < b THEN a ELSE b
Most(a, b) == IF a > b THEN a ELSE b

(* lenTab: the length every code beginning with these bits has, when its    *)
(* length is within the bits; a later length overwrites an earlier one.     *)
LenTab(base, min, bits) ==
  LET fills(i) == {b \in 0 .. 2^bits - 1 :
                     /\ Reaches(base, i) /\ i - 1 + min <= bits /\ Upper(base, i) >= base[i]
                     /\ Shr(base[i], Window - bits) <= b /\ b <= Shr(Upper(base, i), Window - bits)}
      for(b) == {i \in 1 .. Len(base) : b \in fills(i)}
  IN  [b \in 0 .. 2^bits - 1 |-> IF for(b) = {} THEN NoFastLen ELSE Max(for(b))]

(* set_sizes. The result is a refusal or what decompress_pairs reads. The   *)
(* arrays' room in the file is their length in the record.                  *)
Refused == [ok |-> FALSE]
SetSizes(f) ==
  LET sparseIndexSize == (f.tbSize + f.span - 1) \div f.span
      blocksNum == f.blocksNum
      blockLengthSize == blocksNum + f.padding
      n == f.max - f.min + 1
      lowest == SubSeq(f.lowest, 1, n)
      bases == Bases(lowest)
      base == [i \in 1 .. n |-> Shl(bases[i], Window + 1 - i - f.min)]
      bits == Least(f.max, LenTabMaxBits)
      tree == [s \in Symbols |-> IF s < f.declared THEN f.tree[s] ELSE LeafNode]
      walk == SymbolLengths(tree, f.declared)
  IN IF f.single THEN [ok |-> TRUE, single |-> TRUE, value |-> f.min]
     ELSE IF blockLengthSize = 0 \/ f.blockWords < 1 THEN Refused
     ELSE IF f.min = 0 \/ f.min > f.max \/ f.max >= Window THEN Refused
     ELSE IF ~FitsIn(n, Len(f.lowest)) THEN Refused
     ELSE IF ~Canonical(bases) \/ ~AlphabetHolds(base, lowest, f.min) THEN Refused
     ELSE IF f.declared > SymCount \/ walk.cyclic THEN Refused
     ELSE IF ~FitsIn(sparseIndexSize, Len(f.sparse)) \/ ~FitsIn(blockLengthSize, Len(f.blockLength))
             \/ ~FitsIn(blocksNum * f.blockWords, Len(f.words)) THEN Refused
     ELSE [ok |-> TRUE, single |-> FALSE, span |-> f.span, sparse |-> f.sparse,
           blockLength |-> f.blockLength, blockLengthSize |-> blockLengthSize,
           blockWords |-> f.blockWords, words |-> SubSeq(f.words, 1, blocksNum * f.blockWords),
           min |-> f.min, base |-> base, lenTab |-> LenTab(base, f.min, bits), bits |-> bits,
           escapeLen |-> 1 + Least(Most(bits - f.min + 1, 0), n - 1),
           symBase |-> [i \in 1 .. n |-> lowest[i] - Shr(base[i], Window + 1 - i - f.min)],
           tree |-> tree, symlen |-> walk.len]

-----------------------------------------------------------------------------
(* decompress_pairs. Outside marks a read outside an array: no step of an   *)
(* accepted table takes it.                                                 *)
Outside == -1
RECURSIVE WalkBack(_, _), WalkOn(_, _), WalkOnTooFar(_, _)
WalkBack(d, at) ==
  IF at.offset < 0 /\ at.block > 0
  THEN WalkBack(d, [block |-> at.block - 1, offset |-> at.offset + d.blockLength[at.block] + 1])
  ELSE at
WalkOnTooFar(d, at) ==
  IF at.offset >= d.blockLength[at.block + 1] /\ at.block + 1 < d.blockLengthSize
  THEN WalkOnTooFar(d, [block |-> at.block + 1, offset |-> at.offset - d.blockLength[at.block + 1] - 1])
  ELSE at
WalkOn(d, at) ==
  IF at.offset > d.blockLength[at.block + 1] /\ at.block + 1 < d.blockLengthSize
  THEN WalkOn(d, [block |-> at.block + 1, offset |-> at.offset - d.blockLength[at.block + 1] - 1])
  ELSE at

BlockOf(d, idx) ==
  LET entry == d.sparse[idx \div d.span + 1]
      diff == (idx % d.span) - d.span \div 2
      from == Least(entry.block, d.blockLengthSize - 1)
  IN  WalkOn(d, WalkBack(d, [block |-> from, offset |-> entry.offset + diff]))

(* The half word at a position of the data, zeros past its end.             *)
HalfWord(d, p) == IF p < Len(d.words) THEN d.words[p + 1] ELSE 0
FirstWindow(d, p) ==
  IF p + 2 <= Len(d.words) THEN HalfWord(d, p) * 2^Half + HalfWord(d, p + 1) ELSE 0

LengthOf(d, buf) ==
  LET len == d.lenTab[Shr(buf, Window - d.bits)]
      slow == {i \in d.escapeLen .. Len(d.base) : buf >= d.base[i]}
  IN  IF len # NoFastLen THEN len ELSE IF slow = {} THEN 0 ELSE Min(slow)

RECURSIVE FindSymbol(_, _)
FindSymbol(d, r) ==
  LET len == LengthOf(d, r.buf)
      sym == d.symBase[len] + Shr(r.buf, Window + 1 - len - d.min)
      real == len - 1 + d.min
      size == r.size - real
      shifted == Shl(r.buf, real)
      refill == size <= Half
  IN IF len = 0 THEN [sym |-> Outside, offset |-> 0]
     ELSE IF sym \notin Symbols THEN [sym |-> Outside, offset |-> 0]
     ELSE IF r.offset < d.symlen[sym] + 1 THEN [sym |-> sym, offset |-> r.offset]
     ELSE FindSymbol(d, [offset |-> r.offset - d.symlen[sym] - 1,
                         buf |-> IF refill THEN shifted + HalfWord(d, r.ptr) * 2^(Half - size) ELSE shifted,
                         size |-> IF refill THEN size + Half ELSE size,
                         ptr |-> IF refill THEN r.ptr + 1 ELSE r.ptr])

RECURSIVE Expand(_, _, _)
Expand(d, sym, offset) ==
  IF d.symlen[sym] = 0 THEN d.tree[sym][1]
  ELSE LET left == d.tree[sym][1]
           leftLen == d.symlen[left]
       IN  IF offset < leftLen + 1 THEN Expand(d, left, offset)
           ELSE Expand(d, d.tree[sym][2], offset - leftLen - 1)

decompress_pairs(d, idx) ==
  IF d.single THEN d.value
  ELSE LET at == BlockOf(d, idx)
           p == at.block * d.blockWords
           found == FindSymbol(d, [offset |-> at.offset, buf |-> FirstWindow(d, p), size |-> Window, ptr |-> p + 2])
       IN  IF found.sym = Outside THEN Outside ELSE Expand(d, found.sym, found.offset)

-----------------------------------------------------------------------------
(* The compressor, which is not in the repository: what a well-formed file  *)
(* of these values holds. A symbol of length i has the i-th base plus its   *)
(* distance from the lowest symbol of that length as its code.              *)
LengthIn(shape, s) == Min({i \in 1 .. Len(shape.lowest) : shape.lowest[i] <= s})
Code(shape, s) == LET i == LengthIn(shape, s)
                  IN  [bits |-> i - 1 + shape.min, value |-> Bases(shape.lowest)[i] + s - shape.lowest[i]]
BitsOf(c) == [j \in 1 .. c.bits |-> Shr(c.value, c.bits - j) % 2]

RECURSIVE ValuesOf(_, _)
ValuesOf(tree, s) ==
  IF tree[s][2] = Leaf THEN <<tree[s][1]>> ELSE ValuesOf(tree, tree[s][1]) \o ValuesOf(tree, tree[s][2])
ValuesIn(f) == FlattenSeq([i \in 1 .. Len(f.stream) |-> ValuesOf(f.shape.tree, f.stream[i])])

(* A symbol that does not fit the rest of the block begins the next one.    *)
Packed(f) ==
  LET add(blocks, s) ==
        LET bits == BitsOf(Code(f.shape, s))
            here == blocks # << >> /\ Len(Last(blocks).bits) + Len(bits) <= f.blockWords * Half
            new == [bits |-> bits, count |-> Len(ValuesOf(f.shape.tree, s))]
        IN IF here THEN Front(blocks) \o <<[bits |-> Last(blocks).bits \o new.bits,
                                            count |-> Last(blocks).count + new.count]>>
           ELSE Append(blocks, new)
  IN FoldLeft(add, << >>, f.stream)

HalfWordsOf(f, block) ==
  LET bit(j) == IF j <= Len(block.bits) THEN block.bits[j] ELSE 0
  IN  [w \in 1 .. f.blockWords |->
         FoldLeft(LAMBDA v, j : 2 * v + bit((w - 1) * Half + j), 0, [j \in 1 .. Half |-> j])]

Written(f) ==
  LET blocks == Packed(f)
      total == Len(ValuesIn(f))
      start(b) == FoldSet(LAMBDA c, n : n + blocks[c].count, 0, 1 .. b - 1)
      aim(k) == k * f.span + f.span \div 2
      home(v) == Max({b \in 1 .. Len(blocks) : start(b) <= v})
      entry(k) == [block |-> home(aim(k)) - 1, offset |-> aim(k) - start(home(aim(k)))]
  IN [single |-> FALSE, tbSize |-> total, span |-> f.span, blockWords |-> f.blockWords,
      blocksNum |-> Len(blocks), padding |-> f.padding, min |-> f.shape.min,
      max |-> f.shape.min + Len(f.shape.lowest) - 1, lowest |-> f.shape.lowest,
      declared |-> Cardinality(DOMAIN f.shape.tree), tree |-> f.shape.tree,
      sparse |-> [k \in 1 .. (total + f.span - 1) \div f.span |-> entry(k - 1)],
      blockLength |-> [b \in 1 .. Len(blocks) + f.padding |->
                         IF b <= Len(blocks) THEN blocks[b].count - 1 ELSE 0],
      words |-> FlattenSeq([b \in 1 .. Len(blocks) |-> HalfWordsOf(f, blocks[b])])]

(* One field of the file changed, or the file cut short.                    *)
Damages == {"none", "sparse block", "sparse offset", "no block", "cut blocks", "cut sparse", "block length",
            "cycle", "stray child", "lowest raised", "lowest swapped", "no length", "lengths crossed"}
Damaged(w, damage) ==
  CASE damage = "none" -> w
    [] damage = "sparse block" -> [w EXCEPT !.sparse[1].block = 200]
    [] damage = "sparse offset" -> [w EXCEPT !.sparse[1].offset = 99]
    [] damage = "no block" -> [w EXCEPT !.blocksNum = 0]
    [] damage = "cut blocks" -> [w EXCEPT !.words = Front(@)]
    [] damage = "cut sparse" -> [w EXCEPT !.sparse = Front(@)]
    [] damage = "block length" -> [w EXCEPT !.blockLength[1] = 0]
    [] damage = "cycle" -> [w EXCEPT !.tree[w.declared - 1] = <<0, w.declared - 1>>]
    [] damage = "stray child" -> [w EXCEPT !.tree[w.declared - 1] = <<SymCount - 2, 0>>]
    [] damage = "lowest raised" -> [w EXCEPT !.lowest[1] = SymCount - 2]
    [] damage = "lowest swapped" -> [w EXCEPT !.lowest = Reverse(@)]
    [] damage = "no length" -> [w EXCEPT !.min = 0]
    [] damage = "lengths crossed" -> [w EXCEPT !.max = w.min - 1]

PairsInit == file = NoFile
Begin ==
  /\ file = NoFile
  /\ \E shape \in Shapes, span \in Spans, words \in BlockWords, padding \in Paddings :
       file' = [stream |-> << >>, shape |-> shape, span |-> span, blockWords |-> words,
                padding |-> padding, damage |-> "none"]
Compress ==
  /\ file # NoFile /\ Len(file.stream) < MaxSymbols /\ file.damage = "none"
  /\ \E s \in DOMAIN file.shape.tree : file' = [file EXCEPT !.stream = Append(@, s)]
Damage ==
  /\ file # NoFile /\ Len(file.stream) = MaxSymbols /\ file.damage = "none"
  /\ \E damage \in Damages \ {"none"} : file' = [file EXCEPT !.damage = damage]
PairsNext == Begin \/ Compress \/ Damage

(* Every value of a well-formed table is read back; of a damaged one, that  *)
(* the header does not give away, some value is, from inside its arrays.    *)
ValuesReadBack ==
  file.stream # << >> =>
    LET d == SetSizes(Damaged(Written(file), file.damage))
        values == ValuesIn(file)
    IN  /\ file.damage = "none" => d.ok
        /\ file.damage \in {"no block", "cut blocks", "cut sparse", "cycle", "no length", "lengths crossed"}
             /\ ~(file.damage = "no block" /\ file.padding > 0) => ~d.ok
        /\ d.ok => \A idx \in 1 .. Len(values) :
             LET v == decompress_pairs(d, idx - 1)
             IN  v # Outside /\ (file.damage = "none" => v = values[idx])
=============================================================================
