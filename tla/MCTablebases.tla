---------------------------- MODULE MCTablebases ----------------------------
(* The endgame tables for TLC, four machines that never meet: the index and *)
(* the reading of a table, its compressed values, the map of the files the  *)
(* probing workers share, and what the engine makes of the answers.         *)
EXTENDS Syzygy, SyzygyPairs, TableFiles, TablebaseProbe

VARIABLE part      \* which machine runs

tablesVars == <<part, probe, file, fileVars, tbVars>>

FilesRest == FilesInit /\ \A k \in DOMAIN home : home[k] = 0
TbRests == g = [moves |-> << >>] /\ told = Untold /\ root = NoRoot /\ ext = NoExt

Init ==
  \/ part = "index" /\ ProbeInit /\ PairsInit /\ FilesRest /\ TbRests
  \/ part = "pairs" /\ ProbeInit /\ PairsInit /\ FilesRest /\ TbRests
  \/ part = "files" /\ ProbeInit /\ PairsInit /\ FilesInit /\ TbRests
  \/ part = "game" /\ ProbeInit /\ PairsInit /\ FilesRest /\ TbInit

Next ==
  \/ part = "index" /\ ProbeNext /\ UNCHANGED <<part, file, fileVars, tbVars>>
  \/ part = "pairs" /\ PairsNext /\ UNCHANGED <<part, probe, fileVars, tbVars>>
  \/ part = "files" /\ FilesNext /\ UNCHANGED <<part, probe, file, tbVars>>
  \/ part = "game" /\ TbNext /\ UNCHANGED <<part, probe, file, fileVars>>

Spec == Init /\ [][Next]_tablesVars

-----------------------------------------------------------------------------

TablesReadBack == ReaderIsFaithful /\ ValuesReadBack

-----------------------------------------------------------------------------
With(T, pieces, order) == [key |-> T.key, key2 |-> T.key2, pieceCount |-> T.pieceCount, hasPawns |-> T.hasPawns,
  hasUniquePieces |-> T.hasUniquePieces, pawnCount |-> T.pawnCount, pieces |-> pieces, order |-> order]
MCTables == <<
  With(TableOf(<<6,5>>, <<6>>), << <<6, 5, 14>>, <<5, 14, 6>> >>, << <<0, 15>>, <<0, 15>> >>),
  With(TableOf(<<6,4,4>>, <<6,3,3>>), << <<14, 6, 4, 4, 11, 11>>, <<6, 14, 11, 11, 4, 4>> >>, << <<1, 15>>, <<0, 15>> >>),
  With(TableOf(<<6,2,2>>, <<6>>), << <<6, 14, 2, 2>>, <<6, 14, 2, 2>> >>, << <<1, 15>>, <<0, 15>> >>),
  With(TableOf(<<6,4>>, <<6,4>>), << <<6, 4, 14, 12>> >>, << <<1, 15>> >>),
  With(TableOf(<<6,1,1>>, <<6>>), << <<1, 1, 6, 14>>, <<1, 1, 14, 6>> >>, << <<1, 15>>, <<2, 15>> >>),
  With(TableOf(<<6,1,1>>, <<6,1>>), << <<9, 1, 1, 6, 14>>, <<9, 1, 1, 14, 6>> >>, << <<0, 2>>, <<1, 0>> >>),
  With(TableOf(<<6,1>>, <<6,1>>), << <<1, 9, 6, 14>> >>, << <<1, 0>> >>) >>
MCPlacements == << {<<0, 9, 35>>, <<27, 60, 7>>}, {<<0, 18, 9, 63, 36, 44>>}, {<<18, 45, 27, 36>>}, {<<9, 18, 63, 5>>},
   {<<8, 15, 4, 60>>, <<51, 12, 0, 63>>}, {<<52, 8, 15, 4, 60>>}, {<<12, 52, 4, 60>>} >>

MCShapes == {
  [min |-> 1, lowest |-> <<3, 2, 0>>, tree |-> [s \in 0 .. 3 |-> CASE s = 0 -> <<0, Leaf>> [] s = 1 -> <<4, Leaf>> [] s = 2 -> <<0, 1>> [] s = 3 -> <<2, 2>>]],
  [min |-> 2, lowest |-> <<2, 0>>, tree |-> [s \in 0 .. 4 |-> CASE s = 0 -> <<3, 2>> [] s = 1 -> <<1, Leaf>> [] s = 2 -> <<2, Leaf>> [] s = 3 -> <<1, 2>> [] s = 4 -> <<3, Leaf>>]],
  [min |-> 1, lowest |-> <<4, 3, 2, 0>>, tree |-> [s \in 0 .. 4 |-> CASE s = 0 -> <<2, 1>> [] s = 1 -> <<7, Leaf>> [] s = 2 -> <<3, 1>> [] s = 3 -> <<4, Leaf>> [] s = 4 -> <<3, 1>>]] }

MCMaterials == << [key |-> "KQvK", key2 |-> "KvKQ", men |-> 3], [key |-> "KRvKR", key2 |-> "KRvKR", men |-> 4] >>
MCDirectories == { << <<"whole","header">>, <<"whole", "absent">> >>, << <<"absent","whole">>, <<"magic","short">> >> , << <<"header","whole">>, <<"whole", "absent">> >>}

Store(m, w, l) == [mapped |-> m, winPlies |-> w, lossPlies |-> l]
All == [wdl |-> {}, dtz |-> {}]
S(f, st, a, l) == [filling |-> f, storage |-> st, absent |-> a, limit |-> l]
MCSetups == {S("low", Store(TRUE, TRUE, TRUE), All, 7), S("true", Store(FALSE, TRUE, TRUE), All, 7),
             S("low", Store(TRUE, FALSE, FALSE), All, 7), S("low", Store(FALSE, TRUE, FALSE), All, 3),
             S("true", Store(FALSE, TRUE, TRUE), [wdl |-> {}, dtz |-> {2}], 7),
             S("low", Store(TRUE, TRUE, TRUE), [wdl |-> {1}, dtz |-> {}], 7)}

M(to, kind) == [to |-> to, kind |-> kind]
MCLibrary == <<
  [moves |-> <<<< M(3, "quiet") >>, <<  >>, <<  >>, << M(7, "quiet"), M(3, "pawn") >>, << M(9, "quiet") >>, << M(8, "quiet") >>, << M(6, "quiet"), M(1, "pawn") >>, << M(4, "quiet"), M(5, "quiet") >>, << M(4, "quiet"), M(1, "pawn") >>>>,
   side |-> <<0, 0, 1, 0, 0, 0, 1, 1, 1>>, check |-> <<FALSE, TRUE, TRUE, FALSE, FALSE, FALSE, FALSE, FALSE, FALSE>>,
   material |-> <<2, 2, 2, 2, 2, 2, 2, 2, 2>>, layer |-> <<0, 0, 0, 1, 1, 1, 1, 1, 1>>,
   men |-> <<2, 3, 4, 5>>, dtzSide |-> <<0, 1, 1>>, dtzIsDtm |-> <<TRUE, TRUE, TRUE, FALSE, FALSE, FALSE, FALSE, FALSE, FALSE>>],
  [moves |-> <<<<  >>, << M(8, "quiet") >>, << M(7, "quiet") >>, << M(9, "quiet") >>, << M(6, "quiet") >>, << M(4, "quiet") >>, << M(4, "quiet") >>, << M(4, "quiet"), M(1, "capture") >>, << M(5, "quiet"), M(2, "quiet") >>>>,
   side |-> <<0, 0, 0, 0, 0, 1, 1, 1, 1>>, check |-> <<TRUE, FALSE, FALSE, FALSE, FALSE, TRUE, FALSE, FALSE, FALSE>>,
   material |-> <<1, 2, 2, 2, 2, 2, 2, 2, 2>>, layer |-> <<0, 1, 1, 1, 1, 1, 1, 1, 1>>,
   men |-> <<2, 3, 4, 5>>, dtzSide |-> <<2, 1, 0>>, dtzIsDtm |-> <<TRUE, FALSE, FALSE, FALSE, FALSE, FALSE, FALSE, FALSE, FALSE>>],
  [moves |-> <<<<  >>, << M(5, "quiet") >>, << M(6, "quiet") >>, << M(7, "quiet") >>, << M(4, "quiet") >>, << M(1, "capture") >>, << M(4, "quiet"), M(3, "quiet") >>, << M(3, "quiet") >>, << M(1, "capture"), M(4, "ep") >>>>,
   side |-> <<0, 0, 0, 0, 1, 1, 1, 1, 1>>, check |-> <<TRUE, FALSE, TRUE, FALSE, FALSE, TRUE, FALSE, FALSE, FALSE>>,
   material |-> <<1, 2, 2, 2, 2, 2, 2, 2, 3>>, layer |-> <<0, 1, 1, 1, 1, 1, 1, 1, 2>>,
   men |-> <<2, 3, 4, 5>>, dtzSide |-> <<0, 1, 1>>, dtzIsDtm |-> <<TRUE, FALSE, FALSE, FALSE, FALSE, FALSE, FALSE, FALSE, FALSE>>],
  [moves |-> <<<<  >>, <<  >>, << M(7, "quiet"), M(9, "quiet") >>, << M(8, "quiet") >>, << M(7, "quiet") >>, << M(8, "quiet"), M(1, "ep") >>, << M(6, "quiet"), M(4, "quiet") >>, << M(6, "quiet") >>, << M(5, "quiet") >>>>,
   side |-> <<1, 1, 0, 0, 0, 0, 1, 1, 1>>, check |-> <<TRUE, TRUE, FALSE, FALSE, TRUE, FALSE, FALSE, FALSE, FALSE>>,
   material |-> <<2, 2, 3, 3, 3, 3, 3, 3, 3>>, layer |-> <<0, 0, 1, 1, 1, 1, 1, 1, 1>>,
   men |-> <<2, 3, 4, 5>>, dtzSide |-> <<1, 0, 2>>, dtzIsDtm |-> <<TRUE, TRUE, FALSE, FALSE, FALSE, FALSE, FALSE, FALSE, FALSE>>],
  [moves |-> <<<<  >>, <<  >>, << M(1, "quiet") >>, << M(7, "quiet") >>, << M(8, "quiet"), M(7, "quiet") >>, << M(8, "quiet"), M(9, "quiet") >>, << M(1, "capture"), M(5, "quiet"), M(6, "quiet") >>, << M(4, "quiet") >>, << M(5, "quiet") >>>>,
   side |-> <<0, 1, 1, 0, 0, 0, 1, 1, 1>>, check |-> <<TRUE, FALSE, FALSE, FALSE, FALSE, TRUE, FALSE, FALSE, FALSE>>,
   material |-> <<1, 1, 1, 3, 3, 3, 3, 3, 3>>, layer |-> <<0, 0, 0, 1, 1, 1, 1, 1, 1>>,
   men |-> <<2, 3, 4, 5>>, dtzSide |-> <<1, 2, 1>>, dtzIsDtm |-> <<TRUE, TRUE, TRUE, FALSE, FALSE, FALSE, FALSE, FALSE, FALSE>>],
  [moves |-> <<<< M(6, "quiet"), M(7, "quiet") >>, << M(4, "quiet") >>, << M(7, "quiet"), M(5, "quiet") >>, << M(3, "quiet") >>, <<  >>, << M(2, "quiet") >>, << M(2, "quiet") >>, << M(1, "ep") >>, << M(1, "capture") >>>>,
   side |-> <<0, 0, 0, 1, 1, 1, 1, 1, 1>>, check |-> <<FALSE, FALSE, TRUE, FALSE, TRUE, FALSE, TRUE, FALSE, FALSE>>,
   material |-> <<2, 2, 2, 2, 2, 2, 2, 3, 3>>, layer |-> <<0, 0, 0, 0, 0, 0, 0, 1, 1>>,
   men |-> <<2, 3, 4, 5>>, dtzSide |-> <<1, 2, 1>>, dtzIsDtm |-> <<TRUE, TRUE, TRUE, TRUE, TRUE, TRUE, TRUE, FALSE, FALSE>>],
  [moves |-> <<<<  >>, <<  >>, << M(8, "quiet") >>, << M(7, "quiet"), M(9, "quiet") >>, << M(7, "quiet") >>, << M(7, "quiet"), M(8, "quiet") >>, << M(1, "capture"), M(6, "quiet") >>, << M(4, "quiet"), M(3, "quiet") >>, << M(5, "quiet"), M(6, "quiet") >>>>,
   side |-> <<0, 0, 0, 0, 0, 0, 1, 1, 1>>, check |-> <<TRUE, TRUE, FALSE, FALSE, FALSE, FALSE, FALSE, FALSE, FALSE>>,
   material |-> <<2, 2, 3, 3, 3, 3, 3, 3, 3>>, layer |-> <<0, 0, 1, 1, 1, 1, 1, 1, 1>>,
   men |-> <<2, 3, 4, 5>>, dtzSide |-> <<0, 0, 1>>, dtzIsDtm |-> <<TRUE, TRUE, FALSE, FALSE, FALSE, FALSE, FALSE, FALSE, FALSE>>],
  [moves |-> <<<< M(4, "quiet") >>, << M(6, "quiet"), M(4, "quiet") >>, << M(4, "quiet"), M(5, "quiet") >>, << M(3, "quiet") >>, << M(2, "quiet") >>, <<  >>, << M(6, "pawn"), M(5, "pawn") >>, << M(4, "pawn") >>, << M(2, "capture"), M(1, "capture"), M(7, "capture") >>>>,
   side |-> <<0, 0, 0, 1, 1, 1, 0, 0, 1>>, check |-> <<FALSE, TRUE, FALSE, FALSE, FALSE, TRUE, FALSE, FALSE, FALSE>>,
   material |-> <<1, 1, 1, 1, 1, 1, 1, 1, 2>>, layer |-> <<0, 0, 0, 0, 0, 0, 1, 1, 2>>,
   men |-> <<2, 3, 4, 5>>, dtzSide |-> <<2, 1, 1>>, dtzIsDtm |-> <<TRUE, TRUE, TRUE, TRUE, TRUE, TRUE, FALSE, FALSE, FALSE>>],
  [moves |-> <<<<  >>, <<  >>, << M(1, "capture"), M(6, "quiet") >>, << M(6, "quiet") >>, << M(8, "quiet"), M(7, "quiet") >>, << M(3, "quiet") >>, << M(5, "quiet") >>, << M(3, "quiet"), M(4, "quiet") >>, << M(4, "quiet") >>>>,
   side |-> <<1, 1, 0, 0, 0, 1, 1, 1, 1>>, check |-> <<TRUE, TRUE, FALSE, FALSE, FALSE, TRUE, FALSE, FALSE, TRUE>>,
   material |-> <<1, 1, 2, 2, 2, 2, 2, 2, 2>>, layer |-> <<0, 0, 1, 1, 1, 1, 1, 1, 1>>,
   men |-> <<2, 3, 4, 5>>, dtzSide |-> <<0, 2, 2>>, dtzIsDtm |-> <<TRUE, TRUE, FALSE, FALSE, FALSE, FALSE, FALSE, FALSE, FALSE>>],
  [moves |-> <<<< M(7, "quiet"), M(6, "quiet") >>, << M(6, "quiet") >>, << M(8, "quiet") >>, << M(5, "quiet"), M(8, "quiet") >>, << M(2, "quiet"), M(4, "quiet") >>, << M(1, "quiet"), M(3, "quiet") >>, << M(3, "quiet") >>, <<  >>, << M(4, "ep") >>>>,
   side |-> <<0, 0, 0, 0, 1, 1, 1, 1, 1>>, check |-> <<FALSE, FALSE, FALSE, FALSE, FALSE, FALSE, FALSE, TRUE, TRUE>>,
   material |-> <<2, 2, 2, 2, 2, 2, 2, 2, 3>>, layer |-> <<0, 0, 0, 0, 0, 0, 0, 0, 1>>,
   men |-> <<2, 3, 4, 5>>, dtzSide |-> <<0, 1, 0>>, dtzIsDtm |-> <<TRUE, TRUE, TRUE, TRUE, TRUE, TRUE, TRUE, TRUE, FALSE>>],
  [moves |-> <<<<  >>, << M(1, "quiet") >>, << M(1, "quiet") >>, << M(9, "quiet") >>, << M(7, "quiet") >>, << M(9, "quiet"), M(8, "quiet"), M(7, "quiet") >>, << M(4, "quiet") >>, << M(5, "quiet") >>, << M(1, "capture") >>>>,
   side |-> <<0, 1, 1, 0, 0, 0, 1, 1, 1>>, check |-> <<TRUE, FALSE, FALSE, FALSE, FALSE, FALSE, FALSE, FALSE, FALSE>>,
   material |-> <<1, 1, 1, 2, 2, 2, 2, 2, 2>>, layer |-> <<0, 0, 0, 1, 1, 1, 1, 1, 1>>,
   men |-> <<2, 3, 4, 5>>, dtzSide |-> <<1, 1, 2>>, dtzIsDtm |-> <<TRUE, TRUE, TRUE, FALSE, FALSE, FALSE, FALSE, FALSE, FALSE>>],
  [moves |-> <<<< M(8, "quiet"), M(7, "quiet") >>, << M(7, "quiet") >>, <<  >>, << M(6, "quiet") >>, << M(8, "quiet") >>, << M(3, "quiet") >>, << M(5, "quiet") >>, << M(4, "quiet"), M(1, "quiet") >>, << M(7, "ep") >>>>,
   side |-> <<0, 0, 0, 0, 0, 1, 1, 1, 0>>, check |-> <<FALSE, FALSE, TRUE, FALSE, FALSE, FALSE, FALSE, FALSE, FALSE>>,
   material |-> <<1, 1, 1, 1, 1, 1, 1, 1, 2>>, layer |-> <<0, 0, 0, 0, 0, 0, 0, 0, 1>>,
   men |-> <<2, 3, 4, 5>>, dtzSide |-> <<1, 2, 1>>, dtzIsDtm |-> <<TRUE, TRUE, TRUE, TRUE, TRUE, TRUE, TRUE, TRUE, FALSE>>],
  [moves |-> <<<<  >>, << M(1, "quiet") >>, <<  >>, << M(8, "quiet"), M(3, "pawn") >>, << M(2, "pawn"), M(9, "quiet") >>, << M(8, "quiet"), M(7, "quiet") >>, << M(6, "quiet") >>, << M(5, "quiet"), M(4, "quiet") >>, << M(4, "quiet") >>>>,
   side |-> <<0, 1, 1, 0, 0, 0, 1, 1, 1>>, check |-> <<FALSE, FALSE, TRUE, FALSE, FALSE, FALSE, FALSE, FALSE, FALSE>>,
   material |-> <<2, 2, 2, 2, 2, 2, 2, 2, 2>>, layer |-> <<0, 0, 0, 1, 1, 1, 1, 1, 1>>,
   men |-> <<2, 3, 4, 5>>, dtzSide |-> <<1, 2, 0>>, dtzIsDtm |-> <<TRUE, TRUE, TRUE, FALSE, FALSE, FALSE, FALSE, FALSE, FALSE>>],
  [moves |-> <<<< M(2, "quiet") >>, <<  >>, << M(6, "quiet"), M(7, "quiet") >>, << M(7, "quiet"), M(8, "quiet") >>, << M(2, "capture") >>, << M(5, "quiet") >>, << M(5, "quiet"), M(3, "quiet"), M(1, "capture") >>, <<  >>, << M(4, "quiet") >>>>,
   side |-> <<0, 1, 0, 0, 0, 1, 1, 1, 1>>, check |-> <<FALSE, TRUE, FALSE, FALSE, FALSE, FALSE, FALSE, FALSE, FALSE>>,
   material |-> <<2, 2, 3, 3, 3, 3, 3, 3, 3>>, layer |-> <<0, 0, 1, 1, 1, 1, 1, 1, 1>>,
   men |-> <<2, 3, 4, 5>>, dtzSide |-> <<1, 0, 0>>, dtzIsDtm |-> <<TRUE, TRUE, FALSE, FALSE, FALSE, FALSE, FALSE, TRUE, FALSE>>],
  [moves |-> <<<< M(3, "quiet"), M(2, "quiet") >>, << M(1, "quiet") >>, <<  >>, << M(2, "capture") >>, << M(9, "quiet") >>, << M(7, "quiet") >>, << M(5, "quiet") >>, << M(6, "quiet"), M(5, "quiet") >>, << M(4, "quiet") >>>>,
   side |-> <<0, 1, 1, 0, 0, 0, 1, 1, 1>>, check |-> <<FALSE, FALSE, TRUE, FALSE, FALSE, FALSE, FALSE, FALSE, FALSE>>,
   material |-> <<1, 1, 1, 2, 2, 2, 2, 2, 2>>, layer |-> <<0, 0, 0, 1, 1, 1, 1, 1, 1>>,
   men |-> <<2, 3, 4, 5>>, dtzSide |-> <<1, 0, 0>>, dtzIsDtm |-> <<TRUE, TRUE, TRUE, FALSE, FALSE, FALSE, FALSE, FALSE, FALSE>>],
  [moves |-> <<<<  >>, <<  >>, <<  >>, << M(7, "quiet") >>, << M(8, "quiet"), M(1, "capture") >>, << M(7, "quiet"), M(8, "quiet") >>, << M(6, "quiet") >>, << M(5, "quiet") >>, << M(4, "quiet") >>>>,
   side |-> <<1, 1, 0, 0, 0, 0, 1, 1, 1>>, check |-> <<TRUE, TRUE, TRUE, TRUE, FALSE, FALSE, TRUE, FALSE, FALSE>>,
   material |-> <<2, 2, 3, 3, 3, 3, 3, 3, 3>>, layer |-> <<0, 0, 1, 1, 1, 1, 1, 1, 1>>,
   men |-> <<2, 3, 4, 5>>, dtzSide |-> <<0, 1, 0>>, dtzIsDtm |-> <<TRUE, TRUE, TRUE, FALSE, FALSE, FALSE, FALSE, FALSE, FALSE>>]
>>
=============================================================================
