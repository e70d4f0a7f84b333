----------------------------- MODULE TableFiles ------------------------------
(* The tables a tablebase directory gives (tbprobe.cpp): Tablebases::init   *)
(* enters each table found under the keys of both colours in a Robin Hood   *)
(* hash, and the file is mapped and parsed at the first probe that needs    *)
(* it, by the worker that takes the mutex, while others probe.              *)
EXTENDS Integers, Sequences, FiniteSets, FiniteSetsExt

CONSTANTS
  Probers,       \* the workers
  Keys,          \* the material keys positions may have, with a table or not
  Materials,     \* sequence of [key, key2, men]: equal keys for equal sides
  Homes,         \* the buckets keys may call home: key.raw() & (Size - 1)
  Size,          \* 4096
  Directories,   \* what SyzygyPath may name: <<WDL file, DTZ file>> by material
  MaxInits, MaxProbes

Types == {"WDL", "DTZ"}

(* A file: "absent"; "short", of a size no table has; "magic", beginning    *)
(* with other bytes; "header", refused by set(); "whole".                   *)
FileStates == {"absent", "short", "magic", "header", "whole"}
DiskFile(dir, i, type) == IF type = "WDL" THEN dir[i][1] ELSE dir[i][2]

(* The keys of a table, one for each side to have its pieces. The loops of  *)
(* Tablebases::init name every material once, up to the colours.            *)
KeysOf(i) == {Materials[i].key, Materials[i].key2}
ASSUME ProbersAssumption == 0 \notin Probers
ASSUME MaterialsAssumption ==
  /\ Materials \in Seq([key : Keys, key2 : Keys, men : Nat])
  /\ \A i, j \in DOMAIN Materials : i # j => KeysOf(i) \cap KeysOf(j) = {}
ASSUME HomesAssumption == Size \in Nat /\ Homes \subseteq 0 .. Size - 1
ASSUME DirectoriesAssumption == Directories \subseteq [DOMAIN Materials -> FileStates \X FileStates]

VARIABLES
  home,          \* of every key
  dir,           \* the directory TBFile::Paths names
  hash,          \* bucket -> [key, table], table 0 for none
  adding,        \* what init is at: [material, colour, carried, bucket]
  found,         \* tables entered, [WDL, DTZ] files counted, MaxCardinality
  entry,         \* of a table and type: [ready, base, filled, mappings]
  mutex,         \* the worker in mapped(), or 0
  probing,       \* of a worker: [pc, key, type, table, answer]
  probes         \* probes begun since init

fileVars == <<home, dir, hash, adding, found, entry, mutex, probing, probes>>

Buckets == 0 .. Size        \* one bucket of overflow, always empty
Empty == [key |-> "none", table |-> 0]
Unopened == [ready |-> FALSE, base |-> "null", filled |-> FALSE, mappings |-> 0]
Closed == [t \in (DOMAIN Materials) \X Types |-> Unopened]
Idle == [pc |-> "idle", key |-> "none", type |-> "WDL", table |-> 0, answer |-> "none"]
Nothing(inits) == [tables |-> {}, wdl |-> 0, dtz |-> 0, cardinality |-> 0, inits |-> inits]

-----------------------------------------------------------------------------
(* Between two materials, and inserting a table under one of its keys.      *)
AddFrom(i) == [material |-> i, colour |-> 0, carried |-> Empty, bucket |-> 0]
Inserting(i, colour) ==
  LET key == IF colour = 1 THEN Materials[i].key ELSE Materials[i].key2
  IN  [material |-> i, colour |-> colour, carried |-> [key |-> key, table |-> i], bucket |-> home[key]]
Built == adding.material > Len(Materials)

FilesInit ==
  /\ home \in [Keys -> Homes]
  /\ dir = [i \in DOMAIN Materials |-> <<"absent", "absent">>]
  /\ hash = [b \in Buckets |-> Empty] /\ adding = AddFrom(Len(Materials) + 1)
  /\ found = Nothing(0)
  /\ entry = Closed /\ mutex = 0 /\ probes = 0
  /\ probing = [w \in Probers |-> Idle]

(* Tablebases::init, which setoption calls once every worker has parked:    *)
(* TBTables::clear, and then the materials one after another.               *)
Reinit(d) ==
  /\ \A w \in Probers : probing[w].pc \in {"idle", "done"}
  /\ Built /\ found.inits < MaxInits
  /\ dir' = d /\ hash' = [b \in Buckets |-> Empty] /\ adding' = AddFrom(1)
  /\ found' = Nothing(found.inits + 1)
  /\ entry' = Closed /\ probes' = 0 /\ probing' = [w \in Probers |-> Idle]
  /\ UNCHANGED <<home, mutex>>

(* TBTables::add: the WDL file is the gate.                                 *)
Add ==
  LET i == adding.material
  IN  /\ ~Built /\ adding.colour = 0
      /\ IF DiskFile(dir, i, "WDL") = "absent"
         THEN adding' = AddFrom(i + 1) /\ UNCHANGED found
         ELSE /\ adding' = Inserting(i, 1)
              /\ found' = [found EXCEPT
                   !.tables = @ \cup {i}, !.wdl = @ + 1,
                   !.dtz = @ + (IF DiskFile(dir, i, "DTZ") = "absent" THEN 0 ELSE 1),
                   !.cardinality = IF Materials[i].men > @ THEN Materials[i].men ELSE @]
      /\ UNCHANGED <<home, dir, hash, entry, mutex, probing, probes>>

(* TBTables::insert, a bucket at a time: an entry displaces one that is     *)
(* nearer its own home, and that one is carried on. The mutant forgets to   *)
(* carry it. No step leads on from the last bucket: the program exits.      *)
Place(b) == hash' = [hash EXCEPT ![b] = adding.carried]
Inserted == adding' = IF adding.colour = 1 THEN Inserting(adding.material, 2) ELSE AddFrom(adding.material + 1)
InsertDropping ==
  LET b == adding.bucket
      other == hash[b]
      fits == other.key = adding.carried.key \/ other.table = 0
  IN  /\ adding.colour # 0 /\ b < Size
      /\ IF fits \/ home[other.key] > home[adding.carried.key]
         THEN Place(b) /\ Inserted
         ELSE adding' = [adding EXCEPT !.bucket = b + 1] /\ UNCHANGED hash
      /\ UNCHANGED <<home, dir, found, entry, mutex, probing, probes>>
Insert ==
  LET b == adding.bucket
      other == hash[b]
      fits == other.key = adding.carried.key \/ other.table = 0
  IN  /\ adding.colour # 0 /\ b < Size
      /\ \/ fits /\ Place(b) /\ Inserted
         \/ /\ ~fits /\ home[other.key] > home[adding.carried.key]
            /\ Place(b) /\ adding' = [adding EXCEPT !.carried = other, !.bucket = b + 1]
         \/ /\ ~fits /\ home[other.key] <= home[adding.carried.key]
            /\ adding' = [adding EXCEPT !.bucket = b + 1] /\ UNCHANGED hash
      /\ UNCHANGED <<home, dir, found, entry, mutex, probing, probes>>

(* TBTables::get: forward to the key or to an empty bucket, unbounded.      *)
Stops(key) == {b \in home[key] .. Size : hash[b].key = key \/ hash[b].table = 0}
Get(key) == hash[Min(Stops(key))].table

-----------------------------------------------------------------------------
At(w, pc) == probing[w].pc = pc
Goes(w, pc) == probing' = [probing EXCEPT ![w].pc = pc]
SlotOf(w) == <<probing[w].table, probing[w].type>>
Answers(w, answer) == probing' = [probing EXCEPT ![w] = [@ EXCEPT !.pc = "done", !.answer = answer]]

(* probe_table, for a position of any material with more than the kings.    *)
ProbeTable(w, key, type) ==
  LET table == Get(key)
  IN  /\ Built /\ probing[w].pc \in {"idle", "done"} /\ probes < MaxProbes
      /\ probes' = probes + 1
      /\ probing' = [probing EXCEPT ![w] =
            [pc |-> IF table = 0 THEN "done" ELSE "load", key |-> key, type |-> type, table |-> table,
             answer |-> IF table = 0 THEN "FAIL" ELSE "none"]]
      /\ UNCHANGED <<home, dir, hash, adding, found, entry, mutex>>

LoadReady(w) ==
  /\ At(w, "load")
  /\ Goes(w, IF entry[SlotOf(w)].ready THEN "use" ELSE "lock")
  /\ UNCHANGED <<home, dir, hash, adding, found, entry, mutex, probes>>

Lock(w) ==
  /\ At(w, "lock") /\ mutex = 0
  /\ mutex' = w /\ Goes(w, "recheck")
  /\ UNCHANGED <<home, dir, hash, adding, found, entry, probes>>

(* The mutant trusts the first look at ready.                               *)
RecheckNot(w) ==
  /\ At(w, "recheck") /\ Goes(w, "map")
  /\ UNCHANGED <<home, dir, hash, adding, found, entry, mutex, probes>>
Recheck(w) ==
  /\ At(w, "recheck")
  /\ IF entry[SlotOf(w)].ready
     THEN mutex' = 0 /\ Goes(w, "use")
     ELSE UNCHANGED mutex /\ Goes(w, "map")
  /\ UNCHANGED <<home, dir, hash, adding, found, entry, probes>>

(* The name is spelled from the position: its colours, or the others when   *)
(* the table was keyed the other way round.                                 *)
Opposite(m, key) == IF key = m.key THEN m.key2 ELSE m.key
FileNamed(w) ==
  LET m == Materials[probing[w].table]
  IN  IF m.key = probing[w].key THEN probing[w].key ELSE Opposite(m, probing[w].key)
NamedFile(w) ==
  LET named == {i \in DOMAIN Materials : Materials[i].key = FileNamed(w)}
  IN  IF named = {} THEN "absent" ELSE DiskFile(dir, CHOOSE i \in named : TRUE, probing[w].type)

(* TBFile::map: the mapping is made before the magic bytes are compared and *)
(* given back when they are wrong.                                          *)
Map(w) ==
  LET f == NamedFile(w)
      mapped == f \in {"header", "whole"}
      old == entry[SlotOf(w)]
  IN  /\ At(w, "map")
      /\ entry' = [entry EXCEPT ![SlotOf(w)] =
            [ready |-> old.ready, base |-> IF mapped THEN "file" ELSE "null", filled |-> old.filled,
             mappings |-> IF mapped THEN old.mappings + 1 ELSE old.mappings]]
      /\ Goes(w, IF mapped THEN "parse" ELSE "publish")
      /\ UNCHANGED <<home, dir, hash, adding, found, mutex, probes>>

(* set(): the pairs are filled in one after another; a refused table is     *)
(* unmapped.                                                                *)
Parse(w) ==
  LET whole == NamedFile(w) = "whole"
      old == entry[SlotOf(w)]
  IN  /\ At(w, "parse")
      /\ entry' = [entry EXCEPT ![SlotOf(w)] =
            IF whole
            THEN [ready |-> old.ready, base |-> old.base, filled |-> TRUE, mappings |-> old.mappings]
            ELSE [ready |-> old.ready, base |-> "null", filled |-> FALSE, mappings |-> old.mappings - 1]]
      /\ Goes(w, "publish")
      /\ UNCHANGED <<home, dir, hash, adding, found, mutex, probes>>

Publish(w) ==
  /\ At(w, "publish")
  /\ entry' = [entry EXCEPT ![SlotOf(w)].ready = TRUE]
  /\ mutex' = 0 /\ Goes(w, "use")
  /\ UNCHANGED <<home, dir, hash, adding, found, probes>>

(* Without a base address the probe fails, with one it reads the pairs.     *)
Use(w) ==
  /\ At(w, "use")
  /\ Answers(w, IF entry[SlotOf(w)].base = "null" THEN "FAIL"
                ELSE IF entry[SlotOf(w)].filled THEN "value" ELSE "garbage")
  /\ UNCHANGED <<home, dir, hash, adding, found, entry, mutex, probes>>

FilesNext ==
  \/ \E d \in Directories : Reinit(d)
  \/ Add \/ Insert
  \/ \E w \in Probers :
       \/ \E key \in Keys, type \in Types : ProbeTable(w, key, type)
       \/ LoadReady(w) \/ Lock(w) \/ Recheck(w) \/ Map(w) \/ Parse(w) \/ Publish(w) \/ Use(w)

FilesSpec == FilesInit /\ [][FilesNext]_fileVars

-----------------------------------------------------------------------------
(* The table a key must find: that of its material, if its WDL file exists. *)
TableOfKey(key) ==
  {i \in found.tables : key \in KeysOf(i)}

(* Every table is found under both its keys whatever the hash did to its    *)
(* neighbours, no other key finds one, and the walk of a lookup ends in the *)
(* empty bucket kept behind the last.                                       *)
EveryTableIsFound ==
  /\ hash[Size] = Empty
  /\ Built => \A key \in Keys : LET i == Get(key) IN IF i = 0 THEN TableOfKey(key) = {} ELSE TableOfKey(key) = {i}
  /\ found.wdl = Cardinality(found.tables) /\ found.dtz <= found.wdl

(* A probe answers what its file holds, whichever worker mapped it and      *)
(* however many asked at once.                                              *)
AnswersItsFile ==
  \A w \in Probers : At(w, "done") =>
    LET tables == TableOfKey(probing[w].key)
    IN  probing[w].answer =
          IF \E i \in tables : DiskFile(dir, i, probing[w].type) = "whole" THEN "value" ELSE "FAIL"

(* A table holds at most one mapping, the one the destructor gives back.    *)
MappedOnce ==
  \A t \in DOMAIN entry :
    /\ entry[t].mappings <= 1
    /\ entry[t].ready => (entry[t].mappings = 1) = (entry[t].base = "file")

FilesMappedOnce == EveryTableIsFound /\ AnswersItsFile /\ MappedOnce
=============================================================================
