------------------------- MODULE SharedMemoryProofs -------------------------
(* For any number of processes, memories and restarts: what a process reads *)
(* is written, one directory stands for one memory, and a live socket is    *)
(* never reaped. The inductive invariant says who may be where while the    *)
(* lock is held, what a socket file tells of its process, and what the      *)
(* holder of the lock still has to ask.                                     *)
EXTENDS SharedMemory, TLAPS

Holding == {"list", "ask", "await", "reap", "fill", "bind", "listen", "serve"}

(* Only the holder of the lock is past it.                                  *)
LockExcludes == \A p \in Pids : pc[p] \in Holding => lock = p

(* A socket is heard from listen() until its process closes, fails or dies. *)
HeardIsLive ==
  \A p \in Pids : file[p] = "heard" <=> pc[p] \in {"serve", "open"}

(* A file about to be reaped is that of a peer nobody hears at.             *)
ReapsTheDead ==
  \A p \in Pids : pc[p] = "reap" => peer[p] \in Pids /\ file[peer[p]] # "heard"

AsksAPeer == \A p \in Pids : pc[p] = "await" => peer[p] \in Pids

(* A memory is written before its process offers it.                        *)
OfferedIsWritten ==
  \A p \in Pids :
    /\ pc[p] = "fill" => segment[p] \in Segments
    /\ pc[p] \in {"bind", "listen", "serve", "open", "closing"} => segment[p] \in written

(* As long as no live peer has missed its time: every one that serves is    *)
(* still to be asked or being asked, or was asked and its memory taken.     *)
NoneForgotten ==
  ~missed =>
    \A p, q \in Pids : pc[q] = "open" =>
      /\ pc[p] \in {"ask", "reap"} => q \in unasked[p]
      /\ pc[p] = "await" => /\ q \in unasked[p] \/ peer[p] = q
                            /\ Serving(peer[p]) => segment[peer[p]] = segment[q]
      /\ pc[p] # "fill"
      /\ pc[p] \in {"bind", "listen", "serve"} => segment[p] = segment[q]

IInv == /\ TypeOK /\ LockExcludes /\ HeardIsLive /\ ReapsTheDead /\ AsksAPeer
        /\ OfferedIsWritten /\ NoneForgotten /\ OneSegment

-----------------------------------------------------------------------------
LEMMA InitInv == Init => IInv
<1> SUFFICES ASSUME Init PROVE IInv
  OBVIOUS
<1>1. TypeOK
  <2>1. missed \in BOOLEAN
    BY Zenon DEF Init
  <2>2. starts \in 0 .. MaxStarts
    BY StartsAssumption DEF Init
  <2>3. /\ lock \in Pids \cup {Free}
        /\ file \in [Pids -> {"none", "bound", "heard"}]
        /\ segment \in [Pids -> Segments \cup {NoSegment}]
        /\ written \subseteq Segments
        /\ unasked \in [Pids -> SUBSET Pids]
        /\ peer \in [Pids -> Pids \cup {NoPid}]
    BY DEF Init, Free
  <2> QED BY <2>1, <2>2, <2>3 DEF Init, TypeOK
<1>2. LockExcludes /\ HeardIsLive /\ ReapsTheDead /\ AsksAPeer
  BY DEF Init, LockExcludes, Holding, HeardIsLive, ReapsTheDead, AsksAPeer
<1>3. OfferedIsWritten /\ NoneForgotten /\ OneSegment
  BY DEF Init, OfferedIsWritten, NoneForgotten, OneSegment
<1> QED BY <1>1, <1>2, <1>3 DEF IInv

(* A process that starts holds nothing and is heard nowhere.                *)
LEMMA StartStep ==
  ASSUME IInv, NEW p \in Pids, Start(p)
  PROVE  IInv'
<1> USE DEF IInv
<1>1. TypeOK'
  BY PidsAssumption, SegmentsAssumption, StartsAssumption DEF Start, Go, TypeOK
<1>2. LockExcludes'
  BY DEF Start, Go, LockExcludes, Holding
<1>3. HeardIsLive'
  BY DEF Start, Go, HeardIsLive
<1>4. ReapsTheDead'
  BY DEF Start, Go, ReapsTheDead
<1>5. AsksAPeer'
  BY DEF Start, Go, AsksAPeer
<1>6. OfferedIsWritten'
  BY DEF Start, Go, OfferedIsWritten
<1>7. NoneForgotten'
  BY DEF Start, Go, NoneForgotten, Serving
<1>8. OneSegment'
  BY DEF Start, Go, OneSegment
<1> QED BY <1>1, <1>2, <1>3, <1>4, <1>5, <1>6, <1>7, <1>8

(* The lock was free: nobody else is past it.                               *)
LEMMA AcquireStep ==
  ASSUME IInv, NEW p \in Pids, Acquire(p)
  PROVE  IInv'
<1> USE DEF IInv
<1>1. TypeOK'
  BY DEF Acquire, Go, Free, TypeOK
<1>2. LockExcludes'
  BY PidsAssumption, SegmentsAssumption, StartsAssumption DEF Acquire, Go, Free,
    LockExcludes, Holding, TypeOK
<1>3. HeardIsLive'
  BY DEF Acquire, Go, Free, HeardIsLive
<1>4. ReapsTheDead'
  BY DEF Acquire, Go, Free, ReapsTheDead
<1>5. AsksAPeer'
  BY DEF Acquire, Go, Free, AsksAPeer
<1>6. OfferedIsWritten'
  BY DEF Acquire, Go, Free, OfferedIsWritten
<1>7. NoneForgotten'
  BY DEF Acquire, Go, Free, NoneForgotten, Serving
<1>8. OneSegment'
  BY DEF Acquire, Go, Free, OneSegment
<1> QED BY <1>1, <1>2, <1>3, <1>4, <1>5, <1>6, <1>7, <1>8

(* Whoever serves is heard at his file, so he is listed.                    *)
LEMMA ListPeersStep ==
  ASSUME IInv, NEW p \in Pids, ListPeers(p)
  PROVE  IInv'
<1> USE DEF IInv
<1>1. TypeOK'
  BY DEF ListPeers, Go, TypeOK
<1>2. LockExcludes'
  BY DEF ListPeers, Go, LockExcludes, Holding
<1>3. HeardIsLive'
  BY DEF ListPeers, Go, HeardIsLive
<1>4. ReapsTheDead'
  BY DEF ListPeers, Go, ReapsTheDead
<1>5. AsksAPeer'
  BY DEF ListPeers, Go, AsksAPeer
<1>6. OfferedIsWritten'
  BY DEF ListPeers, Go, OfferedIsWritten
<1>7. NoneForgotten'
  BY DEF ListPeers, Go, NoneForgotten, Serving, TypeOK, LockExcludes, Holding,
    HeardIsLive, OneSegment, AsksAPeer
<1>8. OneSegment'
  BY DEF ListPeers, Go, OneSegment
<1> QED BY <1>1, <1>2, <1>3, <1>4, <1>5, <1>6, <1>7, <1>8

(* A peer that serves is heard, so he is asked and not reaped.              *)
LEMMA ConnectStep ==
  ASSUME IInv, NEW p \in Pids, NEW q \in Pids, Connect(p, q)
  PROVE  IInv'
<1> USE DEF IInv
<1>1. TypeOK'
  BY DEF Connect, Go, TypeOK
<1>2. LockExcludes'
  BY DEF Connect, Go, LockExcludes, Holding
<1>3. HeardIsLive'
  BY DEF Connect, Go, HeardIsLive
<1>4. ReapsTheDead'
  BY DEF Connect, Go, ReapsTheDead, TypeOK
<1>5. AsksAPeer'
  BY DEF Connect, Go, AsksAPeer, TypeOK
<1>6. OfferedIsWritten'
  BY DEF Connect, Go, OfferedIsWritten
<1>7. NoneForgotten'
  BY DEF Connect, Go, NoneForgotten, Serving, TypeOK, LockExcludes, Holding,
    HeardIsLive, OneSegment, AsksAPeer
<1>8. OneSegment'
  BY DEF Connect, Go, OneSegment
<1> QED BY <1>1, <1>2, <1>3, <1>4, <1>5, <1>6, <1>7, <1>8

(* The file that goes is one nobody is heard at.                            *)
LEMMA ReapStep ==
  ASSUME IInv, NEW p \in Pids, Reap(p)
  PROVE  IInv'
<1> USE DEF IInv
<1>1. TypeOK'
  BY DEF Reap, Go, TypeOK
<1>2. LockExcludes'
  BY DEF Reap, Go, LockExcludes, Holding
<1>3. HeardIsLive'
  BY DEF Reap, Go, HeardIsLive, TypeOK, LockExcludes, Holding, ReapsTheDead
<1>4. ReapsTheDead'
  BY DEF Reap, Go, ReapsTheDead, TypeOK
<1>5. AsksAPeer'
  BY DEF Reap, Go, AsksAPeer
<1>6. OfferedIsWritten'
  BY DEF Reap, Go, OfferedIsWritten
<1>7. NoneForgotten'
  BY DEF Reap, Go, NoneForgotten, Serving
<1>8. OneSegment'
  BY DEF Reap, Go, OneSegment
<1> QED BY <1>1, <1>2, <1>3, <1>4, <1>5, <1>6, <1>7, <1>8

(* The memory a server hands out is the one all who serve have.             *)
LEMMA AnswerStep ==
  ASSUME IInv, NEW p \in Pids, Answer(p)
  PROVE  IInv'
<1> USE DEF IInv
<1>1. TypeOK'
  BY DEF Answer, Go, Serving, TypeOK, AsksAPeer
<1>2. LockExcludes'
  BY DEF Answer, Go, Serving, LockExcludes, Holding
<1>3. HeardIsLive'
  BY DEF Answer, Go, Serving, HeardIsLive
<1>4. ReapsTheDead'
  BY DEF Answer, Go, Serving, ReapsTheDead
<1>5. AsksAPeer'
  BY DEF Answer, Go, Serving, AsksAPeer, TypeOK
<1>6. OfferedIsWritten'
  BY DEF Answer, Go, Serving, OfferedIsWritten, TypeOK, AsksAPeer
<1>7. NoneForgotten'
  BY DEF Answer, Go, Serving, NoneForgotten, TypeOK, LockExcludes, Holding,
    HeardIsLive, OneSegment, AsksAPeer
<1>8. OneSegment'
  BY DEF Answer, Go, Serving, OneSegment
<1> QED BY <1>1, <1>2, <1>3, <1>4, <1>5, <1>6, <1>7, <1>8

(* A peer that hung up serves no more.                                      *)
LEMMA HangUpStep ==
  ASSUME IInv, NEW p \in Pids, HangUp(p)
  PROVE  IInv'
<1> USE DEF IInv
<1>1. TypeOK'
  BY DEF HangUp, Go, Serving, TypeOK
<1>2. LockExcludes'
  BY DEF HangUp, Go, Serving, LockExcludes, Holding
<1>3. HeardIsLive'
  BY DEF HangUp, Go, Serving, HeardIsLive
<1>4. ReapsTheDead'
  BY DEF HangUp, Go, Serving, ReapsTheDead
<1>5. AsksAPeer'
  BY DEF HangUp, Go, Serving, AsksAPeer, TypeOK
<1>6. OfferedIsWritten'
  BY DEF HangUp, Go, Serving, OfferedIsWritten
<1>7. NoneForgotten'
  BY DEF HangUp, Go, Serving, NoneForgotten, TypeOK
<1>8. OneSegment'
  BY DEF HangUp, Go, Serving, OneSegment
<1> QED BY <1>1, <1>2, <1>3, <1>4, <1>5, <1>6, <1>7, <1>8

(* From now on a live peer has been passed over.                            *)
LEMMA TimeOutStep ==
  ASSUME IInv, NEW p \in Pids, TimeOut(p)
  PROVE  IInv'
<1> USE DEF IInv
<1>1. TypeOK'
  BY DEF TimeOut, Go, Serving, TypeOK
<1>2. LockExcludes'
  BY DEF TimeOut, Go, Serving, LockExcludes, Holding
<1>3. HeardIsLive'
  BY DEF TimeOut, Go, Serving, HeardIsLive
<1>4. ReapsTheDead'
  BY DEF TimeOut, Go, Serving, ReapsTheDead
<1>5. AsksAPeer'
  BY DEF TimeOut, Go, Serving, AsksAPeer, TypeOK
<1>6. OfferedIsWritten'
  BY DEF TimeOut, Go, Serving, OfferedIsWritten
<1>7. NoneForgotten'
  BY DEF TimeOut, Go, Serving, NoneForgotten
<1>8. OneSegment'
  BY DEF TimeOut, Go, Serving, OneSegment
<1> QED BY <1>1, <1>2, <1>3, <1>4, <1>5, <1>6, <1>7, <1>8

(* All were asked, so nobody serves: the new memory is the only one.        *)
LEMMA CreateStep ==
  ASSUME IInv, NEW p \in Pids, Create(p)
  PROVE  IInv'
<1> USE DEF IInv
<1>1. TypeOK'
  BY DEF Create, Go, InUse, TypeOK
<1>2. LockExcludes'
  BY DEF Create, Go, InUse, LockExcludes, Holding
<1>3. HeardIsLive'
  BY DEF Create, Go, InUse, HeardIsLive
<1>4. ReapsTheDead'
  BY DEF Create, Go, InUse, ReapsTheDead
<1>5. AsksAPeer'
  BY DEF Create, Go, InUse, AsksAPeer
<1>6. OfferedIsWritten'
  BY DEF Create, Go, InUse, OfferedIsWritten, TypeOK
<1>7. NoneForgotten'
  BY DEF Create, Go, InUse, NoneForgotten, Serving
<1>8. OneSegment'
  BY DEF Create, Go, InUse, OneSegment
<1> QED BY <1>1, <1>2, <1>3, <1>4, <1>5, <1>6, <1>7, <1>8

(* The creator writes before it binds.                                      *)
LEMMA FillStep ==
  ASSUME IInv, NEW p \in Pids, Fill(p)
  PROVE  IInv'
<1> USE DEF IInv
<1>1. TypeOK'
  BY DEF Fill, Go, TypeOK, OfferedIsWritten
<1>2. LockExcludes'
  BY DEF Fill, Go, LockExcludes, Holding
<1>3. HeardIsLive'
  BY DEF Fill, Go, HeardIsLive
<1>4. ReapsTheDead'
  BY DEF Fill, Go, ReapsTheDead
<1>5. AsksAPeer'
  BY DEF Fill, Go, AsksAPeer
<1>6. OfferedIsWritten'
  BY DEF Fill, Go, OfferedIsWritten
<1>7. NoneForgotten'
  BY DEF Fill, Go, NoneForgotten, Serving
<1>8. OneSegment'
  BY DEF Fill, Go, OneSegment
<1> QED BY <1>1, <1>2, <1>3, <1>4, <1>5, <1>6, <1>7, <1>8

(* The process is not heard yet.                                            *)
LEMMA BindStep ==
  ASSUME IInv, NEW p \in Pids, Bind(p)
  PROVE  IInv'
<1> USE DEF IInv
<1>1. TypeOK'
  BY DEF Bind, Go, TypeOK
<1>2. LockExcludes'
  BY DEF Bind, Go, LockExcludes, Holding
<1>3. HeardIsLive'
  BY DEF Bind, Go, HeardIsLive
<1>4. ReapsTheDead'
  BY DEF Bind, Go, ReapsTheDead
<1>5. AsksAPeer'
  BY DEF Bind, Go, AsksAPeer
<1>6. OfferedIsWritten'
  BY DEF Bind, Go, OfferedIsWritten
<1>7. NoneForgotten'
  BY DEF Bind, Go, NoneForgotten, Serving
<1>8. OneSegment'
  BY DEF Bind, Go, OneSegment
<1> QED BY <1>1, <1>2, <1>3, <1>4, <1>5, <1>6, <1>7, <1>8

(* It is heard, and only a holder of the lock could ask.                    *)
LEMMA ListenStep ==
  ASSUME IInv, NEW p \in Pids, Listen(p)
  PROVE  IInv'
<1> USE DEF IInv
<1>1. TypeOK'
  BY DEF Listen, Go, TypeOK
<1>2. LockExcludes'
  BY DEF Listen, Go, LockExcludes, Holding
<1>3. HeardIsLive'
  BY DEF Listen, Go, HeardIsLive, TypeOK
<1>4. ReapsTheDead'
  BY DEF Listen, Go, ReapsTheDead, TypeOK, LockExcludes, Holding, HeardIsLive
<1>5. AsksAPeer'
  BY DEF Listen, Go, AsksAPeer
<1>6. OfferedIsWritten'
  BY DEF Listen, Go, OfferedIsWritten
<1>7. NoneForgotten'
  BY DEF Listen, Go, NoneForgotten, Serving
<1>8. OneSegment'
  BY DEF Listen, Go, OneSegment
<1> QED BY <1>1, <1>2, <1>3, <1>4, <1>5, <1>6, <1>7, <1>8

(* It has the memory all who serve have.                                    *)
LEMMA ServeStep ==
  ASSUME IInv, NEW p \in Pids, Serve(p)
  PROVE  IInv'
<1> USE DEF IInv
<1>1. TypeOK'
  BY DEF Serve, Go, Free, TypeOK
<1>2. LockExcludes'
  BY DEF Serve, Go, Free, LockExcludes, Holding, TypeOK
<1>3. HeardIsLive'
  BY DEF Serve, Go, Free, HeardIsLive
<1>4. ReapsTheDead'
  BY DEF Serve, Go, Free, ReapsTheDead
<1>5. AsksAPeer'
  BY DEF Serve, Go, Free, AsksAPeer
<1>6. OfferedIsWritten'
  BY DEF Serve, Go, Free, OfferedIsWritten
<1>7. NoneForgotten'
  BY DEF Serve, Go, Free, NoneForgotten, Serving, TypeOK, LockExcludes, Holding,
    HeardIsLive, OneSegment, AsksAPeer
<1>8. OneSegment'
  BY DEF Serve, Go, Free, OneSegment, TypeOK, NoneForgotten
<1> QED BY <1>1, <1>2, <1>3, <1>4, <1>5, <1>6, <1>7, <1>8

(* Its socket is closed with the call that failed.                          *)
LEMMA FailStep ==
  ASSUME IInv, NEW p \in Pids, Fail(p)
  PROVE  IInv'
<1> USE DEF IInv
<1>1. TypeOK'
  BY DEF Fail, Go, Released, Unheard, Free, TypeOK
<1>2. LockExcludes'
  BY DEF Fail, Go, Released, Unheard, Free, LockExcludes, Holding, TypeOK
<1>3. HeardIsLive'
  BY DEF Fail, Go, Released, Unheard, Free, HeardIsLive, TypeOK
<1>4. ReapsTheDead'
  BY DEF Fail, Go, Released, Unheard, Free, ReapsTheDead
<1>5. AsksAPeer'
  BY DEF Fail, Go, Released, Unheard, Free, AsksAPeer
<1>6. OfferedIsWritten'
  BY DEF Fail, Go, Released, Unheard, Free, OfferedIsWritten
<1>7. NoneForgotten'
  BY DEF Fail, Go, Released, Unheard, Free, NoneForgotten, Serving, TypeOK
<1>8. OneSegment'
  BY DEF Fail, Go, Released, Unheard, Free, OneSegment
<1> QED BY <1>1, <1>2, <1>3, <1>4, <1>5, <1>6, <1>7, <1>8

(* It removes its own file, and nobody is heard there.                      *)
LEMMA UndoStep ==
  ASSUME IInv, NEW p \in Pids, Undo(p)
  PROVE  IInv'
<1> USE DEF IInv
<1>1. TypeOK'
  BY DEF Undo, Go, TypeOK
<1>2. LockExcludes'
  BY DEF Undo, Go, LockExcludes, Holding
<1>3. HeardIsLive'
  BY DEF Undo, Go, HeardIsLive
<1>4. ReapsTheDead'
  BY DEF Undo, Go, ReapsTheDead
<1>5. AsksAPeer'
  BY DEF Undo, Go, AsksAPeer
<1>6. OfferedIsWritten'
  BY DEF Undo, Go, OfferedIsWritten
<1>7. NoneForgotten'
  BY DEF Undo, Go, NoneForgotten, Serving
<1>8. OneSegment'
  BY DEF Undo, Go, OneSegment
<1> QED BY <1>1, <1>2, <1>3, <1>4, <1>5, <1>6, <1>7, <1>8

(* It removes its own file and serves on.                                   *)
LEMMA CloseStep ==
  ASSUME IInv, NEW p \in Pids, Close(p)
  PROVE  IInv'
<1> USE DEF IInv
<1>1. TypeOK'
  BY DEF Close, Go, TypeOK
<1>2. LockExcludes'
  BY DEF Close, Go, LockExcludes, Holding
<1>3. HeardIsLive'
  BY DEF Close, Go, HeardIsLive, TypeOK
<1>4. ReapsTheDead'
  BY DEF Close, Go, ReapsTheDead
<1>5. AsksAPeer'
  BY DEF Close, Go, AsksAPeer
<1>6. OfferedIsWritten'
  BY DEF Close, Go, OfferedIsWritten
<1>7. NoneForgotten'
  BY DEF Close, Go, NoneForgotten, Serving
<1>8. OneSegment'
  BY DEF Close, Go, OneSegment
<1> QED BY <1>1, <1>2, <1>3, <1>4, <1>5, <1>6, <1>7, <1>8

(* It had removed its file before.                                          *)
LEMMA LeaveStep ==
  ASSUME IInv, NEW p \in Pids, Leave(p)
  PROVE  IInv'
<1> USE DEF IInv
<1>1. TypeOK'
  BY DEF Leave, Go, TypeOK
<1>2. LockExcludes'
  BY DEF Leave, Go, LockExcludes, Holding
<1>3. HeardIsLive'
  BY DEF Leave, Go, HeardIsLive
<1>4. ReapsTheDead'
  BY DEF Leave, Go, ReapsTheDead
<1>5. AsksAPeer'
  BY DEF Leave, Go, AsksAPeer
<1>6. OfferedIsWritten'
  BY DEF Leave, Go, OfferedIsWritten, TypeOK
<1>7. NoneForgotten'
  BY DEF Leave, Go, NoneForgotten, Serving, TypeOK
<1>8. OneSegment'
  BY DEF Leave, Go, OneSegment
<1> QED BY <1>1, <1>2, <1>3, <1>4, <1>5, <1>6, <1>7, <1>8

(* The kernel lets go of the lock and closes the socket.                    *)
LEMMA CrashStep ==
  ASSUME IInv, NEW p \in Pids, Crash(p)
  PROVE  IInv'
<1> USE DEF IInv
<1>1. TypeOK'
  BY DEF Crash, Go, Released, Unheard, Free, TypeOK
<1>2. LockExcludes'
  BY DEF Crash, Go, Released, Unheard, Free, LockExcludes, Holding, TypeOK
<1>3. HeardIsLive'
  BY DEF Crash, Go, Released, Unheard, Free, HeardIsLive, TypeOK
<1>4. ReapsTheDead'
  BY DEF Crash, Go, Released, Unheard, Free, ReapsTheDead, TypeOK
<1>5. AsksAPeer'
  BY DEF Crash, Go, Released, Unheard, Free, AsksAPeer, TypeOK
<1>6. OfferedIsWritten'
  BY DEF Crash, Go, Released, Unheard, Free, OfferedIsWritten, TypeOK
<1>7. NoneForgotten'
  BY DEF Crash, Go, Released, Unheard, Free, NoneForgotten, Serving, TypeOK
<1>8. OneSegment'
  BY DEF Crash, Go, Released, Unheard, Free, OneSegment, TypeOK
<1> QED BY <1>1, <1>2, <1>3, <1>4, <1>5, <1>6, <1>7, <1>8

-----------------------------------------------------------------------------
LEMMA StepInv == IInv /\ [Next]_vars => IInv'
<1> SUFFICES ASSUME IInv, [Next]_vars PROVE IInv'
  OBVIOUS
<1>1. CASE AllGone \/ UNCHANGED vars
  BY <1>1 DEF AllGone, vars, IInv, TypeOK, LockExcludes, Holding, HeardIsLive, ReapsTheDead,
              AsksAPeer, OfferedIsWritten, NoneForgotten, Serving, OneSegment
<1>2. ASSUME NEW p \in Pids, Proceed(p)
      PROVE  IInv'
  BY <1>2, AcquireStep, ListPeersStep, ConnectStep, ReapStep, HangUpStep, TimeOutStep, CreateStep,
     FillStep, BindStep, ListenStep, ServeStep, UndoStep DEF Proceed
<1>3. ASSUME NEW p \in Pids, Start(p) \/ Answer(p) \/ Fail(p) \/ Close(p) \/ Leave(p) \/ Crash(p)
      PROVE  IInv'
  BY <1>3, StartStep, AnswerStep, FailStep, CloseStep, LeaveStep, CrashStep
<1> QED BY <1>1, <1>2, <1>3 DEF Next

LEMMA Inductive == Spec => []IInv
BY InitInv, StepInv, PTL DEF Spec

(* However many processes there are and whenever they are killed, one that  *)
(* has opened the network reads memory that was written to the end.         *)
THEOREM SharedIsAlwaysWritten == Spec => []SharedIsWritten
<1>1. IInv => SharedIsWritten
  BY DEF IInv, OfferedIsWritten, SharedIsWritten
<1> QED BY <1>1, Inductive, PTL

(* The processes that serve a directory share one memory, as long as live   *)
(* peers answer in time: kills, closes, failures and restarts never split   *)
(* it.                                                                      *)
THEOREM AlwaysOneSegment == Spec => []OneSegment
<1>1. IInv => OneSegment
  BY DEF IInv
<1> QED BY <1>1, Inductive, PTL

(* No one but its own process ever removes the file of a live socket.       *)
THEOREM LiveSocketAlwaysStays == Spec => LiveSocketStays
<1>1. IInv' => \A p \in Pids : pc'[p] = "open" => file'[p] = "heard"
  BY DEF IInv, HeardIsLive
<1>2. IInv /\ [Next]_vars =>
        [\A p \in Pids : pc[p] = "open" /\ file[p] = "heard" /\ pc'[p] = "open" =>
           file'[p] = "heard"]_vars
  BY <1>1, StepInv
<1> QED BY <1>2, Inductive, PTL DEF Spec, LiveSocketStays
=============================================================================
