---------------------------- MODULE SharedMemory ----------------------------
(* One copy of a network for all the engine processes of a user             *)
(* (SharedMemory<T>, shm_unix.h). A process that wants it takes a file      *)
(* lock, asks each socket file in a directory for the memory behind it, and *)
(* creates the memory if none answers; then it serves it from a socket of   *)
(* its own. Processes are killed at any step, and a process identifier, by  *)
(* which socket files are named, is used again.                             *)
EXTENDS Naturals, FiniteSets

CONSTANTS
  Pids,       \* process identifiers; a process that has gone may be followed by another
  Segments,   \* the kernel's memory files
  NoPid, NoSegment,
  MaxStarts   \* bound: how many processes start in all

ASSUME PidsAssumption == IsFiniteSet(Pids) /\ NoPid \notin Pids
ASSUME SegmentsAssumption == NoSegment \notin Segments
ASSUME StartsAssumption == MaxStarts \in Nat

VARIABLES
  pc,        \* where each process is in open() or in the destructor
  lock,      \* the process that holds init_lock
  file,      \* the socket file of each pid: none, or bound and heard or not
  segment,   \* the memory a process holds a descriptor or a mapping of
  written,   \* the memories that hold the initial value
  unasked,   \* peer sockets still to be tried
  peer,      \* the one being asked
  starts,    \* processes started so far
  missed     \* has a live peer ever failed to answer in time?

vars == <<pc, lock, file, segment, written, unasked, peer, starts, missed>>

Free == NoPid

(* The server thread runs from the end of open() to the destructor's join,  *)
(* and for a while after its socket file is gone.                           *)
Serving(p) == pc[p] \in {"open", "closing"}

Opening(p) == pc[p] \notin {"out", "open", "closing", "local"}

InUse == {segment[p] : p \in Pids}

Go(p, to) == pc' = [pc EXCEPT ![p] = to]

Init ==
  /\ pc = [p \in Pids |-> "out"]
  /\ lock = Free
  /\ file = [p \in Pids |-> "none"]
  /\ segment = [p \in Pids |-> NoSegment]
  /\ written = {}
  /\ unasked = [p \in Pids |-> {}]
  /\ peer = [p \in Pids |-> NoPid]
  /\ starts = 0
  /\ missed = FALSE

-----------------------------------------------------------------------------
(* open()                                                                   *)

(* A process with a new identifier, or one used before.                     *)
Start(p) ==
  /\ pc[p] = "out"
  /\ starts < MaxStarts
  /\ starts' = starts + 1
  /\ Go(p, "lock")
  /\ UNCHANGED <<lock, file, segment, written, unasked, peer, missed>>

(* Mutant: the lock is not waited for.                                      *)
AcquireAnyway(p) ==
  /\ pc[p] = "lock"
  /\ lock' = p
  /\ Go(p, "list")
  /\ UNCHANGED <<file, segment, written, unasked, peer, starts, missed>>

Acquire(p) ==
  /\ pc[p] = "lock"
  /\ lock = Free
  /\ lock' = p
  /\ Go(p, "list")
  /\ UNCHANGED <<file, segment, written, unasked, peer, starts, missed>>

ListPeers(p) ==
  /\ pc[p] = "list"
  /\ unasked' = [unasked EXCEPT ![p] = {q \in Pids : file[q] # "none"}]
  /\ Go(p, "ask")
  /\ UNCHANGED <<lock, file, segment, written, peer, starts, missed>>

(* A socket with a listener takes the connection. One without refuses it,   *)
(* and a file that has gone is no socket at all.                            *)
Connect(p, q) ==
  /\ pc[p] = "ask"
  /\ q \in unasked[p]
  /\ unasked' = [unasked EXCEPT ![p] = @ \ {q}]
  /\ peer' = [peer EXCEPT ![p] = q]
  /\ Go(p, IF file[q] = "heard" THEN "await" ELSE "reap")
  /\ UNCHANGED <<lock, file, segment, written, starts, missed>>

Reap(p) ==
  /\ pc[p] = "reap"
  /\ file' = [file EXCEPT ![peer[p]] = "none"]
  /\ peer' = [peer EXCEPT ![p] = NoPid]
  /\ Go(p, "ask")
  /\ UNCHANGED <<lock, segment, written, unasked, starts, missed>>

(* The peer's server thread sends its descriptor.                           *)
Answer(p) ==
  /\ pc[p] = "await"
  /\ Serving(peer[p])
  /\ segment' = [segment EXCEPT ![p] = segment[peer[p]]]
  /\ peer' = [peer EXCEPT ![p] = NoPid]
  /\ unasked' = [unasked EXCEPT ![p] = {}]
  /\ Go(p, "bind")
  /\ UNCHANGED <<lock, file, written, starts, missed>>

(* The peer closed or died with the connection in its backlog.              *)
HangUp(p) ==
  /\ pc[p] = "await"
  /\ ~Serving(peer[p])
  /\ peer' = [peer EXCEPT ![p] = NoPid]
  /\ Go(p, "ask")
  /\ UNCHANGED <<lock, file, segment, written, unasked, starts, missed>>

(* Mutant: a peer that does not answer is taken for dead.                   *)
TimeOutAndReap(p) ==
  /\ pc[p] = "await"
  /\ Serving(peer[p])
  /\ missed' = TRUE
  /\ Go(p, "reap")
  /\ UNCHANGED <<lock, file, segment, written, unasked, peer, starts>>

(* Mutant: there is no timeout.                                             *)
TimeOutNever(p) == FALSE /\ UNCHANGED vars

(* One second passes, or the descriptor cannot be passed on.                *)
TimeOut(p) ==
  /\ pc[p] = "await"
  /\ Serving(peer[p])
  /\ missed' = TRUE
  /\ peer' = [peer EXCEPT ![p] = NoPid]
  /\ Go(p, "ask")
  /\ UNCHANGED <<lock, file, segment, written, unasked, starts>>

(* Nobody answered. The kernel's memory file is new: what it held for       *)
(* others, long gone, is not in it.                                         *)
Create(p) ==
  /\ pc[p] = "ask"
  /\ unasked[p] = {}
  /\ \E s \in Segments \ InUse :
       /\ segment' = [segment EXCEPT ![p] = s]
       /\ written' = written \ {s}
  /\ Go(p, "fill")
  /\ UNCHANGED <<lock, file, unasked, peer, starts, missed>>

(* Mutant: the creator leaves it to others.                                 *)
FillNothing(p) ==
  /\ pc[p] = "fill"
  /\ Go(p, "bind")
  /\ UNCHANGED <<lock, file, segment, written, unasked, peer, starts, missed>>

Fill(p) ==
  /\ pc[p] = "fill"
  /\ written' = written \cup {segment[p]}
  /\ Go(p, "bind")
  /\ UNCHANGED <<lock, file, segment, unasked, peer, starts, missed>>

(* A file left by an earlier process of this identifier gives way.          *)
Bind(p) ==
  /\ pc[p] = "bind"
  /\ file' = [file EXCEPT ![p] = "bound"]
  /\ Go(p, "listen")
  /\ UNCHANGED <<lock, segment, written, unasked, peer, starts, missed>>

Listen(p) ==
  /\ pc[p] = "listen"
  /\ file' = [file EXCEPT ![p] = "heard"]
  /\ Go(p, "serve")
  /\ UNCHANGED <<lock, segment, written, unasked, peer, starts, missed>>

(* The server thread is up before the lock is let go.                       *)
Serve(p) ==
  /\ pc[p] = "serve"
  /\ lock' = Free
  /\ Go(p, "open")
  /\ UNCHANGED <<file, segment, written, unasked, peer, starts, missed>>

-----------------------------------------------------------------------------
(* Failures and ends                                                        *)

Released(p) == IF lock = p THEN Free ELSE lock

(* What is left of a socket whose process no longer listens.                *)
Unheard(p) == [file EXCEPT ![p] = IF @ = "heard" THEN "bound" ELSE @]

(* A call of the system fails: open() returns false, the lock is let go.    *)
Fail(p) ==
  /\ pc[p] \in {"lock", "ask", "fill", "bind", "listen", "serve"}
  /\ lock' = Released(p)
  /\ file' = Unheard(p)
  /\ unasked' = [unasked EXCEPT ![p] = {}]
  /\ Go(p, "undo")
  /\ UNCHANGED <<segment, written, peer, starts, missed>>

(* The destructor of a half opened object; the process takes a local copy.  *)
Undo(p) ==
  /\ pc[p] = "undo"
  /\ file' = [file EXCEPT ![p] = "none"]
  /\ segment' = [segment EXCEPT ![p] = NoSegment]
  /\ Go(p, "local")
  /\ UNCHANGED <<lock, written, unasked, peer, starts, missed>>

(* The destructor: first the file, without the lock, then the server.       *)
Close(p) ==
  /\ pc[p] = "open"
  /\ file' = [file EXCEPT ![p] = "none"]
  /\ Go(p, "closing")
  /\ UNCHANGED <<lock, segment, written, unasked, peer, starts, missed>>

Leave(p) ==
  /\ pc[p] \in {"closing", "local"}
  /\ segment' = [segment EXCEPT ![p] = NoSegment]
  /\ Go(p, "out")
  /\ UNCHANGED <<lock, file, written, unasked, peer, starts, missed>>

(* The process is killed. The kernel closes its files.                      *)
Crash(p) ==
  /\ pc[p] # "out"
  /\ lock' = Released(p)
  /\ file' = Unheard(p)
  /\ segment' = [segment EXCEPT ![p] = NoSegment]
  /\ unasked' = [unasked EXCEPT ![p] = {}]
  /\ peer' = [peer EXCEPT ![p] = NoPid]
  /\ Go(p, "out")
  /\ UNCHANGED <<written, starts, missed>>

(* Every process has gone for good.                                         *)
AllGone == starts = MaxStarts /\ (\A p \in Pids : pc[p] = "out") /\ UNCHANGED vars

(* The steps of open() itself. A timeout is one: a second always passes.    *)
Proceed(p) ==
  \/ Acquire(p) \/ ListPeers(p) \/ (\E q \in Pids : Connect(p, q)) \/ Reap(p)
  \/ HangUp(p) \/ TimeOut(p) \/ Create(p) \/ Fill(p)
  \/ Bind(p) \/ Listen(p) \/ Serve(p) \/ Undo(p)

Next ==
  \/ \E p \in Pids : Start(p) \/ Proceed(p) \/ Answer(p)
                     \/ Fail(p) \/ Close(p) \/ Leave(p) \/ Crash(p)
  \/ AllGone

Spec == Init /\ [][Next]_vars

(* Processes that are opening keep running. Nothing else is promised: not   *)
(* that a peer's server answers, nor that a process ever closes.            *)
FairSpec == Spec /\ \A p \in Pids : WF_vars(Proceed(p))

-----------------------------------------------------------------------------
TypeOK ==
  /\ pc \in [Pids -> {"out", "lock", "list", "ask", "await", "reap", "fill", "bind", "listen",
                      "serve", "open", "closing", "undo", "local"}]
  /\ lock \in Pids \cup {Free}
  /\ file \in [Pids -> {"none", "bound", "heard"}]
  /\ segment \in [Pids -> Segments \cup {NoSegment}]
  /\ written \subseteq Segments
  /\ unasked \in [Pids -> SUBSET Pids]
  /\ peer \in [Pids -> Pids \cup {NoPid}]
  /\ starts \in 0 .. MaxStarts
  /\ missed \in BOOLEAN

(* A process that has opened the network reads all of it, whoever filled    *)
(* the memory, and if that process was killed at any step of filling it.    *)
SharedIsWritten ==
  \A p \in Pids : pc[p] \in {"open", "closing"} => segment[p] \in written

(* While every live peer answers in time, the directory stands for one      *)
(* memory: processes that serve it all serve the same one, however many     *)
(* were killed, closed or restarted between them.                           *)
OneSegment ==
  \A p, q \in Pids : pc[p] = "open" /\ pc[q] = "open" /\ ~missed => segment[p] = segment[q]

(* The socket file of a process that serves goes only by that process's own *)
(* hand: nobody who reaps dead peers takes it for one of them, though it is *)
(* named after an identifier used before.                                   *)
LiveSocketStays ==
  [][\A p \in Pids : pc[p] = "open" /\ file[p] = "heard" /\ pc'[p] = "open" =>
       file'[p] = "heard"]_vars

(* Every process that begins to open comes to an end of it, with the shared *)
(* memory, with a copy of its own, or dead, whatever becomes of its peers.  *)
OpensEnd == \A p \in Pids : Opening(p) ~> ~Opening(p)
=============================================================================
