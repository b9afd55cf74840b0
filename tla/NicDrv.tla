-------------------------------- MODULE NicDrv ---------------------------------
(***************************************************************************)
(* The frame layer of the master (oshw/nicdrv.c) on a single port: frame   *)
(* indices handed out by ecx_getindex, the status array rxbufstat, and the *)
(* polling receiver ecx_inframe, in which every thread may pick up the     *)
(* reply of any other thread.                                              *)
(*                                                                         *)
(* A thread performs one confirmed transaction after the other, the way    *)
(* every ecx_BRD ... ecx_FPWR of ethercatbase.c does: getindex, fill the   *)
(* tx buffer, ecx_srconfirm, use the answer, setbufstat(EMPTY).  A thread  *)
(* that keeps several frames in the air (process data) counts as several   *)
(* threads of this module.                                                 *)
(*                                                                         *)
(* Only getindex_mutex and rx_mutex are locks; all other accesses to       *)
(* rxbufstat are plain reads and writes, so every one of them is a step.   *)
(***************************************************************************)
EXTENDS Naturals, FiniteSets

CONSTANTS Thread,    \* the threads that talk to the slaves
          MAXBUF,    \* EC_MAXBUF (16 in the code)
          MaxTry,    \* attempts that fit in the timeout of ecx_srconfirm
          MaxReq,    \* bound on the number of transactions of a run
          Timely,    \* TRUE: a receive timer outlasts the round trip of a frame
          SendFails, \* TRUE: send() may return -1
          None       \* no thread, no frame, no answer

Index == 0 .. MAXBUF - 1
Request == 1 .. MaxReq
Try == 1 .. MaxTry
\* A frame on the wire: the index of its EtherCAT header, and the transaction
\* and attempt it was sent for.
Frame == [idx : Index, req : Request, try : Try]

ASSUME NicAssumption == /\ IsFiniteSet(Thread)
                        /\ MAXBUF \in Nat \ {0}
                        /\ MaxTry \in Nat \ {0}
                        /\ MaxReq \in Nat
                        /\ Timely \in BOOLEAN
                        /\ SendFails \in BOOLEAN
                        /\ None \notin Thread
                        /\ None \notin Request
                        /\ None \notin Frame

Status == {"EMPTY", "ALLOC", "TX", "RCVD", "COMPLETE"}

VARIABLES rxbufstat,      \* status of each rx buffer
          lastidx,        \* the index handed out last
          txbuf,          \* transaction whose datagram is in each tx buffer
          rxbuf,          \* transaction whose reply is in each rx buffer
          wire,           \* frames sent, travelling or waiting in the socket
          tempbuf,        \* the frame being sorted, or None
          getindex_mutex, \* holder of the mutex, or None
          rx_mutex,       \* holder of the mutex, or None
          nreq,           \* number of transactions begun
          pc,             \* where each thread is
          idx,            \* its index
          cnt,            \* its scan counter in ecx_getindex
          req,            \* its transaction
          try,            \* its attempt within ecx_srconfirm
          answer          \* the reply it was given, or None for EC_NOFRAME

threadVars == <<pc, idx, cnt, req, try, answer>>
bufVars == <<rxbufstat, lastidx, txbuf, rxbuf>>
vars == <<bufVars, wire, tempbuf, getindex_mutex, rx_mutex, nreq, threadVars>>

Places == {"idle", "scan", "take", "setup", "mark", "send", "poll", "lock",
           "sort", "store", "wait", "answered"}

TypeOK == /\ rxbufstat \in [Index -> Status]
          /\ lastidx \in Index
          /\ txbuf \in [Index -> Request \cup {None}]
          /\ rxbuf \in [Index -> Request \cup {None}]
          /\ wire \in SUBSET Frame
          /\ tempbuf \in Frame \cup {None}
          /\ getindex_mutex \in Thread \cup {None}
          /\ rx_mutex \in Thread \cup {None}
          /\ nreq \in 0 .. MaxReq
          /\ pc \in [Thread -> Places]
          /\ idx \in [Thread -> Index]
          /\ cnt \in [Thread -> 0 .. MAXBUF]
          /\ req \in [Thread -> Request \cup {None}]
          /\ try \in [Thread -> 0 .. MaxTry]
          /\ answer \in [Thread -> Request \cup {None}]

Init == /\ rxbufstat = [i \in Index |-> "EMPTY"]
        /\ lastidx = 0
        /\ txbuf = [i \in Index |-> None]
        /\ rxbuf = [i \in Index |-> None]
        /\ wire = {}
        /\ tempbuf = None
        /\ getindex_mutex = None
        /\ rx_mutex = None
        /\ nreq = 0
        /\ pc = [t \in Thread |-> "idle"]
        /\ idx = [t \in Thread |-> 0]
        /\ cnt = [t \in Thread |-> 0]
        /\ req = [t \in Thread |-> None]
        /\ try = [t \in Thread |-> 0]
        /\ answer = [t \in Thread |-> None]

Goto(t, place) == pc' = [pc EXCEPT ![t] = place]
NextIndex(i) == IF i + 1 >= MAXBUF THEN 0 ELSE i + 1

--------------------------------------------------------------------------------
(* ecx_getindex *)

\* A transaction begins: take getindex_mutex and start the search behind the index used last.
GetIndex(t) ==
    /\ pc[t] = "idle"
    /\ nreq < MaxReq
    /\ getindex_mutex = None
    /\ getindex_mutex' = t
    /\ nreq' = nreq + 1
    /\ req' = [req EXCEPT ![t] = nreq + 1]
    /\ idx' = [idx EXCEPT ![t] = NextIndex(lastidx)]
    /\ cnt' = [cnt EXCEPT ![t] = 0]
    /\ Goto(t, "scan")
    /\ UNCHANGED <<bufVars, wire, tempbuf, rx_mutex, try, answer>>

\* Mutant: the index behind the last one is taken without a look at its status.
ScanIndexBlind(t) ==
    /\ pc[t] = "scan"
    /\ Goto(t, "take")
    /\ UNCHANGED <<bufVars, wire, tempbuf, getindex_mutex, rx_mutex, nreq, idx, cnt, req, try, answer>>

\* while ((rxbufstat[idx] != EC_BUF_EMPTY) && (cnt < EC_MAXBUF))
ScanIndex(t) ==
    /\ pc[t] = "scan"
    /\ IF rxbufstat[idx[t]] # "EMPTY" /\ cnt[t] < MAXBUF
         THEN /\ idx' = [idx EXCEPT ![t] = NextIndex(idx[t])]
              /\ cnt' = [cnt EXCEPT ![t] = @ + 1]
              /\ UNCHANGED pc
         ELSE /\ Goto(t, "take")
              /\ UNCHANGED <<idx, cnt>>
    /\ UNCHANGED <<bufVars, wire, tempbuf, getindex_mutex, rx_mutex, nreq, req, try, answer>>

\* The search is over, found or not: allocate, remember, release the mutex.
TakeIndex(t) ==
    /\ pc[t] = "take"
    /\ rxbufstat' = [rxbufstat EXCEPT ![idx[t]] = "ALLOC"]
    /\ lastidx' = idx[t]
    /\ getindex_mutex' = None
    /\ Goto(t, "setup")
    /\ UNCHANGED <<txbuf, rxbuf, wire, tempbuf, rx_mutex, nreq, idx, cnt, req, try, answer>>

\* ecx_setupdatagram: the datagram of a new transaction goes in the tx buffer.
SetupDatagram(t) ==
    /\ pc[t] = "setup"
    /\ txbuf' = [txbuf EXCEPT ![idx[t]] = req[t]]
    /\ try' = [try EXCEPT ![t] = 0]
    /\ answer' = [answer EXCEPT ![t] = None]
    /\ Goto(t, "mark")
    /\ UNCHANGED <<rxbufstat, lastidx, rxbuf, wire, tempbuf, getindex_mutex, rx_mutex, nreq, idx, cnt, req>>

--------------------------------------------------------------------------------
(* ecx_outframe, called at the head of every turn of ecx_srconfirm *)

\* The status is set before the frame goes out.
MarkTx(t) ==
    /\ pc[t] = "mark"
    /\ rxbufstat' = [rxbufstat EXCEPT ![idx[t]] = "TX"]
    /\ try' = [try EXCEPT ![t] = @ + 1]
    /\ Goto(t, "send")
    /\ UNCHANGED <<lastidx, txbuf, rxbuf, wire, tempbuf, getindex_mutex, rx_mutex, nreq, idx, cnt, req, answer>>

\* send() puts what the tx buffer holds at this moment on the wire.
SendOk(t) ==
    /\ pc[t] = "send"
    /\ wire' = wire \cup {[idx |-> idx[t], req |-> txbuf[idx[t]], try |-> try[t]]}
    /\ Goto(t, "poll")
    /\ UNCHANGED <<bufVars, tempbuf, getindex_mutex, rx_mutex, nreq, idx, cnt, req, try, answer>>

\* send() returns -1: the status becomes EMPTY, ecx_srconfirm polls all the same.
SendError(t) ==
    /\ SendFails
    /\ pc[t] = "send"
    /\ rxbufstat' = [rxbufstat EXCEPT ![idx[t]] = "EMPTY"]
    /\ Goto(t, "poll")
    /\ UNCHANGED <<lastidx, txbuf, rxbuf, wire, tempbuf, getindex_mutex, rx_mutex, nreq, idx, cnt, req, try, answer>>

--------------------------------------------------------------------------------
(* ecx_inframe *)

\* Without a lock: has another thread left the reply in the buffer?
PollBuffer(t) ==
    /\ pc[t] = "poll"
    /\ IF rxbufstat[idx[t]] = "RCVD"
         THEN /\ answer' = [answer EXCEPT ![t] = rxbuf[idx[t]]]
              /\ rxbufstat' = [rxbufstat EXCEPT ![idx[t]] = "COMPLETE"]
              /\ Goto(t, "answered")
         ELSE /\ Goto(t, "lock")
              /\ UNCHANGED <<answer, rxbufstat>>
    /\ UNCHANGED <<lastidx, txbuf, rxbuf, wire, tempbuf, getindex_mutex, rx_mutex, nreq, idx, cnt, req, try>>

\* ecx_recvpkt under rx_mutex finds the socket empty.
RecvNothing(t) ==
    /\ pc[t] = "lock"
    /\ rx_mutex = None
    /\ Goto(t, "wait")
    /\ UNCHANGED <<bufVars, wire, tempbuf, getindex_mutex, rx_mutex, nreq, idx, cnt, req, try, answer>>

\* ecx_recvpkt under rx_mutex reads a frame; frames may overtake each other.
RecvFrame(t) ==
    /\ pc[t] = "lock"
    /\ rx_mutex = None
    /\ \E f \in wire : /\ wire' = wire \ {f}
                       /\ tempbuf' = f
    /\ rx_mutex' = t
    /\ Goto(t, "sort")
    /\ UNCHANGED <<bufVars, getindex_mutex, nreq, idx, cnt, req, try, answer>>

\* The index of the frame is the caller's: complete, whatever the status says.
SortOwn(t) ==
    /\ pc[t] = "sort"
    /\ tempbuf.idx = idx[t]
    /\ rxbuf' = [rxbuf EXCEPT ![idx[t]] = tempbuf.req]
    /\ answer' = [answer EXCEPT ![t] = tempbuf.req]
    /\ rxbufstat' = [rxbufstat EXCEPT ![idx[t]] = "COMPLETE"]
    /\ tempbuf' = None
    /\ rx_mutex' = None
    /\ Goto(t, "answered")
    /\ UNCHANGED <<lastidx, txbuf, wire, getindex_mutex, nreq, idx, cnt, req, try>>

\* Mutant: the early way out forgets the mutex.
SortOtherLocked(t) ==
    /\ pc[t] = "sort"
    /\ tempbuf.idx # idx[t]
    /\ IF rxbufstat[tempbuf.idx] = "TX"
         THEN Goto(t, "store")
         ELSE Goto(t, "wait")
    /\ UNCHANGED <<bufVars, wire, tempbuf, getindex_mutex, rx_mutex, nreq, idx, cnt, req, try, answer>>

\* "check if index exist and someone is waiting for it"
SortOther(t) ==
    /\ pc[t] = "sort"
    /\ tempbuf.idx # idx[t]
    /\ IF rxbufstat[tempbuf.idx] = "TX"
         THEN /\ Goto(t, "store")
              /\ UNCHANGED <<tempbuf, rx_mutex>>
         ELSE /\ Goto(t, "wait")
              /\ tempbuf' = None
              /\ rx_mutex' = None
    /\ UNCHANGED <<bufVars, wire, getindex_mutex, nreq, idx, cnt, req, try, answer>>

\* Mutant: the frame of the other thread is copied to the caller's own buffer.
StoreOtherOwnBuffer(t) ==
    /\ pc[t] = "store"
    /\ rxbuf' = [rxbuf EXCEPT ![idx[t]] = tempbuf.req]
    /\ rxbufstat' = [rxbufstat EXCEPT ![tempbuf.idx] = "RCVD"]
    /\ tempbuf' = None
    /\ rx_mutex' = None
    /\ Goto(t, "wait")
    /\ UNCHANGED <<lastidx, txbuf, wire, getindex_mutex, nreq, idx, cnt, req, try, answer>>

\* Store the frame of the other thread and "mark as received".
StoreOther(t) ==
    /\ pc[t] = "store"
    /\ rxbuf' = [rxbuf EXCEPT ![tempbuf.idx] = tempbuf.req]
    /\ rxbufstat' = [rxbufstat EXCEPT ![tempbuf.idx] = "RCVD"]
    /\ tempbuf' = None
    /\ rx_mutex' = None
    /\ Goto(t, "wait")
    /\ UNCHANGED <<lastidx, txbuf, wire, getindex_mutex, nreq, idx, cnt, req, try, answer>>

--------------------------------------------------------------------------------
(* the loops of ecx_waitinframe_red and ecx_srconfirm *)

\* A reply for index i is on its way, being sorted, or stored unread.
Underway(i) == \/ \E f \in wire : f.idx = i
               \/ tempbuf # None /\ tempbuf.idx = i
               \/ rxbufstat[i] = "RCVD"

\* timer2 is running: poll again.
PollAgain(t) ==
    /\ pc[t] = "wait"
    /\ Goto(t, "poll")
    /\ UNCHANGED <<bufVars, wire, tempbuf, getindex_mutex, rx_mutex, nreq, idx, cnt, req, try, answer>>

\* timer2 has expired and timer1 has not: the next attempt.
Retry(t) ==
    /\ pc[t] = "wait"
    /\ Timely => ~Underway(idx[t])
    /\ try[t] < MaxTry
    /\ Goto(t, "mark")
    /\ UNCHANGED <<bufVars, wire, tempbuf, getindex_mutex, rx_mutex, nreq, idx, cnt, req, try, answer>>

\* Both timers have expired: EC_NOFRAME.
GiveUp(t) ==
    /\ pc[t] = "wait"
    /\ Timely => ~Underway(idx[t])
    /\ answer' = [answer EXCEPT ![t] = None]
    /\ Goto(t, "answered")
    /\ UNCHANGED <<bufVars, wire, tempbuf, getindex_mutex, rx_mutex, nreq, idx, cnt, req, try>>

\* Mutant: the buffer is released only when an answer came.
ReleaseAnswered(t) ==
    /\ pc[t] = "answered"
    /\ rxbufstat' = IF answer[t] = None THEN rxbufstat
                    ELSE [rxbufstat EXCEPT ![idx[t]] = "EMPTY"]
    /\ Goto(t, "idle")
    /\ UNCHANGED <<lastidx, txbuf, rxbuf, wire, tempbuf, getindex_mutex, rx_mutex, nreq, idx, cnt, req, try, answer>>

\* The caller has copied the data out of rxbuf: ecx_setbufstat(idx, EC_BUF_EMPTY).
Release(t) ==
    /\ pc[t] = "answered"
    /\ rxbufstat' = [rxbufstat EXCEPT ![idx[t]] = "EMPTY"]
    /\ Goto(t, "idle")
    /\ UNCHANGED <<lastidx, txbuf, rxbuf, wire, tempbuf, getindex_mutex, rx_mutex, nreq, idx, cnt, req, try, answer>>

--------------------------------------------------------------------------------
\* A frame is lost on the cable or in a slave.
LoseFrame ==
    /\ \E f \in wire : wire' = wire \ {f}
    /\ UNCHANGED <<bufVars, tempbuf, getindex_mutex, rx_mutex, nreq, threadVars>>

\* The bound on transactions is reached and all threads are back in their
\* applications: the run ends here.
Finished ==
    /\ nreq = MaxReq
    /\ \A t \in Thread : pc[t] = "idle"
    /\ UNCHANGED vars

Step(t) == \/ GetIndex(t) \/ ScanIndex(t) \/ TakeIndex(t) \/ SetupDatagram(t)
           \/ MarkTx(t) \/ SendOk(t) \/ SendError(t)
           \/ PollBuffer(t) \/ RecvNothing(t) \/ RecvFrame(t)
           \/ SortOwn(t) \/ SortOther(t) \/ StoreOther(t)
           \/ PollAgain(t) \/ Retry(t) \/ GiveUp(t) \/ Release(t)

Next == \/ \E t \in Thread : Step(t)
        \/ LoseFrame
        \/ Finished

Spec == Init /\ [][Next]_vars

\* A runnable thread runs on, a thread that keeps trying to lock a mutex or to
\* read the socket gets its turn, and a timer that is polled again and again is
\* found expired in the end.
Fairness == \A t \in Thread : /\ WF_vars(Step(t) /\ pc[t] # "idle")
                              /\ SF_vars(RecvNothing(t) \/ RecvFrame(t))
                              /\ SF_vars(RecvFrame(t))
                              /\ SF_vars(Retry(t) \/ GiveUp(t))
FairSpec == Spec /\ Fairness
--------------------------------------------------------------------------------
\* Thread t has an index of its own, from ecx_getindex to ecx_setbufstat.
Holds(t) == pc[t] \notin {"idle", "scan", "take"}

\* No two threads ever work with the same index, although a thread marks the
\* buffer of another (ecx_inframe) and releases its own (ecx_setbufstat)
\* without the mutex of ecx_getindex.
OneOwner == \A t, u \in Thread :
                Holds(t) /\ Holds(u) /\ idx[t] = idx[u] => t = u

\* A buffer that is not EMPTY belongs to a thread: ecx_getindex skips all others,
\* so any other such buffer would be lost for ever.
NoIndexLost == \A i \in Index :
                 rxbufstat[i] # "EMPTY" => \E t \in Thread : Holds(t) /\ idx[t] = i

\* The answer that ecx_srconfirm reports is the answer to the thread's own
\* datagram, and is still in the buffer when the caller copies its data.
AnswerIsMine == \A t \in Thread :
                  pc[t] = "answered" /\ answer[t] # None =>
                      answer[t] = req[t] /\ rxbuf[idx[t]] = req[t]

\* Late replies, failing sends and more threads than buffers lose an index in one place
\* only: ecx_inframe marks a buffer as received whose owner has given up and released it
\* since "check if index exist and someone is waiting for it".
Orphans == {i \in Index : rxbufstat[i] # "EMPTY" /\ ~\E t \in Thread : Holds(t) /\ idx[t] = i}
LostInWindow ==
    [][\A i \in Orphans' \ Orphans : \E t \in Thread : StoreOther(t) /\ tempbuf.idx = i]_vars

\* Every transaction ends: ecx_srconfirm and the lock in front of the socket
\* never keep a thread for ever.
CallReturns == \A t \in Thread : pc[t] = "mark" ~> pc[t] = "idle"
--------------------------------------------------------------------------------
(* The inductive strengthening, for Timely and working sends. *)

Waits(t) == pc[t] \in {"poll", "lock", "sort", "store", "wait"}

\* Who holds which mutex, and that tempbuf is in use exactly under rx_mutex.
LockInv == /\ \A t \in Thread : getindex_mutex = t <=> pc[t] \in {"scan", "take"}
           /\ \A t \in Thread : rx_mutex = t <=> pc[t] \in {"sort", "store"}
           /\ tempbuf = None <=> rx_mutex = None

\* The search of ecx_getindex still has an EMPTY buffer ahead of it.
Ahead(i, k) == IF i + k >= MAXBUF THEN i + k - MAXBUF ELSE i + k
ScanInv == /\ \A t \in Thread : pc[t] = "scan" =>
                 \E k \in 0 .. MAXBUF - 1 :
                     k + cnt[t] < MAXBUF /\ rxbufstat[Ahead(idx[t], k)] = "EMPTY"
           /\ \A t \in Thread : pc[t] = "take" => rxbufstat[idx[t]] = "EMPTY"

\* The status of a buffer follows the place of its only owner.
StatusOk(t) ==
    /\ pc[t] = "setup" => rxbufstat[idx[t]] = "ALLOC"
    /\ pc[t] = "mark" => rxbufstat[idx[t]] \in {"ALLOC", "TX"}
    /\ pc[t] = "send" => rxbufstat[idx[t]] = "TX"
    /\ Waits(t) => rxbufstat[idx[t]] \in {"TX", "RCVD"}
    /\ pc[t] = "answered" => rxbufstat[idx[t]] \in {"TX", "COMPLETE"}

\* A frame in flight has an owner that waits for it, and is the only one of its
\* index.
InFlight == wire \cup ({tempbuf} \ {None})
FrameInv == /\ \A f \in InFlight : \E t \in Thread :
                  /\ Waits(t) /\ idx[t] = f.idx /\ req[t] = f.req
                  /\ rxbufstat[f.idx] = "TX"
            /\ \A f, g \in InFlight : f.idx = g.idx => f = g
            /\ tempbuf \notin wire

\* What the buffers hold belongs to the transaction of the owner.
ContentOk(t) ==
    /\ pc[t] # "idle" => req[t] # None
    /\ pc[t] = "mark" => try[t] < MaxTry
    /\ pc[t] = "send" => try[t] # 0
    /\ pc[t] \in {"mark", "send"} \/ Waits(t) => txbuf[idx[t]] = req[t]
    /\ Waits(t) /\ rxbufstat[idx[t]] = "RCVD" => rxbuf[idx[t]] = req[t]

NicInv == /\ TypeOK
          /\ LockInv
          /\ ScanInv
          /\ \A t \in Thread : StatusOk(t) /\ ContentOk(t)
          /\ OneOwner
          /\ NoIndexLost
          /\ FrameInv
          /\ AnswerIsMine
================================================================================
