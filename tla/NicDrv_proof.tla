----------------------------- MODULE NicDrv_proof ------------------------------
(***************************************************************************)
(* Proofs about the frame layer.  For any number of threads that does not  *)
(* exceed EC_MAXBUF, under the two conditions the code relies on (a frame  *)
(* that comes back does so before its receive timer expires, and send()    *)
(* succeeds: Env), one lemma per action shows that it preserves NicInv.    *)
(* The last theorem does without Env: it says where an index is lost when  *)
(* replies are late, sends fail or threads outnumber the buffers.          *)
(***************************************************************************)
EXTENDS NicDrv, FiniteSetTheorems, TLAPS

USE NicAssumption DEF NicAssumption, Index, Request, Try, Frame, Status

\* What the frame layer needs from its environment.
Env == /\ Timely
       /\ ~SendFails
       /\ Cardinality(Thread) <= MAXBUF

\* A search goes on undisturbed while EMPTY buffers stay EMPTY.
LEMMA ScanKept ==
    ASSUME NicInv,
           \A u \in Thread : pc'[u] \in {"scan", "take"} =>
               pc'[u] = pc[u] /\ idx'[u] = idx[u] /\ cnt'[u] = cnt[u],
           \A i \in Index : rxbufstat[i] = "EMPTY" => rxbufstat'[i] = "EMPTY"
    PROVE  ScanInv'
<1> USE DEF NicInv
<1>1. ASSUME NEW u \in Thread, pc'[u] = "scan"
      PROVE  \E k \in 0 .. MAXBUF - 1 :
                 k + cnt'[u] < MAXBUF /\ rxbufstat'[Ahead(idx'[u], k)] = "EMPTY"
  <2>1. PICK k \in 0 .. MAXBUF - 1 :
             k + cnt[u] < MAXBUF /\ rxbufstat[Ahead(idx[u], k)] = "EMPTY"
    BY <1>1 DEF ScanInv
  <2>2. Ahead(idx[u], k) \in Index
    BY DEF Ahead, TypeOK
  <2>3. idx'[u] = idx[u] /\ cnt'[u] = cnt[u]
    BY <1>1
  <2>4. QED
    BY <2>1, <2>2, <2>3
<1>2. ASSUME NEW u \in Thread, pc'[u] = "take"
      PROVE  rxbufstat'[idx'[u]] = "EMPTY"
  <2>1. idx[u] \in Index /\ rxbufstat[idx[u]] = "EMPTY" /\ idx'[u] = idx[u]
    BY <1>2 DEF ScanInv, TypeOK
  <2>2. QED
    BY <2>1
<1>3. QED
  BY <1>1, <1>2 DEF ScanInv, Ahead

\* Frames that stay in flight keep their waiting owner.
LEMMA FramesKept ==
    ASSUME NicInv, InFlight' \subseteq InFlight, tempbuf' \notin wire',
           ASSUME NEW f \in InFlight', NEW u \in Thread,
                  Waits(u), idx[u] = f.idx, req[u] = f.req, rxbufstat[f.idx] = "TX"
           PROVE  Waits(u)' /\ idx'[u] = f.idx /\ req'[u] = f.req /\ rxbufstat'[f.idx] = "TX"
    PROVE  FrameInv'
<1>1. \A f \in InFlight' : \E u \in Thread :
         Waits(u)' /\ idx'[u] = f.idx /\ req'[u] = f.req /\ rxbufstat'[f.idx] = "TX"
  BY DEF NicInv, FrameInv
<1>2. \A f, g \in InFlight' : f.idx = g.idx => f = g
  BY DEF NicInv, FrameInv
<1>3. QED
  BY <1>1, <1>2 DEF FrameInv

\* A thread whose place, locals and buffers a step leaves alone stays in order.
LEMMA ThreadKept ==
    ASSUME NicInv, NEW u \in Thread,
           pc'[u] = pc[u], idx'[u] = idx[u], req'[u] = req[u], try'[u] = try[u],
           Holds(u) => /\ rxbufstat'[idx[u]] = rxbufstat[idx[u]]
                       /\ txbuf'[idx[u]] = txbuf[idx[u]]
                       /\ rxbuf'[idx[u]] = rxbuf[idx[u]]
    PROVE  StatusOk(u)' /\ ContentOk(u)'
<1>1. StatusOk(u) /\ ContentOk(u)
  BY DEF NicInv
<1>2. StatusOk(u)'
  BY <1>1 DEF StatusOk, Waits, Holds
<1>3. ContentOk(u)'
  BY <1>1 DEF ContentOk, Waits, Holds
<1>4. QED
  BY <1>2, <1>3

LEMMA SetupDatagramStep ==
    ASSUME Env, NicInv, NEW t \in Thread, SetupDatagram(t) PROVE NicInv'
<1> USE DEF NicInv
<1>1. /\ pc[t] = "setup" /\ pc'[t] = "mark"
      /\ \A u \in Thread \ {t} : pc'[u] = pc[u]
  BY DEF SetupDatagram, Goto, TypeOK
<1>2. /\ txbuf'[idx[t]] = req[t] /\ \A i \in Index \ {idx[t]} : txbuf'[i] = txbuf[i]
      /\ try'[t] = 0 /\ \A u \in Thread \ {t} : try'[u] = try[u]
      /\ answer'[t] = None /\ \A u \in Thread \ {t} : answer'[u] = answer[u]
      /\ UNCHANGED <<rxbufstat, lastidx, rxbuf, wire, tempbuf, getindex_mutex, rx_mutex, nreq, idx, cnt, req>>
  BY DEF SetupDatagram, bufVars, TypeOK
<1>3. \A u \in Thread \ {t} : Holds(u) => idx[u] \in Index /\ idx[u] # idx[t]
  BY <1>1 DEF OneOwner, Holds, TypeOK
<1>4. TypeOK'
  BY DEF SetupDatagram, Goto, bufVars, TypeOK, Places, ContentOk
<1>5. LockInv'
  BY <1>1, <1>2 DEF LockInv, TypeOK
<1>6. ScanInv'
  BY <1>1, <1>2, ScanKept
<1>7. \A u \in Thread : StatusOk(u)' /\ ContentOk(u)'
  <2>1. StatusOk(t)' /\ ContentOk(t)'
    BY <1>1, <1>2 DEF StatusOk, ContentOk, Waits, TypeOK
  <2>2. ASSUME NEW u \in Thread \ {t} PROVE StatusOk(u)' /\ ContentOk(u)'
    BY <1>1, <1>2, <1>3, ThreadKept
  <2>3. QED
    BY <2>1, <2>2
<1>8. OneOwner'
  BY <1>1, <1>2 DEF OneOwner, Holds
<1>9. NoIndexLost'
  BY <1>1, <1>2 DEF NoIndexLost, Holds, TypeOK
<1>10. FrameInv'
  <2>1. InFlight' \subseteq InFlight /\ tempbuf' \notin wire'
    BY <1>2 DEF InFlight, FrameInv
  <2>2. ASSUME NEW f \in InFlight', NEW u \in Thread,
               Waits(u), idx[u] = f.idx, req[u] = f.req, rxbufstat[f.idx] = "TX"
        PROVE  Waits(u)' /\ idx'[u] = f.idx /\ req'[u] = f.req /\ rxbufstat'[f.idx] = "TX"
    <3>1. u # t
      BY <1>1, <2>2 DEF Waits
    <3>2. QED
      BY <1>1, <1>2, <1>3, <2>2, <3>1 DEF Waits, Holds
  <2>3. QED
    BY <2>1, <2>2, FramesKept
<1>11. AnswerIsMine'
  <2>1. \A u \in Thread : pc'[u] = "answered" /\ answer'[u] # None =>
           pc[u] = "answered" /\ answer'[u] = answer[u]
    BY <1>1, <1>2
  <2>2. QED
    BY <1>2, <2>1 DEF AnswerIsMine
<1>12. QED
  BY <1>4, <1>5, <1>6, <1>7, <1>8, <1>9, <1>10, <1>11

LEMMA MarkTxStep ==
    ASSUME Env, NicInv, NEW t \in Thread, MarkTx(t) PROVE NicInv'
<1> USE DEF NicInv
<1>1. /\ pc[t] = "mark" /\ pc'[t] = "send"
      /\ \A u \in Thread \ {t} : pc'[u] = pc[u]
  BY DEF MarkTx, Goto, TypeOK
<1>2. /\ rxbufstat'[idx[t]] = "TX" /\ \A i \in Index \ {idx[t]} : rxbufstat'[i] = rxbufstat[i]
      /\ try'[t] = try[t] + 1 /\ \A u \in Thread \ {t} : try'[u] = try[u]
      /\ UNCHANGED <<lastidx, txbuf, rxbuf, wire, tempbuf, getindex_mutex, rx_mutex, nreq, idx, cnt, req, answer>>
  BY DEF MarkTx, bufVars, TypeOK
<1>3. \A u \in Thread \ {t} : Holds(u) => idx[u] \in Index /\ idx[u] # idx[t]
  BY <1>1 DEF OneOwner, Holds, TypeOK
<1>4. TypeOK'
  <2>1. try[t] + 1 \in 0 .. MaxTry
    BY <1>1 DEF TypeOK, ContentOk
  <2>2. try' \in [Thread -> 0 .. MaxTry] /\ rxbufstat' \in [Index -> Status]
    BY <2>1 DEF MarkTx, TypeOK
  <2>3. pc' \in [Thread -> Places]
    BY DEF MarkTx, Goto, TypeOK, Places
  <2>4. QED
    BY <1>2, <2>2, <2>3 DEF TypeOK
<1>5. LockInv'
  BY <1>1, <1>2 DEF LockInv, TypeOK
<1>6. ScanInv'
  <2>1. rxbufstat[idx[t]] # "EMPTY"
    BY <1>1 DEF StatusOk
  <2>2. \A i \in Index : rxbufstat[i] = "EMPTY" => rxbufstat'[i] = "EMPTY"
    BY <1>2, <2>1
  <2>3. QED
    BY <1>1, <1>2, <2>2, ScanKept
<1>7. \A u \in Thread : StatusOk(u)' /\ ContentOk(u)'
  <2>1. StatusOk(t)' /\ ContentOk(t)'
    BY <1>1, <1>2 DEF StatusOk, ContentOk, Waits, TypeOK
  <2>2. ASSUME NEW u \in Thread \ {t} PROVE StatusOk(u)' /\ ContentOk(u)'
    BY <1>1, <1>2, <1>3, ThreadKept
  <2>3. QED
    BY <2>1, <2>2
<1>8. OneOwner'
  BY <1>1, <1>2 DEF OneOwner, Holds
<1>9. NoIndexLost'
  BY <1>1, <1>2 DEF NoIndexLost, Holds, TypeOK
<1>10. FrameInv'
  <2>1. InFlight' \subseteq InFlight /\ tempbuf' \notin wire'
    BY <1>2 DEF InFlight, FrameInv
  <2>2. ASSUME NEW f \in InFlight', NEW u \in Thread,
               Waits(u), idx[u] = f.idx, req[u] = f.req, rxbufstat[f.idx] = "TX"
        PROVE  Waits(u)' /\ idx'[u] = f.idx /\ req'[u] = f.req /\ rxbufstat'[f.idx] = "TX"
    <3>1. u # t
      BY <1>1, <2>2 DEF Waits
    <3>2. QED
      BY <1>1, <1>2, <1>3, <2>2, <3>1 DEF Waits, Holds
  <2>3. QED
    BY <2>1, <2>2, FramesKept
<1>11. AnswerIsMine'
  <2>1. \A u \in Thread : pc'[u] = "answered" /\ answer'[u] # None =>
           pc[u] = "answered" /\ answer'[u] = answer[u]
    BY <1>1, <1>2
  <2>2. QED
    BY <1>2, <2>1 DEF AnswerIsMine
<1>12. QED
  BY <1>4, <1>5, <1>6, <1>7, <1>8, <1>9, <1>10, <1>11

LEMMA RecvNothingStep ==
    ASSUME Env, NicInv, NEW t \in Thread, RecvNothing(t) PROVE NicInv'
<1> USE DEF NicInv
<1>1. /\ pc[t] = "lock" /\ pc'[t] = "wait"
      /\ \A u \in Thread \ {t} : pc'[u] = pc[u]
  BY DEF RecvNothing, Goto, TypeOK
<1>2. /\ UNCHANGED <<rxbufstat, lastidx, txbuf, rxbuf, wire, tempbuf, getindex_mutex, rx_mutex, nreq, idx, cnt, req, try, answer>>
  BY DEF RecvNothing, bufVars, TypeOK
<1>3. \A u \in Thread \ {t} : Holds(u) => idx[u] \in Index /\ idx[u] # idx[t]
  BY <1>1 DEF OneOwner, Holds, TypeOK
<1>4. TypeOK'
  BY DEF RecvNothing, Goto, bufVars, TypeOK, Places, ContentOk
<1>5. LockInv'
  BY <1>1, <1>2 DEF LockInv, TypeOK
<1>6. ScanInv'
  BY <1>1, <1>2, ScanKept
<1>7. \A u \in Thread : StatusOk(u)' /\ ContentOk(u)'
  <2>1. StatusOk(t)' /\ ContentOk(t)'
    BY <1>1, <1>2 DEF StatusOk, ContentOk, Waits, TypeOK
  <2>2. ASSUME NEW u \in Thread \ {t} PROVE StatusOk(u)' /\ ContentOk(u)'
    BY <1>1, <1>2, <1>3, ThreadKept
  <2>3. QED
    BY <2>1, <2>2
<1>8. OneOwner'
  BY <1>1, <1>2 DEF OneOwner, Holds
<1>9. NoIndexLost'
  BY <1>1, <1>2 DEF NoIndexLost, Holds, TypeOK
<1>10. FrameInv'
  <2>1. InFlight' \subseteq InFlight /\ tempbuf' \notin wire'
    BY <1>2 DEF InFlight, FrameInv
  <2>2. ASSUME NEW f \in InFlight', NEW u \in Thread,
               Waits(u), idx[u] = f.idx, req[u] = f.req, rxbufstat[f.idx] = "TX"
        PROVE  Waits(u)' /\ idx'[u] = f.idx /\ req'[u] = f.req /\ rxbufstat'[f.idx] = "TX"
    BY <1>1, <1>2, <2>2 DEF Waits
  <2>3. QED
    BY <2>1, <2>2, FramesKept
<1>11. AnswerIsMine'
  <2>1. \A u \in Thread : pc'[u] = "answered" /\ answer'[u] # None =>
           pc[u] = "answered" /\ answer'[u] = answer[u]
    BY <1>1, <1>2
  <2>2. QED
    BY <1>2, <2>1 DEF AnswerIsMine
<1>12. QED
  BY <1>4, <1>5, <1>6, <1>7, <1>8, <1>9, <1>10, <1>11

LEMMA PollAgainStep ==
    ASSUME Env, NicInv, NEW t \in Thread, PollAgain(t) PROVE NicInv'
<1> USE DEF NicInv
<1>1. /\ pc[t] = "wait" /\ pc'[t] = "poll"
      /\ \A u \in Thread \ {t} : pc'[u] = pc[u]
  BY DEF PollAgain, Goto, TypeOK
<1>2. /\ UNCHANGED <<rxbufstat, lastidx, txbuf, rxbuf, wire, tempbuf, getindex_mutex, rx_mutex, nreq, idx, cnt, req, try, answer>>
  BY DEF PollAgain, bufVars, TypeOK
<1>3. \A u \in Thread \ {t} : Holds(u) => idx[u] \in Index /\ idx[u] # idx[t]
  BY <1>1 DEF OneOwner, Holds, TypeOK
<1>4. TypeOK'
  BY DEF PollAgain, Goto, bufVars, TypeOK, Places, ContentOk
<1>5. LockInv'
  BY <1>1, <1>2 DEF LockInv, TypeOK
<1>6. ScanInv'
  BY <1>1, <1>2, ScanKept
<1>7. \A u \in Thread : StatusOk(u)' /\ ContentOk(u)'
  <2>1. StatusOk(t)' /\ ContentOk(t)'
    BY <1>1, <1>2 DEF StatusOk, ContentOk, Waits, TypeOK
  <2>2. ASSUME NEW u \in Thread \ {t} PROVE StatusOk(u)' /\ ContentOk(u)'
    BY <1>1, <1>2, <1>3, ThreadKept
  <2>3. QED
    BY <2>1, <2>2
<1>8. OneOwner'
  BY <1>1, <1>2 DEF OneOwner, Holds
<1>9. NoIndexLost'
  BY <1>1, <1>2 DEF NoIndexLost, Holds, TypeOK
<1>10. FrameInv'
  <2>1. InFlight' \subseteq InFlight /\ tempbuf' \notin wire'
    BY <1>2 DEF InFlight, FrameInv
  <2>2. ASSUME NEW f \in InFlight', NEW u \in Thread,
               Waits(u), idx[u] = f.idx, req[u] = f.req, rxbufstat[f.idx] = "TX"
        PROVE  Waits(u)' /\ idx'[u] = f.idx /\ req'[u] = f.req /\ rxbufstat'[f.idx] = "TX"
    BY <1>1, <1>2, <2>2 DEF Waits
  <2>3. QED
    BY <2>1, <2>2, FramesKept
<1>11. AnswerIsMine'
  <2>1. \A u \in Thread : pc'[u] = "answered" /\ answer'[u] # None =>
           pc[u] = "answered" /\ answer'[u] = answer[u]
    BY <1>1, <1>2
  <2>2. QED
    BY <1>2, <2>1 DEF AnswerIsMine
<1>12. QED
  BY <1>4, <1>5, <1>6, <1>7, <1>8, <1>9, <1>10, <1>11

LEMMA RetryStep ==
    ASSUME Env, NicInv, NEW t \in Thread, Retry(t) PROVE NicInv'
<1> USE DEF NicInv
<1>1. /\ pc[t] = "wait" /\ pc'[t] = "mark"
      /\ \A u \in Thread \ {t} : pc'[u] = pc[u]
  BY DEF Retry, Goto, TypeOK
<1>2. /\ UNCHANGED <<rxbufstat, lastidx, txbuf, rxbuf, wire, tempbuf, getindex_mutex, rx_mutex, nreq, idx, cnt, req, try, answer>>
  BY DEF Retry, bufVars, TypeOK
<1>3. \A u \in Thread \ {t} : Holds(u) => idx[u] \in Index /\ idx[u] # idx[t]
  BY <1>1 DEF OneOwner, Holds, TypeOK
<1>4. rxbufstat[idx[t]] # "RCVD" /\ \A g \in InFlight : g.idx # idx[t]
  BY DEF Retry, Env, Underway, InFlight
<1>5. TypeOK'
  BY DEF Retry, Goto, bufVars, TypeOK, Places, ContentOk
<1>6. LockInv'
  BY <1>1, <1>2 DEF LockInv, TypeOK
<1>7. ScanInv'
  BY <1>1, <1>2, ScanKept
<1>8. \A u \in Thread : StatusOk(u)' /\ ContentOk(u)'
  <2>1. StatusOk(t)' /\ ContentOk(t)'
    BY <1>1, <1>2, <1>4 DEF StatusOk, ContentOk, Waits, TypeOK, Retry
  <2>2. ASSUME NEW u \in Thread \ {t} PROVE StatusOk(u)' /\ ContentOk(u)'
    BY <1>1, <1>2, <1>3, ThreadKept
  <2>3. QED
    BY <2>1, <2>2
<1>9. OneOwner'
  BY <1>1, <1>2 DEF OneOwner, Holds
<1>10. NoIndexLost'
  BY <1>1, <1>2 DEF NoIndexLost, Holds, TypeOK
<1>11. FrameInv'
  <2>1. InFlight' \subseteq InFlight /\ tempbuf' \notin wire'
    BY <1>2 DEF InFlight, FrameInv
  <2>2. ASSUME NEW f \in InFlight', NEW u \in Thread,
               Waits(u), idx[u] = f.idx, req[u] = f.req, rxbufstat[f.idx] = "TX"
        PROVE  Waits(u)' /\ idx'[u] = f.idx /\ req'[u] = f.req /\ rxbufstat'[f.idx] = "TX"
    <3>1. u # t
      BY <1>4, <2>1, <2>2
    <3>2. QED
      BY <1>1, <1>2, <1>3, <2>2, <3>1 DEF Waits, Holds
  <2>3. QED
    BY <2>1, <2>2, FramesKept
<1>12. AnswerIsMine'
  <2>1. \A u \in Thread : pc'[u] = "answered" /\ answer'[u] # None =>
           pc[u] = "answered" /\ answer'[u] = answer[u]
    BY <1>1, <1>2
  <2>2. QED
    BY <1>2, <2>1 DEF AnswerIsMine
<1>13. QED
  BY <1>5, <1>6, <1>7, <1>8, <1>9, <1>10, <1>11, <1>12

LEMMA GiveUpStep ==
    ASSUME Env, NicInv, NEW t \in Thread, GiveUp(t) PROVE NicInv'
<1> USE DEF NicInv
<1>1. /\ pc[t] = "wait" /\ pc'[t] = "answered"
      /\ \A u \in Thread \ {t} : pc'[u] = pc[u]
  BY DEF GiveUp, Goto, TypeOK
<1>2. /\ answer'[t] = None /\ \A u \in Thread \ {t} : answer'[u] = answer[u]
      /\ UNCHANGED <<rxbufstat, lastidx, txbuf, rxbuf, wire, tempbuf, getindex_mutex, rx_mutex, nreq, idx, cnt, req, try>>
  BY DEF GiveUp, bufVars, TypeOK
<1>3. \A u \in Thread \ {t} : Holds(u) => idx[u] \in Index /\ idx[u] # idx[t]
  BY <1>1 DEF OneOwner, Holds, TypeOK
<1>4. rxbufstat[idx[t]] # "RCVD" /\ \A g \in InFlight : g.idx # idx[t]
  BY DEF GiveUp, Env, Underway, InFlight
<1>5. TypeOK'
  BY DEF GiveUp, Goto, bufVars, TypeOK, Places, ContentOk
<1>6. LockInv'
  BY <1>1, <1>2 DEF LockInv, TypeOK
<1>7. ScanInv'
  BY <1>1, <1>2, ScanKept
<1>8. \A u \in Thread : StatusOk(u)' /\ ContentOk(u)'
  <2>1. StatusOk(t)' /\ ContentOk(t)'
    BY <1>1, <1>2, <1>4 DEF StatusOk, ContentOk, Waits, TypeOK
  <2>2. ASSUME NEW u \in Thread \ {t} PROVE StatusOk(u)' /\ ContentOk(u)'
    BY <1>1, <1>2, <1>3, ThreadKept
  <2>3. QED
    BY <2>1, <2>2
<1>9. OneOwner'
  BY <1>1, <1>2 DEF OneOwner, Holds
<1>10. NoIndexLost'
  BY <1>1, <1>2 DEF NoIndexLost, Holds, TypeOK
<1>11. FrameInv'
  <2>1. InFlight' \subseteq InFlight /\ tempbuf' \notin wire'
    BY <1>2 DEF InFlight, FrameInv
  <2>2. ASSUME NEW f \in InFlight', NEW u \in Thread,
               Waits(u), idx[u] = f.idx, req[u] = f.req, rxbufstat[f.idx] = "TX"
        PROVE  Waits(u)' /\ idx'[u] = f.idx /\ req'[u] = f.req /\ rxbufstat'[f.idx] = "TX"
    <3>1. u # t
      BY <1>4, <2>1, <2>2
    <3>2. QED
      BY <1>1, <1>2, <1>3, <2>2, <3>1 DEF Waits, Holds
  <2>3. QED
    BY <2>1, <2>2, FramesKept
<1>12. AnswerIsMine'
  <2>1. \A u \in Thread : pc'[u] = "answered" /\ answer'[u] # None =>
           pc[u] = "answered" /\ answer'[u] = answer[u]
    BY <1>1, <1>2
  <2>2. QED
    BY <1>2, <2>1 DEF AnswerIsMine
<1>13. QED
  BY <1>5, <1>6, <1>7, <1>8, <1>9, <1>10, <1>11, <1>12

LEMMA ReleaseStep ==
    ASSUME Env, NicInv, NEW t \in Thread, Release(t) PROVE NicInv'
<1> USE DEF NicInv
<1>1. /\ pc[t] = "answered" /\ pc'[t] = "idle"
      /\ \A u \in Thread \ {t} : pc'[u] = pc[u]
  BY DEF Release, Goto, TypeOK
<1>2. /\ rxbufstat'[idx[t]] = "EMPTY" /\ \A i \in Index \ {idx[t]} : rxbufstat'[i] = rxbufstat[i]
      /\ UNCHANGED <<lastidx, txbuf, rxbuf, wire, tempbuf, getindex_mutex, rx_mutex, nreq, idx, cnt, req, try, answer>>
  BY DEF Release, bufVars, TypeOK
<1>3. \A u \in Thread \ {t} : Holds(u) => idx[u] \in Index /\ idx[u] # idx[t]
  BY <1>1 DEF OneOwner, Holds, TypeOK
<1>4. TypeOK'
  BY DEF Release, Goto, bufVars, TypeOK, Places, ContentOk
<1>5. LockInv'
  BY <1>1, <1>2 DEF LockInv, TypeOK
<1>6. ScanInv'
  <2>1. \A i \in Index : rxbufstat[i] = "EMPTY" => rxbufstat'[i] = "EMPTY"
    BY <1>2
  <2>2. QED
    BY <1>1, <1>2, <2>1, ScanKept
<1>7. \A u \in Thread : StatusOk(u)' /\ ContentOk(u)'
  <2>1. StatusOk(t)' /\ ContentOk(t)'
    BY <1>1, <1>2 DEF StatusOk, ContentOk, Waits, TypeOK
  <2>2. ASSUME NEW u \in Thread \ {t} PROVE StatusOk(u)' /\ ContentOk(u)'
    BY <1>1, <1>2, <1>3, ThreadKept
  <2>3. QED
    BY <2>1, <2>2
<1>8. OneOwner'
  BY <1>1, <1>2 DEF OneOwner, Holds
<1>9. NoIndexLost'
  BY <1>1, <1>2 DEF NoIndexLost, Holds, TypeOK
<1>10. FrameInv'
  <2>1. InFlight' \subseteq InFlight /\ tempbuf' \notin wire'
    BY <1>2 DEF InFlight, FrameInv
  <2>2. ASSUME NEW f \in InFlight', NEW u \in Thread,
               Waits(u), idx[u] = f.idx, req[u] = f.req, rxbufstat[f.idx] = "TX"
        PROVE  Waits(u)' /\ idx'[u] = f.idx /\ req'[u] = f.req /\ rxbufstat'[f.idx] = "TX"
    <3>1. u # t
      BY <1>1, <2>2 DEF Waits
    <3>2. QED
      BY <1>1, <1>2, <1>3, <2>2, <3>1 DEF Waits, Holds
  <2>3. QED
    BY <2>1, <2>2, FramesKept
<1>11. AnswerIsMine'
  <2>1. \A u \in Thread : pc'[u] = "answered" /\ answer'[u] # None =>
           pc[u] = "answered" /\ answer'[u] = answer[u]
    BY <1>1, <1>2
  <2>2. QED
    BY <1>2, <2>1 DEF AnswerIsMine
<1>12. QED
  BY <1>4, <1>5, <1>6, <1>7, <1>8, <1>9, <1>10, <1>11

\* A datagram leaves: its frame is the only one of its index.
LEMMA SendOkStep ==
    ASSUME Env, NicInv, NEW t \in Thread, SendOk(t) PROVE NicInv'
<1> USE DEF NicInv
<1> DEFINE new == [idx |-> idx[t], req |-> txbuf[idx[t]], try |-> try[t]]
<1>1. /\ pc[t] = "send" /\ pc'[t] = "poll"
      /\ \A u \in Thread \ {t} : pc'[u] = pc[u]
  BY DEF SendOk, Goto, TypeOK
<1>2. /\ wire' = wire \cup {new}
      /\ UNCHANGED <<rxbufstat, lastidx, txbuf, rxbuf, tempbuf, getindex_mutex, rx_mutex, nreq, idx, cnt, req, try, answer>>
  BY DEF SendOk, bufVars
<1>3. \A u \in Thread \ {t} : Holds(u) => idx[u] \in Index /\ idx[u] # idx[t]
  BY <1>1 DEF OneOwner, Holds, TypeOK
<1>4. new.idx = idx[t] /\ new.req = req[t] /\ new \in Frame
  <2>1. txbuf[idx[t]] = req[t] /\ req[t] # None /\ try[t] # 0
    BY <1>1 DEF ContentOk
  <2>2. idx[t] \in Index /\ txbuf[idx[t]] \in Request /\ try[t] \in Try
    BY <2>1 DEF TypeOK
  <2>3. QED
    BY <2>1, <2>2
<1> HIDE DEF new
<1>5. TypeOK'
  <2>1. wire' \in SUBSET Frame
    BY <1>2, <1>4 DEF TypeOK
  <2>2. pc' \in [Thread -> Places]
    BY DEF SendOk, Goto, TypeOK, Places
  <2>3. QED
    BY <1>2, <2>1, <2>2 DEF TypeOK
<1>6. LockInv'
  BY <1>1, <1>2 DEF LockInv, TypeOK
<1>7. ScanInv'
  BY <1>1, <1>2, ScanKept
<1>8. \A u \in Thread : StatusOk(u)' /\ ContentOk(u)'
  BY <1>1, <1>2 DEF StatusOk, ContentOk, Waits, TypeOK
<1>9. OneOwner'
  BY <1>1, <1>2 DEF OneOwner, Holds
<1>10. NoIndexLost'
  BY <1>1, <1>2 DEF NoIndexLost, Holds, TypeOK
<1>11. FrameInv'
  <2>1. InFlight' = InFlight \cup {new}
    BY <1>2 DEF InFlight
  <2>2. \A f \in InFlight : f.idx # idx[t]
    <3>1. \A f \in InFlight : \E u \in Thread : Waits(u) /\ idx[u] = f.idx
      BY DEF FrameInv
    <3>2. \A u \in Thread : Waits(u) => u # t /\ Holds(u)
      BY <1>1 DEF Waits, Holds
    <3>3. QED
      BY <1>3, <3>1, <3>2
  <2>3. \A f, g \in InFlight' : f.idx = g.idx => f = g
    BY <1>4, <2>1, <2>2 DEF FrameInv
  <2>4. tempbuf' \notin wire'
    <3>1. CASE tempbuf = None
      BY <1>2, <1>4, <3>1 DEF TypeOK
    <3>2. CASE tempbuf # None
      BY <1>2, <1>4, <2>2, <3>2 DEF InFlight, FrameInv
    <3>3. QED
      BY <3>1, <3>2
  <2>5. ASSUME NEW f \in InFlight'
        PROVE  \E u \in Thread : /\ Waits(u)' /\ idx'[u] = f.idx /\ req'[u] = f.req
                                 /\ rxbufstat'[f.idx] = "TX"
    <3>1. CASE f = new
      <4>1. Waits(t)' /\ rxbufstat[idx[t]] = "TX"
        BY <1>1 DEF Waits, StatusOk
      <4>2. QED
        BY <1>2, <1>4, <3>1, <4>1
    <3>2. CASE f \in InFlight
      <4>1. PICK u \in Thread : Waits(u) /\ idx[u] = f.idx /\ req[u] = f.req
                                /\ rxbufstat[f.idx] = "TX"
        BY <3>2 DEF FrameInv
      <4>2. Waits(u)'
        BY <1>1, <4>1 DEF Waits
      <4>3. QED
        BY <1>2, <4>1, <4>2
    <3>3. QED
      BY <2>1, <3>1, <3>2
  <2>6. QED
    BY <2>3, <2>4, <2>5 DEF FrameInv
<1>12. AnswerIsMine'
  BY <1>1, <1>2 DEF AnswerIsMine
<1>13. QED
  BY <1>5, <1>6, <1>7, <1>8, <1>9, <1>10, <1>11, <1>12

\* A frame moves from the socket to tempbuf, under rx_mutex.
LEMMA RecvFrameStep ==
    ASSUME Env, NicInv, NEW t \in Thread, RecvFrame(t) PROVE NicInv'
<1> USE DEF NicInv
<1>1. /\ pc[t] = "lock" /\ pc'[t] = "sort"
      /\ \A u \in Thread \ {t} : pc'[u] = pc[u]
  BY DEF RecvFrame, Goto, TypeOK
<1>2. PICK f \in wire : wire' = wire \ {f} /\ tempbuf' = f
  BY DEF RecvFrame
<1>3. /\ rx_mutex = None /\ rx_mutex' = t
      /\ UNCHANGED <<rxbufstat, lastidx, txbuf, rxbuf, getindex_mutex, nreq, idx, cnt, req, try, answer>>
  BY DEF RecvFrame, bufVars
<1>4. f \in Frame /\ f # None /\ tempbuf = None
  BY <1>3 DEF TypeOK, LockInv
<1>5. TypeOK'
  <2>1. wire' \in SUBSET Frame /\ tempbuf' \in Frame \cup {None}
    BY <1>2, <1>4 DEF TypeOK
  <2>2. pc' \in [Thread -> Places]
    BY DEF RecvFrame, Goto, TypeOK, Places
  <2>3. QED
    BY <1>3, <2>1, <2>2 DEF TypeOK
<1>6. LockInv'
  <2>1. \A u \in Thread : pc[u] \notin {"sort", "store"}
    BY <1>3 DEF LockInv
  <2>2. \A u \in Thread : rx_mutex' = u <=> pc'[u] \in {"sort", "store"}
    BY <1>1, <1>3, <2>1
  <2>3. tempbuf' # None /\ rx_mutex' # None
    BY <1>2, <1>3, <1>4
  <2>4. \A u \in Thread : getindex_mutex' = u <=> pc'[u] \in {"scan", "take"}
    BY <1>1, <1>3 DEF LockInv
  <2>5. QED
    BY <2>2, <2>3, <2>4 DEF LockInv
<1>7. ScanInv'
  BY <1>1, <1>3, ScanKept
<1>8. \A u \in Thread : StatusOk(u)' /\ ContentOk(u)'
  BY <1>1, <1>3 DEF StatusOk, ContentOk, Waits, TypeOK
<1>9. OneOwner'
  BY <1>1, <1>3 DEF OneOwner, Holds
<1>10. NoIndexLost'
  BY <1>1, <1>3 DEF NoIndexLost, Holds, TypeOK
<1>11. FrameInv'
  <2>1. InFlight' \subseteq InFlight /\ tempbuf' \notin wire'
    BY <1>2 DEF InFlight
  <2>2. ASSUME NEW g \in InFlight', NEW u \in Thread,
               Waits(u), idx[u] = g.idx, req[u] = g.req, rxbufstat[g.idx] = "TX"
        PROVE  Waits(u)' /\ idx'[u] = g.idx /\ req'[u] = g.req /\ rxbufstat'[g.idx] = "TX"
    BY <1>1, <1>3, <2>2 DEF Waits
  <2>3. QED
    BY <2>1, <2>2, FramesKept
<1>12. AnswerIsMine'
  BY <1>1, <1>3 DEF AnswerIsMine
<1>13. QED
  BY <1>5, <1>6, <1>7, <1>8, <1>9, <1>10, <1>11, <1>12

\* The frame in tempbuf is the caller's own: it becomes the answer.
LEMMA SortOwnStep ==
    ASSUME Env, NicInv, NEW t \in Thread, SortOwn(t) PROVE NicInv'
<1> USE DEF NicInv
<1>1. /\ pc[t] = "sort" /\ pc'[t] = "answered"
      /\ \A u \in Thread \ {t} : pc'[u] = pc[u]
  BY DEF SortOwn, Goto, TypeOK
<1>2. /\ tempbuf.idx = idx[t] /\ tempbuf' = None
      /\ rx_mutex = t /\ rx_mutex' = None
      /\ UNCHANGED <<lastidx, txbuf, wire, getindex_mutex, nreq, idx, cnt, req, try>>
  BY <1>1 DEF SortOwn, LockInv
<1>3. \A u \in Thread \ {t} : Holds(u) => idx[u] \in Index /\ idx[u] # idx[t]
  BY <1>1 DEF OneOwner, Holds, TypeOK
<1>4. tempbuf \in InFlight /\ tempbuf \in Frame
  BY <1>2 DEF LockInv, TypeOK, InFlight
<1>5. tempbuf.req = req[t] /\ tempbuf.req \in Request
  <2>1. PICK u \in Thread : Waits(u) /\ idx[u] = tempbuf.idx /\ req[u] = tempbuf.req
    BY <1>4 DEF FrameInv
  <2>2. u = t
    BY <1>2, <1>3, <2>1 DEF Waits, Holds
  <2>3. QED
    BY <1>4, <2>1, <2>2
<1>6. /\ rxbufstat'[idx[t]] = "COMPLETE"
      /\ \A i \in Index \ {idx[t]} : rxbufstat'[i] = rxbufstat[i]
      /\ rxbuf'[idx[t]] = req[t]
      /\ \A i \in Index \ {idx[t]} : rxbuf'[i] = rxbuf[i]
      /\ answer'[t] = req[t]
      /\ \A u \in Thread \ {t} : answer'[u] = answer[u]
  BY <1>5 DEF SortOwn, TypeOK
<1>7. TypeOK'
  <2>1. /\ rxbuf' \in [Index -> Request \cup {None}]
        /\ answer' \in [Thread -> Request \cup {None}]
    BY <1>5 DEF SortOwn, TypeOK
  <2>2. rxbufstat' \in [Index -> Status] /\ pc' \in [Thread -> Places]
    BY DEF SortOwn, Goto, TypeOK, Places
  <2>3. QED
    BY <1>2, <2>1, <2>2 DEF TypeOK
<1>8. LockInv'
  BY <1>1, <1>2 DEF LockInv
<1>9. ScanInv'
  <2>1. rxbufstat[idx[t]] # "EMPTY"
    BY <1>1 DEF StatusOk, Waits
  <2>2. \A i \in Index : rxbufstat[i] = "EMPTY" => rxbufstat'[i] = "EMPTY"
    BY <1>6, <2>1
  <2>3. QED
    BY <1>1, <1>2, <2>2, ScanKept
<1>10. \A u \in Thread : StatusOk(u)' /\ ContentOk(u)'
  <2>1. StatusOk(t)' /\ ContentOk(t)'
    BY <1>1, <1>2, <1>6 DEF StatusOk, ContentOk, Waits
  <2>2. ASSUME NEW u \in Thread \ {t} PROVE StatusOk(u)' /\ ContentOk(u)'
    BY <1>1, <1>2, <1>3, <1>6, ThreadKept
  <2>3. QED
    BY <2>1, <2>2
<1>11. OneOwner'
  BY <1>1, <1>2 DEF OneOwner, Holds
<1>12. NoIndexLost'
  BY <1>1, <1>2, <1>6 DEF NoIndexLost, Holds, TypeOK
<1>13. FrameInv'
  <2>1. InFlight' \subseteq InFlight /\ tempbuf' \notin wire'
    BY <1>2 DEF InFlight, TypeOK
  <2>2. \A f \in InFlight' : f.idx # idx[t]
    BY <1>2, <1>4, <2>1 DEF FrameInv, InFlight
  <2>3. ASSUME NEW f \in InFlight', NEW u \in Thread,
               Waits(u), idx[u] = f.idx, req[u] = f.req, rxbufstat[f.idx] = "TX"
        PROVE  Waits(u)' /\ idx'[u] = f.idx /\ req'[u] = f.req /\ rxbufstat'[f.idx] = "TX"
    <3>1. u # t
      BY <2>2, <2>3
    <3>2. idx[u] \in Index /\ idx[u] # idx[t]
      BY <1>3, <2>3, <3>1 DEF Waits, Holds
    <3>3. QED
      BY <1>1, <1>2, <1>6, <2>3, <3>1, <3>2 DEF Waits
  <2>4. QED
    BY <2>1, <2>3, FramesKept
<1>14. AnswerIsMine'
  BY <1>1, <1>2, <1>3, <1>6 DEF AnswerIsMine, Holds
<1>15. QED
  BY <1>7, <1>8, <1>9, <1>10, <1>11, <1>12, <1>13, <1>14

\* Without the lock, the thread finds its buffer RCVD, or goes on to the socket.
LEMMA PollBufferStep ==
    ASSUME Env, NicInv, NEW t \in Thread, PollBuffer(t) PROVE NicInv'
<1> USE DEF NicInv
<1>1. /\ pc[t] = "poll"
      /\ UNCHANGED <<lastidx, txbuf, rxbuf, wire, tempbuf, getindex_mutex, rx_mutex, nreq, idx, cnt, req, try>>
  BY DEF PollBuffer
<1>2. \A u \in Thread \ {t} : Holds(u) => idx[u] \in Index /\ idx[u] # idx[t]
  BY <1>1 DEF OneOwner, Holds, TypeOK
<1>3. CASE rxbufstat[idx[t]] = "RCVD"
  <2>1. /\ pc'[t] = "answered" /\ \A u \in Thread \ {t} : pc'[u] = pc[u]
        /\ rxbufstat'[idx[t]] = "COMPLETE"
        /\ \A i \in Index \ {idx[t]} : rxbufstat'[i] = rxbufstat[i]
        /\ answer'[t] = rxbuf[idx[t]]
        /\ \A u \in Thread \ {t} : answer'[u] = answer[u]
    BY <1>3 DEF PollBuffer, Goto, TypeOK
  <2>2. rxbuf[idx[t]] = req[t] /\ req[t] # None
    BY <1>1, <1>3 DEF ContentOk, Waits
  <2>3. TypeOK'
    <3>1. rxbufstat' \in [Index -> Status] /\ pc' \in [Thread -> Places]
      BY <1>3 DEF PollBuffer, Goto, TypeOK, Places
    <3>2. rxbuf[idx[t]] \in Request \cup {None}
      BY DEF TypeOK
    <3>3. answer' = [answer EXCEPT ![t] = rxbuf[idx[t]]]
      BY <1>3 DEF PollBuffer
    <3>4. answer' \in [Thread -> Request \cup {None}]
      BY <3>2, <3>3 DEF TypeOK
    <3>5. QED
      BY <1>1, <3>1, <3>4 DEF TypeOK
  <2>4. LockInv'
    BY <1>1, <2>1 DEF LockInv
  <2>5. ScanInv'
    <3>1. \A i \in Index : rxbufstat[i] = "EMPTY" => rxbufstat'[i] = "EMPTY"
      BY <1>3, <2>1
    <3>2. QED
      BY <1>1, <2>1, <3>1, ScanKept
  <2>6. \A u \in Thread : StatusOk(u)' /\ ContentOk(u)'
    <3>1. StatusOk(t)' /\ ContentOk(t)'
      BY <1>1, <2>1, <2>2 DEF StatusOk, ContentOk, Waits
    <3>2. ASSUME NEW u \in Thread \ {t} PROVE StatusOk(u)' /\ ContentOk(u)'
      BY <1>1, <1>2, <2>1, ThreadKept
    <3>3. QED
      BY <3>1, <3>2
  <2>7. OneOwner'
    BY <1>1, <2>1 DEF OneOwner, Holds
  <2>8. NoIndexLost'
    BY <1>1, <2>1 DEF NoIndexLost, Holds, TypeOK
  <2>9. FrameInv'
    <3>1. InFlight' \subseteq InFlight /\ tempbuf' \notin wire'
      BY <1>1 DEF InFlight, FrameInv
    <3>2. ASSUME NEW f \in InFlight', NEW u \in Thread,
                 Waits(u), idx[u] = f.idx, req[u] = f.req, rxbufstat[f.idx] = "TX"
          PROVE  Waits(u)' /\ idx'[u] = f.idx /\ req'[u] = f.req /\ rxbufstat'[f.idx] = "TX"
      <4>1. u # t
        BY <1>3, <3>2
      <4>2. idx[u] \in Index /\ idx[u] # idx[t]
        BY <1>2, <3>2, <4>1 DEF Waits, Holds
      <4>3. QED
        BY <1>1, <2>1, <3>2, <4>1, <4>2 DEF Waits
    <3>3. QED
      BY <3>1, <3>2, FramesKept
  <2>10. AnswerIsMine'
    BY <1>1, <2>1, <2>2 DEF AnswerIsMine
  <2>11. QED
    BY <2>3, <2>4, <2>5, <2>6, <2>7, <2>8, <2>9, <2>10
<1>4. CASE rxbufstat[idx[t]] # "RCVD"
  <2>1. /\ pc'[t] = "lock" /\ \A u \in Thread \ {t} : pc'[u] = pc[u]
        /\ rxbufstat' = rxbufstat /\ answer' = answer
    BY <1>4 DEF PollBuffer, Goto, TypeOK
  <2>2. TypeOK'
    <3>1. pc' \in [Thread -> Places]
      BY <1>4 DEF PollBuffer, Goto, TypeOK, Places
    <3>2. QED
      BY <1>1, <2>1, <3>1 DEF TypeOK
  <2>3. LockInv'
    BY <1>1, <2>1 DEF LockInv
  <2>4. ScanInv'
    BY <1>1, <2>1, ScanKept
  <2>5. \A u \in Thread : StatusOk(u)' /\ ContentOk(u)'
    BY <1>1, <2>1 DEF StatusOk, ContentOk, Waits
  <2>6. OneOwner'
    BY <1>1, <2>1 DEF OneOwner, Holds
  <2>7. NoIndexLost'
    BY <1>1, <2>1 DEF NoIndexLost, Holds
  <2>8. FrameInv'
    <3>1. InFlight' \subseteq InFlight /\ tempbuf' \notin wire'
      BY <1>1 DEF InFlight, FrameInv
    <3>2. ASSUME NEW f \in InFlight', NEW u \in Thread,
                 Waits(u), idx[u] = f.idx, req[u] = f.req, rxbufstat[f.idx] = "TX"
          PROVE  Waits(u)' /\ idx'[u] = f.idx /\ req'[u] = f.req /\ rxbufstat'[f.idx] = "TX"
      BY <1>1, <2>1, <3>2 DEF Waits
    <3>3. QED
      BY <3>1, <3>2, FramesKept
  <2>9. AnswerIsMine'
    BY <1>1, <2>1 DEF AnswerIsMine
  <2>10. QED
    BY <2>2, <2>3, <2>4, <2>5, <2>6, <2>7, <2>8, <2>9
<1>5. QED
  BY <1>3, <1>4

\* A frame in tempbuf always has a waiter, so sorting leads to the store.
LEMMA SortOtherStep ==
    ASSUME Env, NicInv, NEW t \in Thread, SortOther(t) PROVE NicInv'
<1> USE DEF NicInv
<1>1. pc[t] = "sort" /\ tempbuf # None
  BY DEF SortOther, LockInv
<1>2. rxbufstat[tempbuf.idx] = "TX"
  BY <1>1 DEF FrameInv, InFlight
<1>3. /\ pc'[t] = "store" /\ \A u \in Thread \ {t} : pc'[u] = pc[u]
      /\ pc' \in [Thread -> Places]
      /\ UNCHANGED <<rxbufstat, lastidx, txbuf, rxbuf, wire, tempbuf, getindex_mutex, rx_mutex, nreq, idx, cnt, req, try, answer>>
  BY <1>2 DEF SortOther, Goto, bufVars, TypeOK, Places
<1>4. TypeOK'
  BY <1>3 DEF TypeOK
<1>5. LockInv'
  BY <1>1, <1>3 DEF LockInv
<1>6. ScanInv'
  BY <1>3, ScanKept
<1>7. \A u \in Thread : StatusOk(u)' /\ ContentOk(u)'
  BY <1>1, <1>3 DEF StatusOk, ContentOk, Waits
<1>8. OneOwner'
  BY <1>1, <1>3 DEF OneOwner, Holds
<1>9. NoIndexLost'
  BY <1>1, <1>3 DEF NoIndexLost, Holds
<1>10. FrameInv'
  <2>1. InFlight' \subseteq InFlight /\ tempbuf' \notin wire'
    BY <1>3 DEF InFlight, FrameInv
  <2>2. ASSUME NEW f \in InFlight', NEW u \in Thread,
               Waits(u), idx[u] = f.idx, req[u] = f.req, rxbufstat[f.idx] = "TX"
        PROVE  Waits(u)' /\ idx'[u] = f.idx /\ req'[u] = f.req /\ rxbufstat'[f.idx] = "TX"
    BY <1>3, <2>2 DEF Waits
  <2>3. QED
    BY <2>1, <2>2, FramesKept
<1>11. AnswerIsMine'
  BY <1>1, <1>3 DEF AnswerIsMine
<1>12. QED
  BY <1>4, <1>5, <1>6, <1>7, <1>8, <1>9, <1>10, <1>11

\* The frame of another thread goes to that thread's buffer.
LEMMA StoreOtherStep ==
    ASSUME Env, NicInv, NEW t \in Thread, StoreOther(t) PROVE NicInv'
<1> USE DEF NicInv
<1> DEFINE j == tempbuf.idx
<1>1. /\ pc[t] = "store" /\ tempbuf # None /\ rx_mutex = t
      /\ tempbuf \in Frame /\ tempbuf \in InFlight
  BY DEF StoreOther, LockInv, TypeOK, InFlight
<1>2. /\ pc'[t] = "wait" /\ \A u \in Thread \ {t} : pc'[u] = pc[u]
      /\ pc' \in [Thread -> Places]
  BY DEF StoreOther, Goto, TypeOK, Places
<1>3. /\ tempbuf' = None /\ rx_mutex' = None
      /\ UNCHANGED <<lastidx, txbuf, wire, getindex_mutex, nreq, idx, cnt, req, try, answer>>
  BY DEF StoreOther
<1>4. j \in Index /\ tempbuf.req \in Request
  BY <1>1
<1> HIDE DEF j
<1>5. /\ rxbufstat'[j] = "RCVD" /\ \A i \in Index \ {j} : rxbufstat'[i] = rxbufstat[i]
      /\ rxbuf'[j] = tempbuf.req /\ \A i \in Index \ {j} : rxbuf'[i] = rxbuf[i]
      /\ rxbufstat' \in [Index -> Status]
      /\ rxbuf' \in [Index -> Request \cup {None}]
  BY <1>4 DEF StoreOther, TypeOK, j
<1>6. PICK w \in Thread : /\ Waits(w) /\ idx[w] = j /\ req[w] = tempbuf.req
                          /\ rxbufstat[j] = "TX"
  BY <1>1 DEF FrameInv, j
<1>7. \A u \in Thread \ {w} : Holds(u) => idx[u] \in Index /\ idx[u] # j
  BY <1>6 DEF OneOwner, Holds, Waits, TypeOK
<1>8. Waits(w)' /\ \A u \in Thread : Waits(u) <=> Waits(u)'
  BY <1>1, <1>2, <1>6 DEF Waits
<1>9. TypeOK'
  BY <1>2, <1>3, <1>5 DEF TypeOK
<1>10. LockInv'
  BY <1>1, <1>2, <1>3 DEF LockInv
<1>11. ScanInv'
  <2>1. \A i \in Index : rxbufstat[i] = "EMPTY" => rxbufstat'[i] = "EMPTY"
    BY <1>5, <1>6
  <2>2. QED
    BY <1>2, <1>3, <2>1, ScanKept
<1>12. \A u \in Thread : StatusOk(u)' /\ ContentOk(u)'
  <2>1. StatusOk(w)' /\ ContentOk(w)'
    <3>1. txbuf[j] = req[w] /\ req[w] # None
      BY <1>6 DEF ContentOk, Waits
    <3>2. pc'[w] \notin {"idle", "setup", "mark", "send", "answered"}
      BY <1>8 DEF Waits
    <3>3. QED
      BY <1>3, <1>5, <1>6, <1>8, <3>1, <3>2 DEF StatusOk, ContentOk
  <2>2. ASSUME NEW u \in Thread \ {w}, u # t PROVE StatusOk(u)' /\ ContentOk(u)'
    BY <1>2, <1>3, <1>5, <1>7, <2>2, ThreadKept
  <2>3. ASSUME t # w PROVE StatusOk(t)' /\ ContentOk(t)'
    <3>1. idx[t] \in Index /\ idx[t] # j
      BY <1>1, <1>7, <2>3 DEF Holds
    <3>2. /\ rxbufstat'[idx[t]] = rxbufstat[idx[t]]
          /\ rxbuf'[idx[t]] = rxbuf[idx[t]]
      BY <1>5, <3>1
    <3>3. QED
      BY <1>1, <1>2, <1>3, <3>2 DEF StatusOk, ContentOk, Waits
  <2>4. QED
    BY <2>1, <2>2, <2>3
<1>13. OneOwner'
  BY <1>1, <1>2, <1>3 DEF OneOwner, Holds
<1>14. NoIndexLost'
  <2>1. \A u \in Thread : Holds(u) => Holds(u)'
    BY <1>1, <1>2 DEF Holds
  <2>2. Holds(w)
    BY <1>6 DEF Holds, Waits
  <2>3. ASSUME NEW i \in Index, rxbufstat'[i] # "EMPTY"
        PROVE  \E u \in Thread : Holds(u)' /\ idx'[u] = i
    <3>1. CASE i = j
      BY <1>3, <1>6, <2>1, <2>2, <3>1
    <3>2. CASE i # j
      BY <1>3, <1>5, <2>1, <2>3, <3>2 DEF NoIndexLost
    <3>3. QED
      BY <3>1, <3>2
  <2>4. QED
    BY <2>3 DEF NoIndexLost
<1>15. FrameInv'
  <2>1. InFlight' \subseteq InFlight /\ tempbuf' \notin wire'
    BY <1>3 DEF InFlight, TypeOK
  <2>2. \A f \in InFlight' : f \in Frame /\ f.idx # j
    <3>1. \A f \in InFlight' : f \in InFlight /\ f # tempbuf /\ f \in Frame
      BY <1>3 DEF InFlight, FrameInv, TypeOK
    <3>2. QED
      BY <1>1, <3>1 DEF FrameInv, j
  <2>3. ASSUME NEW f \in InFlight', NEW u \in Thread,
               Waits(u), idx[u] = f.idx, req[u] = f.req, rxbufstat[f.idx] = "TX"
        PROVE  Waits(u)' /\ idx'[u] = f.idx /\ req'[u] = f.req /\ rxbufstat'[f.idx] = "TX"
    <3>1. f.idx \in Index \ {j}
      BY <2>2
    <3>2. QED
      BY <1>3, <1>5, <1>8, <2>3, <3>1
  <2>4. QED
    BY <2>1, <2>3, FramesKept
<1>16. AnswerIsMine'
  <2>1. ASSUME NEW u \in Thread, pc'[u] = "answered", answer'[u] # None
        PROVE  answer'[u] = req'[u] /\ rxbuf'[idx'[u]] = req'[u]
    <3>1. pc[u] = "answered" /\ u # w
      BY <1>2, <1>6, <2>1 DEF Waits
    <3>2. idx[u] \in Index /\ idx[u] # j
      BY <1>7, <3>1 DEF Holds
    <3>3. answer[u] = req[u] /\ rxbuf[idx[u]] = req[u]
      BY <1>3, <2>1, <3>1 DEF AnswerIsMine
    <3>4. QED
      BY <1>3, <1>5, <3>2, <3>3
  <2>2. QED
    BY <2>1 DEF AnswerIsMine
<1>17. QED
  BY <1>9, <1>10, <1>11, <1>12, <1>13, <1>14, <1>15, <1>16

--------------------------------------------------------------------------------
\* Fewer other threads than buffers: one buffer is EMPTY.
LEMMA FreeBuffer ==
    ASSUME Env, NicInv, NEW t \in Thread, pc[t] = "idle"
    PROVE  \E i \in Index : rxbufstat[i] = "EMPTY"
<1> SUFFICES ASSUME \A i \in Index : rxbufstat[i] # "EMPTY" PROVE FALSE
  OBVIOUS
<1> DEFINE others == Thread \ {t}
           owner == [i \in Index |-> CHOOSE u \in others : Holds(u) /\ idx[u] = i]
<1>1. ASSUME NEW i \in Index
      PROVE  owner[i] \in others /\ idx[owner[i]] = i
  <2>1. \E u \in others : Holds(u) /\ idx[u] = i
    BY DEF NicInv, NoIndexLost, Holds
  <2>2. QED
    BY <2>1
<1>2. IsFiniteSet(others) /\ Cardinality(others) = Cardinality(Thread) - 1
  BY FS_RemoveElement
<1>3. IsFiniteSet(Index) /\ Cardinality(Index) = MAXBUF
  <2>1. IsFiniteSet(0 .. MAXBUF - 1)
        /\ Cardinality(0 .. MAXBUF - 1) =
             IF 0 > MAXBUF - 1 THEN 0 ELSE (MAXBUF - 1) - 0 + 1
    BY FS_Interval
  <2>2. QED
    BY <2>1
<1>4. Cardinality(Thread) \in Nat
  BY FS_CardinalityType
<1>5. Cardinality(others) < Cardinality(Index)
  BY <1>2, <1>3, <1>4 DEF Env
<1>6. owner \in [Index -> others]
  BY <1>1
<1> HIDE DEF others, owner
<1>7. \E x, y \in Index : x # y /\ owner[x] = owner[y]
  BY <1>2, <1>3, <1>5, <1>6, FS_PigeonHole
<1>8. QED
  BY <1>1, <1>7

\* The search starts with an EMPTY buffer somewhere ahead.
LEMMA GetIndexStep ==
    ASSUME Env, NicInv, NEW t \in Thread, GetIndex(t) PROVE NicInv'
<1> USE DEF NicInv
<1>1. /\ pc[t] = "idle" /\ pc'[t] = "scan" /\ \A u \in Thread \ {t} : pc'[u] = pc[u]
      /\ pc' \in [Thread -> Places]
  BY DEF GetIndex, Goto, TypeOK, Places
<1>2. /\ getindex_mutex = None /\ getindex_mutex' = t
      /\ UNCHANGED <<rxbufstat, lastidx, txbuf, rxbuf, wire, tempbuf, rx_mutex, try, answer>>
  BY DEF GetIndex, bufVars
<1>3. NextIndex(lastidx) \in Index /\ nreq' \in Request /\ nreq' \in 0 .. MaxReq
  BY DEF GetIndex, NextIndex, TypeOK
<1>4. /\ idx'[t] = NextIndex(lastidx) /\ \A u \in Thread \ {t} : idx'[u] = idx[u]
      /\ cnt'[t] = 0 /\ \A u \in Thread \ {t} : cnt'[u] = cnt[u]
      /\ req'[t] = nreq' /\ \A u \in Thread \ {t} : req'[u] = req[u]
  BY DEF GetIndex, TypeOK
<1>5. TypeOK'
  <2>1. idx' \in [Thread -> Index] /\ cnt' \in [Thread -> 0 .. MAXBUF]
    BY <1>3 DEF GetIndex, TypeOK
  <2>2. req' \in [Thread -> Request \cup {None}]
    BY <1>3 DEF GetIndex, TypeOK
  <2>3. QED
    BY <1>1, <1>2, <1>3, <2>1, <2>2 DEF TypeOK
<1>6. LockInv'
  BY <1>1, <1>2 DEF LockInv
<1>7. ScanInv'
  <2>1. PICK i \in Index : rxbufstat[i] = "EMPTY"
    BY <1>1, FreeBuffer
  <2> DEFINE n == NextIndex(lastidx)
             k == IF i >= n THEN i - n ELSE i - n + MAXBUF
  <2>2. k \in 0 .. MAXBUF - 1 /\ Ahead(n, k) = i
    BY <1>3 DEF Ahead
  <2>3. k + cnt'[t] < MAXBUF /\ rxbufstat'[Ahead(idx'[t], k)] = "EMPTY"
    BY <1>2, <1>4, <2>1, <2>2
  <2>4. \A u \in Thread \ {t} : pc'[u] \notin {"scan", "take"}
    BY <1>1, <1>2 DEF LockInv
  <2>5. pc'[t] # "take"
    BY <1>1
  <2> HIDE DEF k
  <2>6. ASSUME NEW u \in Thread, pc'[u] = "scan"
        PROVE  \E m \in 0 .. MAXBUF - 1 :
                   m + cnt'[u] < MAXBUF /\ rxbufstat'[Ahead(idx'[u], m)] = "EMPTY"
    BY <2>2, <2>3, <2>4, <2>6
  <2>7. QED
    BY <2>4, <2>5, <2>6 DEF ScanInv, Ahead
<1>8. \A u \in Thread : StatusOk(u)' /\ ContentOk(u)'
  <2>1. StatusOk(t)' /\ ContentOk(t)'
    <3>1. req'[t] # None
      BY <1>3, <1>4
    <3>2. QED
      BY <1>1, <3>1 DEF StatusOk, ContentOk, Waits
  <2>2. ASSUME NEW u \in Thread \ {t} PROVE StatusOk(u)' /\ ContentOk(u)'
    BY <1>1, <1>2, <1>4, ThreadKept
  <2>3. QED
    BY <2>1, <2>2
<1>9. OneOwner'
  BY <1>1, <1>4 DEF OneOwner, Holds
<1>10. NoIndexLost'
  BY <1>1, <1>2, <1>4 DEF NoIndexLost, Holds
<1>11. FrameInv'
  <2>1. InFlight' \subseteq InFlight /\ tempbuf' \notin wire'
    BY <1>2 DEF InFlight, FrameInv
  <2>2. ASSUME NEW f \in InFlight', NEW u \in Thread,
               Waits(u), idx[u] = f.idx, req[u] = f.req, rxbufstat[f.idx] = "TX"
        PROVE  Waits(u)' /\ idx'[u] = f.idx /\ req'[u] = f.req /\ rxbufstat'[f.idx] = "TX"
    <3>1. u # t
      BY <1>1, <2>2 DEF Waits
    <3>2. QED
      BY <1>1, <1>2, <1>4, <2>2, <3>1 DEF Waits
  <2>3. QED
    BY <2>1, <2>2, FramesKept
<1>12. AnswerIsMine'
  BY <1>1, <1>2, <1>4 DEF AnswerIsMine
<1>13. QED
  BY <1>5, <1>6, <1>7, <1>8, <1>9, <1>10, <1>11, <1>12

\* One turn of the search: the EMPTY buffer comes one step closer, or is found.
LEMMA ScanIndexStep ==
    ASSUME Env, NicInv, NEW t \in Thread, ScanIndex(t) PROVE NicInv'
<1> USE DEF NicInv
<1>1. /\ pc[t] = "scan"
      /\ UNCHANGED <<rxbufstat, lastidx, txbuf, rxbuf, wire, tempbuf, getindex_mutex, rx_mutex, nreq, req, try, answer>>
  BY DEF ScanIndex, bufVars
<1>2. PICK k \in 0 .. MAXBUF - 1 :
           k + cnt[t] < MAXBUF /\ rxbufstat[Ahead(idx[t], k)] = "EMPTY"
  BY <1>1 DEF ScanInv
<1>3. idx[t] \in Index /\ cnt[t] \in 0 .. MAXBUF /\ cnt[t] < MAXBUF
  BY <1>2 DEF TypeOK
<1>4. \A u \in Thread \ {t} : pc[u] \notin {"scan", "take"}
  BY <1>1 DEF LockInv
<1>5. /\ \A u \in Thread \ {t} : pc'[u] = pc[u] /\ idx'[u] = idx[u] /\ cnt'[u] = cnt[u]
      /\ pc'[t] \in {"scan", "take"}
      /\ pc' \in [Thread -> Places]
  BY <1>1 DEF ScanIndex, Goto, TypeOK, Places
<1>6. idx' \in [Thread -> Index] /\ cnt' \in [Thread -> 0 .. MAXBUF]
  <2>1. NextIndex(idx[t]) \in Index /\ cnt[t] + 1 \in 0 .. MAXBUF
    BY <1>3 DEF NextIndex
  <2>2. \/ /\ idx' = [idx EXCEPT ![t] = NextIndex(idx[t])]
           /\ cnt' = [cnt EXCEPT ![t] = cnt[t] + 1]
        \/ idx' = idx /\ cnt' = cnt
    BY DEF ScanIndex
  <2>3. CASE idx' = idx /\ cnt' = cnt
    BY <2>3 DEF TypeOK
  <2>4. CASE /\ idx' = [idx EXCEPT ![t] = NextIndex(idx[t])]
             /\ cnt' = [cnt EXCEPT ![t] = cnt[t] + 1]
    BY <2>1, <2>4 DEF TypeOK
  <2>5. QED
    BY <2>2, <2>3, <2>4
<1>7. TypeOK'
  BY <1>1, <1>5, <1>6 DEF TypeOK
<1>8. LockInv'
  BY <1>1, <1>5 DEF LockInv
<1>9. ScanInv'
  <2>1. CASE rxbufstat[idx[t]] # "EMPTY"
    <3>1. pc'[t] = "scan" /\ idx'[t] = NextIndex(idx[t]) /\ cnt'[t] = cnt[t] + 1
      BY <1>1, <1>3, <2>1 DEF ScanIndex, TypeOK
    <3>2. k # 0
      BY <1>2, <1>3, <2>1 DEF Ahead
    <3>3. Ahead(NextIndex(idx[t]), k - 1) = Ahead(idx[t], k)
      BY <1>3, <3>2 DEF Ahead, NextIndex
    <3>4. k - 1 \in 0 .. MAXBUF - 1 /\ (k - 1) + cnt'[t] < MAXBUF
      BY <1>2, <1>3, <3>1, <3>2
    <3>5. rxbufstat'[Ahead(idx'[t], k - 1)] = "EMPTY"
      BY <1>1, <1>2, <3>1, <3>3
    <3>6. ASSUME NEW u \in Thread, pc'[u] = "scan"
          PROVE  \E m \in 0 .. MAXBUF - 1 :
                     m + cnt'[u] < MAXBUF /\ rxbufstat'[Ahead(idx'[u], m)] = "EMPTY"
      BY <1>4, <1>5, <3>4, <3>5, <3>6
    <3>7. \A u \in Thread : pc'[u] # "take"
      BY <1>4, <1>5, <3>1
    <3>8. QED
      BY <3>6, <3>7 DEF ScanInv, Ahead
  <2>2. CASE rxbufstat[idx[t]] = "EMPTY"
    <3>1. pc'[t] = "take" /\ idx' = idx
      BY <1>1, <2>2 DEF ScanIndex, Goto, TypeOK
    <3>2. \A u \in Thread : pc'[u] # "scan"
      BY <1>4, <1>5, <3>1
    <3>3. \A u \in Thread : pc'[u] = "take" => u = t
      BY <1>4, <1>5
    <3>4. QED
      BY <1>1, <2>2, <3>1, <3>2, <3>3 DEF ScanInv
  <2>3. QED
    BY <2>1, <2>2
<1>10. \A u \in Thread : StatusOk(u)' /\ ContentOk(u)'
  <2>1. StatusOk(t)' /\ ContentOk(t)'
    <3>1. req[t] # None
      BY <1>1 DEF ContentOk
    <3>2. QED
      BY <1>1, <1>5, <3>1 DEF StatusOk, ContentOk, Waits
  <2>2. ASSUME NEW u \in Thread \ {t} PROVE StatusOk(u)' /\ ContentOk(u)'
    BY <1>1, <1>5, ThreadKept
  <2>3. QED
    BY <2>1, <2>2
<1>11. OneOwner'
  BY <1>1, <1>5 DEF OneOwner, Holds
<1>12. NoIndexLost'
  BY <1>1, <1>5 DEF NoIndexLost, Holds
<1>13. FrameInv'
  <2>1. InFlight' \subseteq InFlight /\ tempbuf' \notin wire'
    BY <1>1 DEF InFlight, FrameInv
  <2>2. ASSUME NEW f \in InFlight', NEW u \in Thread,
               Waits(u), idx[u] = f.idx, req[u] = f.req, rxbufstat[f.idx] = "TX"
        PROVE  Waits(u)' /\ idx'[u] = f.idx /\ req'[u] = f.req /\ rxbufstat'[f.idx] = "TX"
    <3>1. u # t
      BY <1>1, <2>2 DEF Waits
    <3>2. QED
      BY <1>1, <1>5, <2>2, <3>1 DEF Waits
  <2>3. QED
    BY <2>1, <2>2, FramesKept
<1>14. AnswerIsMine'
  BY <1>1, <1>5 DEF AnswerIsMine
<1>15. QED
  BY <1>7, <1>8, <1>9, <1>10, <1>11, <1>12, <1>13, <1>14

\* The buffer taken was EMPTY, so nobody owned it.
LEMMA TakeIndexStep ==
    ASSUME Env, NicInv, NEW t \in Thread, TakeIndex(t) PROVE NicInv'
<1> USE DEF NicInv
<1>1. /\ pc[t] = "take" /\ pc'[t] = "setup" /\ \A u \in Thread \ {t} : pc'[u] = pc[u]
      /\ pc' \in [Thread -> Places]
  BY DEF TakeIndex, Goto, TypeOK, Places
<1>2. /\ getindex_mutex = t /\ getindex_mutex' = None
      /\ UNCHANGED <<txbuf, rxbuf, wire, tempbuf, rx_mutex, nreq, idx, cnt, req, try, answer>>
  BY <1>1 DEF TakeIndex, LockInv
<1>3. rxbufstat[idx[t]] = "EMPTY" /\ idx[t] \in Index
  BY <1>1 DEF ScanInv, TypeOK
<1>4. /\ rxbufstat'[idx[t]] = "ALLOC"
      /\ \A i \in Index \ {idx[t]} : rxbufstat'[i] = rxbufstat[i]
      /\ rxbufstat' \in [Index -> Status] /\ lastidx' \in Index
  BY <1>3 DEF TakeIndex, TypeOK
<1>5. \A u \in Thread : Holds(u) => idx[u] \in Index /\ idx[u] # idx[t] /\ u # t
  <2>1. \A u \in Thread : Holds(u) => rxbufstat[idx[u]] # "EMPTY"
    BY DEF StatusOk, Holds, Waits, TypeOK, Places
  <2>2. QED
    BY <1>1, <1>3, <2>1 DEF TypeOK, Holds
<1>6. TypeOK'
  BY <1>1, <1>2, <1>4 DEF TypeOK
<1>7. LockInv'
  BY <1>1, <1>2 DEF LockInv
<1>8. ScanInv'
  <2>1. \A u \in Thread : pc'[u] \notin {"scan", "take"}
    BY <1>1, <1>2 DEF LockInv
  <2>2. QED
    BY <2>1 DEF ScanInv
<1>9. \A u \in Thread : StatusOk(u)' /\ ContentOk(u)'
  <2>1. StatusOk(t)' /\ ContentOk(t)'
    <3>1. req[t] # None
      BY <1>1 DEF ContentOk
    <3>2. QED
      BY <1>1, <1>2, <1>4, <3>1 DEF StatusOk, ContentOk, Waits
  <2>2. ASSUME NEW u \in Thread \ {t} PROVE StatusOk(u)' /\ ContentOk(u)'
    BY <1>1, <1>2, <1>4, <1>5, ThreadKept
  <2>3. QED
    BY <2>1, <2>2
<1>10. OneOwner'
  BY <1>1, <1>2, <1>5 DEF OneOwner, Holds
<1>11. NoIndexLost'
  BY <1>1, <1>2, <1>4 DEF NoIndexLost, Holds
<1>12. FrameInv'
  <2>1. InFlight' \subseteq InFlight /\ tempbuf' \notin wire'
    BY <1>2 DEF InFlight, FrameInv
  <2>2. ASSUME NEW f \in InFlight', NEW u \in Thread,
               Waits(u), idx[u] = f.idx, req[u] = f.req, rxbufstat[f.idx] = "TX"
        PROVE  Waits(u)' /\ idx'[u] = f.idx /\ req'[u] = f.req /\ rxbufstat'[f.idx] = "TX"
    <3>1. idx[u] \in Index /\ idx[u] # idx[t] /\ u # t
      BY <1>5, <2>2 DEF Waits, Holds
    <3>2. QED
      BY <1>1, <1>2, <1>4, <2>2, <3>1 DEF Waits
  <2>3. QED
    BY <2>1, <2>2, FramesKept
<1>13. AnswerIsMine'
  BY <1>1, <1>2 DEF AnswerIsMine
<1>14. QED
  BY <1>6, <1>7, <1>8, <1>9, <1>10, <1>11, <1>12, <1>13

\* A frame is lost, or nothing happens: at most fewer frames.
LEMMA FewerFramesStep ==
    ASSUME NicInv, wire' \subseteq wire,
           UNCHANGED <<bufVars, tempbuf, getindex_mutex, rx_mutex, nreq, threadVars>>
    PROVE  NicInv'
<1> USE DEF NicInv
<1>1. /\ wire' \subseteq wire
      /\ UNCHANGED <<rxbufstat, lastidx, txbuf, rxbuf, tempbuf, getindex_mutex, rx_mutex, nreq, pc, idx, cnt, req, try, answer>>
  BY DEF bufVars, threadVars
<1>2. TypeOK'
  BY <1>1 DEF TypeOK
<1>3. LockInv' /\ OneOwner' /\ NoIndexLost' /\ AnswerIsMine'
  BY <1>1 DEF LockInv, OneOwner, NoIndexLost, AnswerIsMine, Holds
<1>4. ScanInv'
  BY <1>1, ScanKept
<1>5. \A u \in Thread : StatusOk(u)' /\ ContentOk(u)'
  BY <1>1 DEF StatusOk, ContentOk, Waits
<1>6. FrameInv'
  BY <1>1, FramesKept DEF InFlight, FrameInv, Waits
<1>7. QED
  BY <1>2, <1>3, <1>4, <1>5, <1>6

--------------------------------------------------------------------------------
\* Initially all is EMPTY and idle.
LEMMA NicInvInit == Init => NicInv
<1> SUFFICES ASSUME Init PROVE NicInv
  OBVIOUS
<1> USE DEF Init
<1>1. TypeOK
  BY DEF TypeOK, Places
<1>2. LockInv /\ ScanInv /\ OneOwner /\ NoIndexLost /\ AnswerIsMine
  BY DEF LockInv, ScanInv, OneOwner, NoIndexLost, AnswerIsMine, Holds
<1>3. \A u \in Thread : StatusOk(u) /\ ContentOk(u)
  BY DEF StatusOk, ContentOk, Waits
<1>4. FrameInv
  BY DEF FrameInv, InFlight
<1>5. QED
  BY <1>1, <1>2, <1>3, <1>4 DEF NicInv

LEMMA NicInvStep == ASSUME Env, NicInv, [Next]_vars PROVE NicInv'
<1>1. ASSUME NEW t \in Thread, Step(t) PROVE NicInv'
  <2>1. ~SendError(t)
    BY DEF SendError, Env
  <2>2. QED
    BY <1>1, <2>1, GetIndexStep, ScanIndexStep, TakeIndexStep, SetupDatagramStep,
       MarkTxStep, SendOkStep, PollBufferStep, RecvNothingStep, RecvFrameStep,
       SortOwnStep, SortOtherStep, StoreOtherStep, PollAgainStep, RetryStep,
       GiveUpStep, ReleaseStep DEF Step
<1>2. ASSUME LoseFrame \/ UNCHANGED vars PROVE NicInv'
  <2>1. /\ wire' \subseteq wire
        /\ UNCHANGED <<bufVars, tempbuf, getindex_mutex, rx_mutex, nreq, threadVars>>
    BY <1>2 DEF LoseFrame, vars
  <2>2. QED
    BY <2>1, FewerFramesStep
<1>3. QED
  BY <1>1, <1>2 DEF Next, Finished

\* The inductive invariant of the frame layer, for any number of threads up to
\* the number of buffers.
THEOREM NicInvariant == ASSUME Env PROVE Spec => []NicInv
<1>1. Env => (NicInv /\ [Next]_vars => NicInv')
  BY NicInvStep
<1>2. QED
  BY <1>1, NicInvInit, PTL DEF Spec

\* No two threads ever own the same index.
THEOREM IndexIsOwnedOnce == ASSUME Env PROVE Spec => []OneOwner
  BY NicInvariant, PTL DEF NicInv

\* ecx_srconfirm only ever reports the answer to the thread's own datagram.
THEOREM AnswerIsOwn == ASSUME Env PROVE Spec => []AnswerIsMine
  BY NicInvariant, PTL DEF NicInv

\* No index is lost: a buffer in use has an owner that will release it.
THEOREM IndicesAreKept == ASSUME Env PROVE Spec => []NoIndexLost
  BY NicInvariant, PTL DEF NicInv

--------------------------------------------------------------------------------
(* What late replies, failing sends and too many threads can cost: no Env here. *)

Shape == /\ rxbufstat \in [Index -> Status]
         /\ lastidx \in Index
         /\ pc \in [Thread -> Places]
         /\ idx \in [Thread -> Index]

Outside == {"idle", "scan", "take"}

\* No index is lost by a step that leaves every owner its index and marks only
\* buffers that have an owner.
LEMMA OwnersKept ==
    ASSUME \A u \in Thread : pc[u] \notin Outside => pc'[u] \notin Outside /\ idx'[u] = idx[u],
           \A i \in Index : \/ rxbufstat'[i] \in {rxbufstat[i], "EMPTY"}
                            \/ \E u \in Thread : pc'[u] \notin Outside /\ idx'[u] = i
    PROVE  Orphans' \subseteq Orphans
<1> SUFFICES ASSUME NEW i \in Index, rxbufstat'[i] # "EMPTY",
                    \A u \in Thread : pc'[u] \notin Outside => idx'[u] # i
             PROVE  i \in Orphans
  BY DEF Orphans, Holds, Outside
<1>1. rxbufstat[i] # "EMPTY"
  OBVIOUS
<1>2. \A u \in Thread : pc[u] \notin Outside => idx[u] # i
  OBVIOUS
<1>3. QED
  BY <1>1, <1>2 DEF Orphans, Holds, Outside

LEMMA ShapeStep == ASSUME Shape, [Next]_vars PROVE Shape'
<1> USE DEF Shape, Goto
<1>1. ASSUME NEW t \in Thread, GetIndex(t) \/ ScanIndex(t) \/ TakeIndex(t)
      PROVE  Shape'
  <2>1. \A i \in Index : NextIndex(i) \in Index
    BY DEF NextIndex
  <2>2. CASE GetIndex(t)
    <3>1. NextIndex(lastidx) \in Index
      BY <2>1
    <3>2. QED
      BY <2>2, <3>1 DEF GetIndex, bufVars, Places
  <2>3. CASE ScanIndex(t)
    <3>1. NextIndex(idx[t]) \in Index
      BY <2>1
    <3>2. idx' \in [Thread -> Index]
      BY <2>3, <3>1 DEF ScanIndex
    <3>3. QED
      BY <2>3, <3>2 DEF ScanIndex, bufVars, Places
  <2>4. CASE TakeIndex(t)
    BY <2>4 DEF TakeIndex, Places
  <2>5. QED
    BY <1>1, <2>2, <2>3, <2>4
<1>2. ASSUME NEW t \in Thread,
             SetupDatagram(t) \/ MarkTx(t) \/ SendOk(t) \/ SendError(t) \/ PollBuffer(t)
      PROVE  Shape'
  BY <1>2 DEF SetupDatagram, MarkTx, SendOk, SendError, PollBuffer, bufVars, Places
<1>3. ASSUME NEW t \in Thread,
             RecvNothing(t) \/ RecvFrame(t) \/ SortOwn(t) \/ SortOther(t) \/ StoreOther(t)
      PROVE  Shape'
  BY <1>3 DEF RecvNothing, RecvFrame, SortOwn, SortOther, StoreOther, bufVars, Places
<1>4. ASSUME NEW t \in Thread, PollAgain(t) \/ Retry(t) \/ GiveUp(t) \/ Release(t)
      PROVE  Shape'
  BY <1>4 DEF PollAgain, Retry, GiveUp, Release, bufVars, Places
<1>5. ASSUME LoseFrame \/ Finished \/ UNCHANGED vars PROVE Shape'
  BY <1>5 DEF LoseFrame, Finished, vars, bufVars, threadVars
<1>6. QED
  BY <1>1, <1>2, <1>3, <1>4, <1>5 DEF Next, Step

\* The only step that loses an index is the second half of the check in ecx_inframe.
LEMMA LossStep ==
    ASSUME Shape, [Next]_vars, ~\E t \in Thread : StoreOther(t) PROVE Orphans' \subseteq Orphans
<1> USE DEF Shape, Goto
<1>1. ASSUME NEW t \in Thread, GetIndex(t) \/ ScanIndex(t) PROVE Orphans' \subseteq Orphans
  <2>1. pc[t] \in Outside /\ pc'[t] \in Outside /\ UNCHANGED rxbufstat
    BY <1>1 DEF GetIndex, ScanIndex, bufVars, Outside
  <2>2. \A u \in Thread : u # t => pc'[u] = pc[u] /\ idx'[u] = idx[u]
    BY <1>1 DEF GetIndex, ScanIndex
  <2>3. QED
    BY <2>1, <2>2, OwnersKept
<1>2. ASSUME NEW t \in Thread,
             \/ TakeIndex(t) \/ SetupDatagram(t) \/ MarkTx(t) \/ SendOk(t) \/ SendError(t)
             \/ PollBuffer(t) \/ SortOwn(t)
      PROVE  Orphans' \subseteq Orphans
  <2>1. /\ pc'[t] \notin Outside
        /\ UNCHANGED idx
        /\ \A i \in Index : i # idx[t] => rxbufstat'[i] = rxbufstat[i]
    BY <1>2 DEF TakeIndex, SetupDatagram, MarkTx, SendOk, SendError, PollBuffer, SortOwn,
                bufVars, Outside
  <2>2. \A u \in Thread : u # t => pc'[u] = pc[u]
    BY <1>2 DEF TakeIndex, SetupDatagram, MarkTx, SendOk, SendError, PollBuffer, SortOwn
  <2>3. QED
    BY <2>1, <2>2, OwnersKept
<1>3. ASSUME NEW t \in Thread,
             \/ RecvNothing(t) \/ RecvFrame(t) \/ SortOther(t)
             \/ PollAgain(t) \/ Retry(t) \/ GiveUp(t)
      PROVE  Orphans' \subseteq Orphans
  <2>1. pc'[t] \notin Outside /\ UNCHANGED <<idx, rxbufstat>>
    BY <1>3 DEF RecvNothing, RecvFrame, SortOther, PollAgain, Retry, GiveUp, bufVars, Outside
  <2>2. \A u \in Thread : u # t => pc'[u] = pc[u]
    BY <1>3 DEF RecvNothing, RecvFrame, SortOther, PollAgain, Retry, GiveUp
  <2>3. QED
    BY <2>1, <2>2, OwnersKept
<1>4. ASSUME NEW t \in Thread, Release(t) PROVE Orphans' \subseteq Orphans
  <2>1. /\ rxbufstat'[idx[t]] = "EMPTY"
        /\ UNCHANGED idx
        /\ \A i \in Index : i # idx[t] => rxbufstat'[i] = rxbufstat[i]
        /\ \A u \in Thread : u # t => pc'[u] = pc[u]
    BY <1>4 DEF Release
  <2>2. SUFFICES ASSUME NEW i \in Index, rxbufstat'[i] # "EMPTY",
                        \A u \in Thread : pc'[u] \notin Outside => idx'[u] # i
                 PROVE  i \in Orphans
    BY DEF Orphans, Holds, Outside
  <2>3. i # idx[t] /\ rxbufstat[i] # "EMPTY"
    BY <2>1, <2>2
  <2>4. \A u \in Thread : pc[u] \notin Outside => idx[u] # i
    BY <2>1, <2>2, <2>3
  <2>5. QED
    BY <2>3, <2>4 DEF Orphans, Holds, Outside
<1>5. ASSUME LoseFrame \/ Finished \/ UNCHANGED vars PROVE Orphans' \subseteq Orphans
  <2>1. UNCHANGED <<rxbufstat, pc, idx>>
    BY <1>5 DEF LoseFrame, Finished, vars, bufVars, threadVars
  <2>2. QED
    BY <2>1, OwnersKept
<1>6. QED
  BY <1>1, <1>2, <1>3, <1>4, <1>5 DEF Next, Step

\* The frame ecx_inframe stores for another thread marks that frame's buffer and no other.
LEMMA StoreLosesItsOwn ==
    ASSUME Shape, NEW t \in Thread, StoreOther(t), NEW i \in Orphans' \ Orphans
    PROVE  tempbuf.idx = i
<1> SUFFICES ASSUME tempbuf.idx # i PROVE FALSE
  OBVIOUS
<1>1. UNCHANGED idx /\ pc[t] \notin Outside /\ pc'[t] \notin Outside
  BY DEF StoreOther, Shape, Goto, Outside
<1>2. rxbufstat'[i] = rxbufstat[i] /\ \A u \in Thread : u # t => pc'[u] = pc[u]
  BY DEF StoreOther, Shape, Goto, Orphans
<1>3. i \in Index /\ rxbufstat'[i] # "EMPTY"
  BY DEF Orphans
<1>4. \A u \in Thread : pc'[u] \notin Outside => idx'[u] # i
  BY DEF Orphans, Holds, Outside
<1>5. \A u \in Thread : pc[u] \notin Outside => idx[u] # i
  BY <1>1, <1>2, <1>4
<1>6. i \in Orphans
  BY <1>2, <1>3, <1>5 DEF Orphans, Holds, Outside
<1>7. QED
  BY <1>6

\* Whatever is late, lost, refused or shared, an index is lost for ever in one
\* place only: between the check of rxbufstat in ecx_inframe and the store behind it.
THEOREM IndexLostOnlyInWindow == Spec => LostInWindow
<1>1. Init => Shape
  BY DEF Init, Shape, Places
<1>2. Shape /\ [Next]_vars => Shape'
  BY ShapeStep
<1>3. Shape /\ [Next]_vars =>
          [\A i \in Orphans' \ Orphans : \E t \in Thread : StoreOther(t) /\ tempbuf.idx = i]_vars
  <2> SUFFICES ASSUME Shape, [Next]_vars, NEW i \in Orphans' \ Orphans
               PROVE  \E t \in Thread : StoreOther(t) /\ tempbuf.idx = i
    OBVIOUS
  <2>1. PICK t \in Thread : StoreOther(t)
    BY LossStep
  <2>2. tempbuf.idx = i
    BY <2>1, StoreLosesItsOwn
  <2>3. QED
    BY <2>1, <2>2
<1>4. QED
  BY <1>1, <1>2, <1>3, PTL DEF Spec, LostInWindow
================================================================================
