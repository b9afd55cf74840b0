------------------------- MODULE MailboxProtocols_proof --------------------------
(***************************************************************************)
(* Proofs about a mailbox and the protocols over it, for any sizes of      *)
(* objects, files, frames and mailbox, any calls and any number of losses, *)
(* emergencies and frames of the slave.                                    *)
(***************************************************************************)
EXTENDS MailboxProtocols, SequenceTheorems, TLAPS

LEMMA Constants ==
    /\ \A k \in Key : size[k] \in Nat
    /\ maxdata \in Nat \ {0} /\ more \in Nat /\ rxdata \in Nat \ {0} /\ psize \in Nat
    /\ MaxTrouble \in Nat /\ Incoming \subseteq Key
    /\ \A j \in Jobs : j.op \in Functions /\ j.key \in Key
BY MailboxAssumption, CoeAssumption, FoeAssumption, EoeAssumption, JobAssumption
   DEF MailboxAssumption, CoeAssumption, FoeAssumption, EoeAssumption, JobAssumption

--------------------------------------------------------------------------------
(* Pieces. *)

USE Constants

LEMMA PiecesSeq ==
    ASSUME NEW k \in Key, NEW from \in Nat, NEW n \in Nat
    PROVE  /\ Pieces(k, from, n) \in Data
           /\ Len(Pieces(k, from, n)) = IF from + n <= size[k] THEN n
                                        ELSE IF from <= size[k] THEN size[k] - from ELSE 0
           /\ \A i \in 1 .. Len(Pieces(k, from, n)) : Pieces(k, from, n)[i] = <<k, from + i>>
<1> DEFINE all == IF from + n <= size[k] THEN n ELSE size[k] - from
           len == IF from + n <= size[k] THEN n ELSE IF from <= size[k] THEN size[k] - from ELSE 0
           t == [i \in 1 .. len |-> <<k, from + i>>]
<1>1. size[k] \in Nat
  OBVIOUS
<1>2. len \in Nat /\ 1 .. all = 1 .. len
  BY <1>1
<1>3. Pieces(k, from, n) = t
  BY <1>2 DEF Pieces
<1>4. t \in Data /\ Len(t) = len /\ \A i \in 1 .. len : t[i] = <<k, from + i>>
  <2> HIDE DEF len
  <2>1. \A i \in 1 .. len : <<k, from + i>> \in Key \X Nat
    BY <1>2
  <2>2. QED
    BY <1>2, <2>1 DEF Data
<1> HIDE DEF t, len
<1>5. QED
  BY <1>3, <1>4 DEF len

LEMMA WholeSeq == ASSUME NEW k \in Key PROVE Whole(k) \in Data /\ Len(Whole(k)) = size[k]
<1>1. size[k] \in Nat /\ 0 \in Nat /\ 0 + size[k] <= size[k]
  OBVIOUS
<1>2. QED
  BY <1>1, PiecesSeq DEF Whole

LEMMA NoPieces == ASSUME NEW k \in Key PROVE Pieces(k, 0, 0) = <<>>
<1>1. Pieces(k, 0, 0) \in Data /\ Len(Pieces(k, 0, 0)) = 0
  <2>1. 0 \in Nat /\ size[k] \in Nat /\ 0 + 0 <= size[k]
    OBVIOUS
  <2>2. QED
    BY <2>1, PiecesSeq
<1>2. QED
  BY <1>1, EmptySeq DEF Data

\* What follows the beginning of an object makes a longer beginning.
LEMMA PiecesJoin ==
    ASSUME NEW k \in Key, NEW a \in Nat, NEW n \in Nat, a <= size[k]
    PROVE  Pieces(k, 0, a) \o Pieces(k, a, n) = Pieces(k, 0, a + Len(Pieces(k, a, n)))
<1> DEFINE s == Pieces(k, 0, a)
           t == Pieces(k, a, n)
           u == Pieces(k, 0, a + Len(t))
<1>1. size[k] \in Nat /\ 0 \in Nat /\ 0 + a <= size[k]
  OBVIOUS
<1>2. s \in Data /\ Len(s) = a /\ \A i \in 1 .. Len(s) : s[i] = <<k, 0 + i>>
  BY <1>1, PiecesSeq
<1>3. t \in Data /\ \A i \in 1 .. Len(t) : t[i] = <<k, a + i>>
  BY PiecesSeq
<1>4. Len(t) \in Nat /\ a + Len(t) <= size[k]
  <2>1. Len(t) = IF a + n <= size[k] THEN n ELSE IF a <= size[k] THEN size[k] - a ELSE 0
    BY PiecesSeq
  <2> HIDE DEF t
  <2>2. QED
    BY <1>1, <2>1
<1>5. u \in Data /\ Len(u) = a + Len(t) /\ \A i \in 1 .. Len(u) : u[i] = <<k, 0 + i>>
  <2>1. a + Len(t) \in Nat /\ 0 + (a + Len(t)) <= size[k]
    BY <1>4
  <2> HIDE DEF t
  <2>2. QED
    BY <1>1, <2>1, PiecesSeq
<1> HIDE DEF s, t, u
<1>6. s \o t \in Data /\ Len(s \o t) = a + Len(t)
  BY <1>2, <1>3, ConcatProperties DEF Data
<1>7. ASSUME NEW i \in 1 .. a + Len(t) PROVE (s \o t)[i] = u[i]
  <2>1. (s \o t)[i] = IF i <= a THEN s[i] ELSE t[i - a]
    BY <1>2, <1>3, ConcatProperties DEF Data
  <2>2. u[i] = <<k, i>>
    BY <1>4, <1>5
  <2>3. CASE i <= a
    BY <1>2, <2>1, <2>2, <2>3
  <2>4. CASE i > a
    <3>1. i - a \in 1 .. Len(t) /\ a + (i - a) = i
      BY <1>4, <2>4
    <3>2. t[i - a] = <<k, a + (i - a)>>
      BY <1>3, <3>1
    <3>3. QED
      BY <2>1, <2>2, <2>4, <3>1, <3>2
  <2>5. i <= a \/ i > a
    BY <1>4
  <2>6. QED
    BY <2>3, <2>4, <2>5
<1>8. s \o t = u
  BY <1>5, <1>6, <1>7, SeqEqual DEF Data
<1>9. QED
  BY <1>8 DEF s, t, u

LEMMA Division ==
    ASSUME NEW s \in Nat, NEW d \in Nat \ {0}
    PROVE  s \div d \in Int /\ s % d \in 0 .. d - 1 /\ s = d * (s \div d) + (s % d)
OBVIOUS

\* A number of a part is small enough for the part to have an offset in the object.
LEMMA Parts ==
    ASSUME NEW k \in Key, NEW i \in 1 .. (size[k] + maxdata - 1) \div maxdata
    PROVE  i - 1 \in Nat /\ (i - 1) * maxdata \in Nat /\ (i - 1) * maxdata < size[k]
<1> DEFINE s == size[k] + maxdata - 1
           q == s \div maxdata
           r == s % maxdata
<1>1. size[k] \in Nat /\ s \in Nat
  OBVIOUS
<1>2. q \in Int /\ r \in 0 .. maxdata - 1 /\ s = maxdata * q + r
  <2> HIDE DEF s
  <2>1. QED
    BY <1>1, Division
<1>3. i \in 1 .. q
  OBVIOUS
<1>4. s = size[k] + maxdata - 1
  OBVIOUS
<1> HIDE DEF s, q, r
<1>5. q - i \in Nat /\ i \in Nat /\ i >= 1
  BY <1>2, <1>3
<1>6. maxdata * (q - i) >= 0 /\ maxdata * q = maxdata * (q - i) + maxdata * i
  <2>1. ASSUME NEW a \in Nat, NEW b \in Nat PROVE a * b >= 0
    BY <2>1
  <2>2. ASSUME NEW a \in Int, NEW b \in Int, NEW c \in Int PROVE a * b = a * (b - c) + a * c
    BY <2>2
  <2>3. QED
    BY <1>2, <1>5, <2>1, <2>2
<1>7. maxdata * i \in Nat /\ maxdata * i <= size[k] + maxdata - 1
  BY <1>1, <1>2, <1>4, <1>5, <1>6
<1>8. (i - 1) * maxdata = maxdata * i - maxdata
  BY <1>5
<1>9. (i - 1) * maxdata >= 0
  BY <1>5
<1>10. QED
  BY <1>1, <1>5, <1>7, <1>8, <1>9

\* The parts of an object, one after the other, as the slave sends them.
LEMMA PartsSeq ==
    ASSUME NEW k \in Key, NEW S, NEW F, DOMAIN F = 1 .. (size[k] + maxdata - 1) \div maxdata,
           F = [i \in DOMAIN F |-> F[i]],
           \A i \in 1 .. (size[k] + maxdata - 1) \div maxdata : F[i] \in S
    PROVE  F \in Seq(S)
<1> DEFINE q == (size[k] + maxdata - 1) \div maxdata
           n == IF q >= 0 THEN q ELSE 0
<1>1. q \in Int
  <2> DEFINE s == size[k] + maxdata - 1
  <2>1. size[k] \in Nat /\ maxdata \in Nat \ {0}
    OBVIOUS
  <2>2. s \in Nat
    BY <2>1
  <2> HIDE DEF s
  <2>3. s \div maxdata \in Int
    BY <2>1, <2>2, Division
  <2>4. QED
    BY <2>3 DEF s
<1>2. n \in Nat /\ 1 .. q = 1 .. n
  <2> HIDE DEF q
  <2>1. QED
    BY <1>1
<1>3. F \in [1 .. n -> S]
  BY <1>2
<1> HIDE DEF q, n
<1>4. QED
  BY <1>2, <1>3

--------------------------------------------------------------------------------
(* Messages. *)

Types == {"ERR", "CoE", "FoE", "EoE", "SoE"}
Good == {m \in Mail : Genuine(m)}
FrameOps == OfFrame \cup {"getipres", "setipres"}

LEMMA MessageIsMail ==
    ASSUME NEW type \in Types, NEW op \in Ops, NEW key \in Name, NEW no \in Nat, NEW data \in Data,
           op \in Segments => no \in {0, 1}, op \notin Nameless => key \in Key
    PROVE  /\ Message(type, 0, op, key, no, data) \in Mail
           /\ type # "EoE" /\ op \notin FrameOps => Message(type, 0, op, key, no, data) \in Good
<1> DEFINE m == Message(type, 0, op, key, no, data)
<1>1. /\ m \in [type : Types, cnt : Count \cup {0}, op : Ops, key : Name, no : Nat, data : Data]
      /\ m.type = type /\ m.op = op /\ m.no = no /\ m.key = key
  BY DEF Message, Types
<1> HIDE DEF m
<1>2. m \in Mail
  BY <1>1 DEF Mail, Types
<1>3. type # "EoE" /\ op \notin FrameOps => m \in Good
  BY <1>1, <1>2 DEF Good, Genuine, FrameOps
<1>4. QED
  BY <1>2, <1>3 DEF m

\* Numbering a message leaves its type.
LEMMA Numbered ==
    ASSUME NEW m \in Mail, NEW c \in Count \cup {0}
    PROVE  [m EXCEPT !.cnt = c] \in Mail
<1> DEFINE new == [m EXCEPT !.cnt = c]
<1>1. /\ new \in [type : Types, cnt : Count \cup {0}, op : Ops, key : Name, no : Nat, data : Data]
      /\ new.op = m.op /\ new.no = m.no /\ new.key = m.key
  BY DEF Mail, Types
<1> HIDE DEF new
<1>2. new \in Mail
  BY <1>1 DEF Mail, Types
<1>3. QED
  BY <1>2 DEF new

LEMMA FragmentFacts ==
    ASSUME NEW k \in Key, NEW n \in Nat, n * maxdata < size[k], NEW m, m = Fragment(k, n)
    PROVE  /\ m \in Mail /\ m.type = "EoE" /\ m.op \in OfFrame /\ m.key = k /\ m.no = n
           /\ m.data = Pieces(k, n * maxdata, maxdata)
           /\ k \in Incoming => m \in Good
           /\ m.op = "fragment" => (n + 1) * maxdata < size[k]
           /\ Len(m.data) \in Nat /\ n * maxdata + Len(m.data) <= size[k]
<1> DEFINE
           at == n * maxdata
           part == Pieces(k, at, maxdata)
           op == IF at + Len(part) = size[k] THEN "lastfragment" ELSE "fragment"
<1>1. at \in Nat /\ size[k] \in Nat /\ at < size[k] /\ (n + 1) * maxdata = at + maxdata
  OBVIOUS
<1>2. m = Message("EoE", 0, op, k, n, part)
  BY DEF Fragment
<1> HIDE DEF at
<1>3. part \in Data /\ Len(part) = IF at + maxdata <= size[k] THEN maxdata ELSE size[k] - at
  <2>1. /\ part \in Data
        /\ Len(part) = IF at + maxdata <= size[k] THEN maxdata
                       ELSE IF at <= size[k] THEN size[k] - at ELSE 0
    BY <1>1, PiecesSeq
  <2> HIDE DEF part
  <2>2. QED
    BY <1>1, <2>1
<1>4. Len(part) \in Nat /\ at + Len(part) <= size[k]
  <2> HIDE DEF part
  <2>1. QED
    BY <1>1, <1>3
<1> HIDE DEF part
<1>5. op \in Ops /\ op \in OfFrame /\ op \notin Segments /\ op \notin Nameless
  <2>1. op = "fragment" \/ op = "lastfragment"
    OBVIOUS
  <2> HIDE DEF op
  <2>2. op \in OfFrame /\ op \in Ops
    BY <2>1 DEF OfFrame, Ops
  <2>3. op \notin Segments /\ op \notin Nameless
    BY <2>1 DEF Segments, Nameless
  <2>4. QED
    BY <2>2, <2>3
<1>6. op = "fragment" => at + maxdata < size[k] /\ Len(part) = maxdata
  BY <1>1, <1>3
<1>7. op = "lastfragment" => at + Len(part) = size[k]
  OBVIOUS
<1> HIDE DEF op
<1>8. "EoE" \in Types /\ k \in Name
  BY DEF Types, Name
<1>9. m \in Mail
  BY <1>2, <1>3, <1>5, <1>8, MessageIsMail
<1>10. m.type = "EoE" /\ m.op = op /\ m.key = k /\ m.no = n /\ m.data = part
  BY <1>2 DEF Message
<1>11. k \in Incoming => m \in Good
  <2>1. m = Fragment(m.key, m.no) /\ m.no * maxdata < size[m.key]
    BY <1>1, <1>10 DEF at
  <2>2. QED
    BY <1>5, <1>9, <1>10, <2>1 DEF Good, Genuine
<1>12. op = "fragment" => (n + 1) * maxdata < size[k]
  BY <1>1, <1>6
<1>13. QED
  BY <1>4, <1>5, <1>9, <1>10, <1>11, <1>12 DEF at, part

\* A fragment continues its frame, and the last one completes it.
LEMMA FragmentJoins ==
    ASSUME NEW k \in Key, NEW n \in Nat, n * maxdata < size[k], NEW m, m = Fragment(k, n)
    PROVE  /\ m.op = "fragment" => Pieces(k, 0, n * maxdata) \o m.data = Pieces(k, 0, (n + 1) * maxdata)
           /\ m.op = "lastfragment" => Pieces(k, 0, n * maxdata) \o m.data = Whole(k)
<1> DEFINE at == n * maxdata
           part == Pieces(k, at, maxdata)
<1>1. at \in Nat /\ size[k] \in Nat /\ at < size[k] /\ (n + 1) * maxdata = at + maxdata /\ maxdata \in Nat
  OBVIOUS
<1>2. m.data = part /\ Len(m.data) \in Nat
  BY FragmentFacts
<1>3. m.op = IF at + Len(part) = size[k] THEN "lastfragment" ELSE "fragment"
  BY DEF Fragment, Message
<1> HIDE DEF at
<1>4. Len(part) = IF at + maxdata <= size[k] THEN maxdata ELSE IF at <= size[k] THEN size[k] - at ELSE 0
  BY <1>1, PiecesSeq
<1>5. at <= size[k]
  BY <1>1
<1>6. Pieces(k, 0, at) \o part = Pieces(k, 0, at + Len(part))
  BY <1>1, <1>5, PiecesJoin
<1> HIDE DEF part
<1>7. m.op = "fragment" => at + Len(part) = (n + 1) * maxdata
  BY <1>1, <1>3, <1>4
<1>8. m.op = "lastfragment" => at + Len(part) = size[k]
  BY <1>3
<1>9. m.op = "fragment" => Pieces(k, 0, at) \o m.data = Pieces(k, 0, (n + 1) * maxdata)
  BY <1>2, <1>6, <1>7, Zenon
<1>10. m.op = "lastfragment" => Pieces(k, 0, at) \o m.data = Whole(k)
  BY <1>2, <1>6, <1>8, Zenon DEF Whole
<1>11. QED
  BY <1>9, <1>10, Zenon DEF at

--------------------------------------------------------------------------------
(* The invariant, sorted by whose state it is. *)

Slave == /\ inbox \in Mail \cup {NoMail} /\ outbox \in Good \cup {NoMail} /\ backup \in Good \cup {NoMail}
         /\ queue \in Seq(Good) /\ seen \in Count \cup {0}
         /\ sm1 \in [request : BOOLEAN, ack : BOOLEAN]
         /\ server \in ServerType /\ stored \subseteq Key /\ frames \in Nat
Links == {"idle", "empty", "probe", "write", "wait", "read", "toggle", "ack", "avail"}
Port == /\ link \in Links /\ SMstat \in BOOLEAN /\ expired \in BOOLEAN /\ wkc \in {0, 1}
        /\ MbxOut \in Mail \cup {NoMail} /\ MbxIn \in Good \cup {NoMail}
        /\ mbx_cnt \in Count \cup {0} /\ elist \in [1 .. MaxTrouble -> 0 .. 2]
        /\ hook \in HookType /\ Hooks(hook)
        /\ calls \in Nat /\ troubles \in 0 .. MaxTrouble
Fits(c) == c.op \in {"SoEread", "readODlist", "FOEread", "EOErecv"} => Len(c.data) <= psize
Caller(c) == /\ c \in CallType /\ Fits(c) /\ Handed(c)
             /\ c.op = "EOErecv" /\ c.step \in {"start", "fragment"} => Received(c)
Inv == Slave /\ Port /\ Caller(call) /\ Turns

LEMMA SeqGood == ASSUME NEW q PROVE q \in Seq(Good) <=> q \in Seq(Mail) /\ \A i \in 1 .. Len(q) : Genuine(q[i])
<1>1. ASSUME q \in Seq(Good) PROVE q \in Seq(Mail) /\ \A i \in 1 .. Len(q) : Genuine(q[i])
  <2>1. Good \subseteq Mail
    BY DEF Good
  <2>2. q \in Seq(Mail)
    BY <1>1, <2>1, SeqMonotonic
  <2>3. \A i \in 1 .. Len(q) : q[i] \in Good
    BY <1>1, ElementOfSeq
  <2>4. QED
    BY <2>2, <2>3 DEF Good
<1>2. ASSUME q \in Seq(Mail), \A i \in 1 .. Len(q) : Genuine(q[i]) PROVE q \in Seq(Good)
  <2>1. Len(q) \in Nat /\ q \in [1 .. Len(q) -> Mail]
    BY <1>2, LenProperties
  <2>2. \A i \in 1 .. Len(q) : q[i] \in Good
    BY <1>2, <2>1 DEF Good
  <2>3. q \in [1 .. Len(q) -> Good]
    BY <2>1, <2>2
  <2>4. QED
    BY <2>1, <2>3
<1>3. QED
  BY <1>1, <1>2

LEMMA Sorted == Inv <=> TypeOK /\ FragmentInv
<1>1. queue \in Seq(Good) <=> queue \in Seq(Mail) /\ \A i \in 1 .. Len(queue) : Genuine(queue[i])
  BY SeqGood
<1>2. /\ outbox \in Good \cup {NoMail} <=> outbox \in Mail \cup {NoMail} /\ (outbox # NoMail => Genuine(outbox))
      /\ backup \in Good \cup {NoMail} <=> backup \in Mail \cup {NoMail} /\ (backup # NoMail => Genuine(backup))
      /\ MbxIn \in Good \cup {NoMail} <=> MbxIn \in Mail \cup {NoMail} /\ (MbxIn # NoMail => Genuine(MbxIn))
  BY DEF Good
<1>3. FitsBuffer <=> Fits(call)
  BY DEF FitsBuffer, Fits
<1>4. (\A m \in {outbox, backup, MbxIn} \ {NoMail} : Genuine(m))
        <=> /\ outbox # NoMail => Genuine(outbox)
            /\ backup # NoMail => Genuine(backup)
            /\ MbxIn # NoMail => Genuine(MbxIn)
  OBVIOUS
<1>5. QED
  BY <1>1, <1>2, <1>3, <1>4, Zenon DEF Inv, Slave, Port, Caller, TypeOK, MailboxTypeOK, FragmentInv, Links

LEMMA SortedNext == Inv' <=> TypeOK' /\ FragmentInv'
<1>1. QED
  BY Sorted, PTL

\* A step keeps the invariant, and HandedWhole if the hook has room for all frames.
Keeps == Inv' /\ (HookHasRoom /\ HandedWhole => HandedWhole')

LEMMA HookKept == ASSUME Inv', hook' = hook PROVE Keeps
BY DEF Keeps, Inv, Caller, HandedWhole, Handed, Whole, Pieces

LEMMA SlaveStays == ASSUME Slave, UNCHANGED slaveVars PROVE Slave'
BY DEF Slave, slaveVars, inside

--------------------------------------------------------------------------------
(* The slave. *)

\* What the master has, when only the slave does something.
LEMMA MasterStays ==
    ASSUME Port, Caller(call), Turns, UNCHANGED masterVars, troubles' \in 0 .. MaxTrouble
    PROVE  Port' /\ Caller(call)' /\ Turns'
<1> USE DEF masterVars, caller
<1>1. Port'
  BY DEF Port
<1>2. Caller(call)'
  <2>1. call' = call
    OBVIOUS
  <2>2. QED
    BY <2>1, Zenon DEF Caller, Fits, Received, Beginning, Handed, Whole, Pieces
<1>3. Turns'
  BY DEF Turns
<1>4. QED
  BY <1>1, <1>2, <1>3

LEMMA ProcessInv ==
    ASSUME Inv, NEW answers \in Seq(Good), NEW next \in ServerType, NEW got \in SUBSET Key,
           Process(answers, next, got), troubles' \in 0 .. MaxTrouble
    PROVE  Keeps
<1>1. inbox \in Mail /\ inbox.cnt \in Count \cup {0}
  BY DEF Inv, Slave, Process, Mail
<1>2. queue \o answers \in Seq(Good)
  BY ConcatProperties DEF Inv, Slave
<1>3. queue' \in Seq(Good) /\ server' \in ServerType /\ stored' \subseteq Key
  BY <1>2 DEF Inv, Slave, Process
<1>4. Slave'
  BY <1>1, <1>3 DEF Inv, Slave, Process
<1>5. Inv'
  BY <1>4, MasterStays DEF Inv, Process
<1>6. hook' = hook
  BY DEF Process, masterVars
<1>7. QED
  BY <1>5, <1>6, HookKept

LEMMA TakeInv ==
    ASSUME Inv, NEW answers \in Seq(Good), NEW next \in ServerType, NEW got \in SUBSET Key,
           Take(answers, next, got)
    PROVE  Keeps
BY ProcessInv DEF Take, Inv, Port

LEMMA One == ASSUME NEW m \in Good PROVE <<m>> \in Seq(Good)
OBVIOUS

LEMMA None == <<>> \in Seq(Good)
OBVIOUS

LEMMA AnswerInv ==
    ASSUME Inv, NEW m \in Good, NEW next \in ServerType, Answer(m, next)
    PROVE  Keeps
<1>1. <<m>> \in Seq(Good) /\ {} \in SUBSET Key
  BY One
<1>2. QED
  BY <1>1, TakeInv DEF Answer

LEMMA IdleType == Idle \in ServerType
<1>1. <<>> \in Data
  BY DEF Data
<1>2. QED
  BY <1>1 DEF Idle, Server, ServerType, Name

LEMMA FinishInv ==
    ASSUME Inv, NEW m \in Good, NEW key \in Key, Finish(m, key)
    PROVE  Keeps
BY One, TakeInv, IdleType DEF Finish

LEMMA PlaceInv == Inv /\ Place => Keeps
<1> SUFFICES ASSUME Inv, Place PROVE Keeps
  OBVIOUS
<1>1. Head(queue) \in Good /\ Tail(queue) \in Seq(Good)
  BY HeadTailProperties DEF Inv, Slave, Place
<1>2. Slave'
  BY <1>1 DEF Inv, Slave, Place
<1>3. Inv'
  BY <1>2, MasterStays DEF Inv, Port, Place
<1>4. hook' = hook
  BY DEF Place, masterVars
<1>5. QED
  BY <1>3, <1>4, HookKept

LEMMA RepeatInv == Inv /\ Repeat => Keeps
<1> SUFFICES ASSUME Inv, Repeat PROVE Keeps
  OBVIOUS
<1>1. Slave'
  BY DEF Inv, Slave, Repeat, inside
<1>2. Inv'
  BY <1>1, MasterStays DEF Inv, Port, Repeat
<1>3. hook' = hook
  BY DEF Repeat, masterVars
<1>4. QED
  BY <1>2, <1>3, HookKept

LEMMA RaiseInv == Inv /\ RaiseEmergency => Keeps
<1> SUFFICES ASSUME Inv, RaiseEmergency PROVE Keeps
  OBVIOUS
<1>1. troubles' \in 0 .. MaxTrouble /\ troubles' \in Nat
  BY DEF Inv, Port, RaiseEmergency
<1>2. PICK type \in {"CoE", "ERR"} : queue' = Append(queue, Report(type, troubles'))
  BY DEF RaiseEmergency
<1>3. Report(type, troubles') \in Good
  <2>1. <<>> \in Data
    BY DEF Data
  <2>2. /\ type \in Types /\ type # "EoE" /\ "emergency" \in Ops /\ "emergency" \notin FrameOps
        /\ "emergency" \in Nameless /\ "emergency" \notin Segments /\ "none" \in Name
    BY DEF Types, Ops, FrameOps, OfFrame, Nameless, Segments, Name
  <2>3. QED
    BY <1>1, <2>1, <2>2, MessageIsMail DEF Report
<1>4. queue' \in Seq(Good)
  BY <1>2, <1>3, AppendProperties DEF Inv, Slave
<1>5. Slave'
  BY <1>4 DEF Inv, Slave, RaiseEmergency
<1>6. Inv'
  BY <1>1, <1>5, MasterStays DEF Inv, RaiseEmergency
<1>7. hook' = hook
  BY DEF RaiseEmergency, masterVars
<1>8. QED
  BY <1>6, <1>7, HookKept

LEMMA FrameInv == Inv /\ SlaveSendsFrame => Keeps
<1> SUFFICES ASSUME Inv, SlaveSendsFrame PROVE Keeps
  OBVIOUS
<1>1. PICK k \in Incoming : queue' = queue \o Fragments(k)
  BY DEF SlaveSendsFrame
<1>2. Fragments(k) \in Seq(Good)
  <2> DEFINE F == Fragments(k)
             parts == (size[k] + maxdata - 1) \div maxdata
  <2>1. DOMAIN F = 1 .. parts /\ F = [i \in DOMAIN F |-> F[i]]
    BY DEF Fragments
  <2>2. ASSUME NEW i \in 1 .. parts PROVE F[i] \in Good
    <3>1. k \in Key
      OBVIOUS
    <3>2. i - 1 \in Nat /\ (i - 1) * maxdata < size[k]
      BY <3>1, Parts
    <3>3. F[i] = Fragment(k, i - 1)
      BY DEF Fragments
    <3> HIDE DEF F, parts
    <3>4. QED
      BY <3>1, <3>2, <3>3, FragmentFacts
  <2> HIDE DEF F
  <2>3. F \in Seq(Good)
    BY <2>1, <2>2, PartsSeq
  <2>4. QED
    BY <2>3 DEF F
<1>3. queue' \in Seq(Good)
  BY <1>1, <1>2, ConcatProperties DEF Inv, Slave
<1>4. Slave'
  BY <1>3 DEF Inv, Slave, SlaveSendsFrame
<1>5. Inv'
  BY <1>4, MasterStays DEF Inv, Port, SlaveSendsFrame
<1>6. hook' = hook
  BY DEF SlaveSendsFrame, masterVars
<1>7. QED
  BY <1>5, <1>6, HookKept

\* What a request of the master and the transfer of the slave are known to be.
LEMMA Request ==
    ASSUME Inv, inbox # NoMail
    PROVE  /\ inbox \in Mail /\ inbox.no \in Nat /\ inbox.data \in Data /\ inbox.op \in Ops /\ inbox.key \in Name
           /\ inbox.op \notin Nameless => inbox.key \in Key
           /\ inbox.op \in Segments => inbox.no \in {0, 1}
BY DEF Inv, Slave, Mail

LEMMA Transfer ==
    ASSUME Inv
    PROVE  /\ server.no \in Nat /\ server.pos \in Nat /\ server.data \in Data /\ server.key \in Name
           /\ server.op \in {"idle", "upload", "download", "READ", "WRITE", "SoE", "EOE"}
           /\ server.op \notin {"idle", "SoE"} => server.key \in Key
           /\ server.op \in {"upload", "download"} => server.no \in {0, 1}
           /\ server = Server(server.op, server.key, server.no, server.pos, server.data)
BY DEF Inv, Slave, ServerType, Server

LEMMA ServerIsType ==
    ASSUME NEW op \in {"idle", "upload", "download", "READ", "WRITE", "SoE", "EOE"}, NEW key \in Name,
           NEW no \in Nat, NEW pos \in Nat, NEW data \in Data,
           op \in {"upload", "download"} => no \in {0, 1}, op \notin {"idle", "SoE"} => key \in Key
    PROVE  Server(op, key, no, pos, data) \in ServerType
BY DEF Server, ServerType

LEMMA ServerMoves ==
    ASSUME Inv, NEW no \in Nat, NEW pos \in Nat, server.op \in {"upload", "download"} => no \in {0, 1}
    PROVE  [server EXCEPT !.no = no, !.pos = pos] \in ServerType
BY DEF Inv, Slave, ServerType

LEMMA ServerGets ==
    ASSUME Inv, NEW no \in Nat, NEW data \in Data, server.op \in {"upload", "download"} => no \in {0, 1}
    PROVE  [server EXCEPT !.no = no, !.data = data] \in ServerType
BY DEF Inv, Slave, ServerType

\* The messages of CoE, SoE and FoE that are about an object.
Plain == Ops \ (FrameOps \cup Nameless)
LEMMA PlainMessage ==
    ASSUME NEW type \in {"CoE", "SoE", "FoE"}, NEW op \in Plain, NEW key \in Key, NEW no \in Nat, NEW data \in Data,
           op \in Segments => no \in {0, 1}
    PROVE  Message(type, 0, op, key, no, data) \in Good
<1>1. type \in Types /\ type # "EoE" /\ key \in Name
  BY DEF Types, Name
<1>2. op \in Ops /\ op \notin FrameOps /\ op \notin Nameless
  BY DEF Plain
<1>3. QED
  BY <1>1, <1>2, MessageIsMail

LEMMA EmptyData == <<>> \in Data /\ Len(<<>>) = 0
BY DEF Data

LEMMA AbortInv == ASSUME Inv, inbox # NoMail, Abort(inbox) PROVE Keeps
<1>1. Coe("abort", inbox.key, 0, <<>>) \in Good
  <2>1. inbox.key \in Name
    BY Request
  <2>2. /\ "CoE" \in Types /\ "CoE" # "EoE" /\ "abort" \in Ops /\ "abort" \notin FrameOps
        /\ "abort" \in Nameless /\ "abort" \notin Segments
    BY DEF Types, Ops, FrameOps, OfFrame, Nameless, Segments
  <2>3. QED
    BY <2>1, <2>2, EmptyData, MessageIsMail DEF Coe
<1>2. QED
  BY <1>1, IdleType, AnswerInv DEF Abort

\* A server that serves data: the key is served from pos on.
LEMMA UploadInv == ASSUME Inv, inbox # NoMail, ServeUpload(inbox) PROVE Keeps
<1> DEFINE key == inbox.key
           first == Pieces(key, 0, maxdata)
<1>1. key \in Key /\ size[key] \in Nat
  BY Request DEF ServeUpload, Nameless
<1>2. first \in Data
  BY <1>1, PiecesSeq
<1>3. "expedited" \in Plain \ Segments /\ "normal" \in Plain \ Segments
  BY DEF Plain, Ops, FrameOps, OfFrame, Nameless, Segments
<1>4. Server("upload", key, 0, maxdata, <<>>) \in ServerType
  BY <1>1, EmptyData, ServerIsType DEF Name
<1> HIDE DEF key, first
<1>5. /\ Coe("expedited", key, size[key], first) \in Good
      /\ Coe("normal", key, size[key], first) \in Good
  BY <1>1, <1>2, <1>3, PlainMessage DEF Coe
<1>6. \/ Answer(Coe("expedited", key, size[key], first), Idle)
      \/ Answer(Coe("normal", key, size[key], first), Idle)
      \/ Answer(Coe("normal", key, size[key], first), Server("upload", key, 0, maxdata, <<>>))
  BY DEF ServeUpload, key, first
<1>7. QED
  BY <1>4, <1>5, <1>6, IdleType, AnswerInv

LEMMA SegmentInv == ASSUME Inv, inbox # NoMail, ServeSegment(inbox) PROVE Keeps
<1>1. CASE ~(server.op = "upload" /\ server.no = inbox.no)
  BY <1>1, AbortInv DEF ServeSegment
<1>2. CASE server.op = "upload" /\ server.no = inbox.no
  <2> DEFINE key == server.key
             part == Pieces(key, server.pos, maxdata + more)
             end == server.pos + Len(part)
             next == [server EXCEPT !.no = 1 - @, !.pos = end]
  <2>1. key \in Key /\ server.no \in {0, 1} /\ server.pos \in Nat /\ server.data \in Data /\ key \in Name
    BY <1>2, Transfer
  <2>2. part \in Data
    <3>1. maxdata + more \in Nat
      OBVIOUS
    <3>2. QED
      BY <2>1, <3>1, PiecesSeq
  <2>3. end \in Nat
    <3>1. Len(part) \in Nat
      BY <2>2, LenProperties DEF Data
    <3> HIDE DEF part
    <3>2. QED
      BY <2>1, <3>1
  <2>4. next = [server EXCEPT !.no = 1 - server.no, !.pos = end]
    OBVIOUS
  <2>5. "segment" \in Plain /\ "lastsegment" \in Plain
    BY DEF Plain, Ops, FrameOps, OfFrame, Nameless, Segments
  <2>6. \/ Answer(Coe("lastsegment", key, inbox.no, part), Idle)
        \/ Answer(Coe("segment", key, inbox.no, part), next)
    BY <1>2 DEF ServeSegment
  <2> HIDE DEF key, part, end, next
  <2>7. 1 - server.no \in {0, 1} /\ 1 - server.no \in Nat /\ inbox.no \in {0, 1} /\ inbox.no \in Nat
    BY <1>2, <2>1
  <2>8. next \in ServerType
    BY <2>3, <2>4, <2>7, ServerMoves
  <2>9. /\ Coe("lastsegment", key, inbox.no, part) \in Good
        /\ Coe("segment", key, inbox.no, part) \in Good
    BY <2>1, <2>2, <2>5, <2>7, PlainMessage DEF Coe
  <2>10. QED
    BY <2>6, <2>8, <2>9, IdleType, AnswerInv
<1>3. QED
  BY <1>1, <1>2

LEMMA DownloadInv == ASSUME Inv, inbox # NoMail, ServeDownload(inbox) PROVE Keeps
<1> DEFINE answer == Coe("downloaded", inbox.key, 0, <<>>)
           next == Server("download", inbox.key, 0, inbox.no, inbox.data)
<1>1. inbox.key \in Key /\ inbox.no \in Nat /\ inbox.data \in Data
  BY Request DEF ServeDownload, Nameless
<1>2. "downloaded" \in Plain \ Segments
  BY DEF Plain, Ops, FrameOps, OfFrame, Nameless, Segments
<1>3. answer \in Good
  BY <1>1, <1>2, EmptyData, PlainMessage DEF Coe
<1>4. next \in ServerType
  BY <1>1, ServerIsType DEF Name
<1>5. Finish(answer, inbox.key) \/ Answer(answer, next)
  BY DEF ServeDownload
<1> HIDE DEF answer, next
<1>6. QED
  BY <1>1, <1>3, <1>4, <1>5, AnswerInv, FinishInv

LEMMA DownloadSegmentInv == ASSUME Inv, inbox # NoMail, ServeDownloadSegment(inbox) PROVE Keeps
<1> DEFINE answer == Coe("segdownloaded", server.key, inbox.no, <<>>)
           next == [server EXCEPT !.no = 1 - @, !.data = server.data \o inbox.data]
<1>1. CASE Abort(inbox)
  BY <1>1, AbortInv
<1>2. CASE /\ server.op = "download" /\ server.no = inbox.no
           /\ Finish(answer, server.key) \/ Answer(answer, next)
  <2>1. server.key \in Key /\ server.key \in Name /\ server.no \in {0, 1} /\ server.pos \in Nat
    BY <1>2, Transfer
  <2>2. server.data \o inbox.data \in Data
    BY Request, Transfer, ConcatProperties DEF Data
  <2>3. next = [server EXCEPT !.no = 1 - server.no, !.data = server.data \o inbox.data]
    OBVIOUS
  <2>4. 1 - server.no \in {0, 1} /\ 1 - server.no \in Nat /\ inbox.no \in {0, 1} /\ inbox.no \in Nat
    BY <1>2, <2>1
  <2>5. "segdownloaded" \in Plain
    BY DEF Plain, Ops, FrameOps, OfFrame, Nameless, Segments
  <2>6. answer \in Good
    BY <2>1, <2>4, <2>5, EmptyData, PlainMessage DEF Coe
  <2>7. next \in ServerType
    BY <2>2, <2>3, <2>4, ServerGets
  <2> HIDE DEF answer, next
  <2>8. QED
    BY <1>2, <2>1, <2>6, <2>7, AnswerInv, FinishInv
<1> DEFINE last == inbox.op = "lastdownloadseg"
           refused == \/ server.op # "download" \/ server.no # inbox.no
                      \/ last /\ Len(server.data \o inbox.data) # server.pos
<1> HIDE DEF next
<1>3. CASE refused
  BY <1>1, <1>3 DEF ServeDownloadSegment
<1>4. CASE ~refused
  <2>1. Finish(answer, server.key) \/ Answer(answer, next)
    BY <1>4 DEF ServeDownloadSegment, next
  <2>2. QED
    BY <1>2, <1>4, <2>1
<1>5. QED
  BY <1>3, <1>4

LEMMA CoeInv == Inv /\ ServeCoe => Keeps
BY UploadInv, SegmentInv, DownloadInv, DownloadSegmentInv DEF ServeCoe

LEMMA PdoInv == ASSUME Inv, inbox # NoMail, ServePdo(inbox) PROVE Keeps
<1> DEFINE key == inbox.key
<1>1. key \in Key
  BY Request DEF ServePdo, Nameless
<1>2. CASE Take(<<>>, server, IF inbox.data = Whole(key) THEN {key} ELSE {})
  <2>1. (IF inbox.data = Whole(key) THEN {key} ELSE {}) \in SUBSET Key /\ server \in ServerType
    BY <1>1 DEF Inv, Slave
  <2>2. QED
    BY <1>2, <2>1, None, TakeInv
<1>3. CASE Answer(Coe("txpdo", key, 0, Whole(key)), server)
  <2>1. "txpdo" \in Plain \ Segments
    BY DEF Plain, Ops, FrameOps, OfFrame, Nameless, Segments
  <2>2. Coe("txpdo", key, 0, Whole(key)) \in Good
    BY <1>1, <2>1, WholeSeq, PlainMessage DEF Coe
  <2>3. server \in ServerType
    BY DEF Inv, Slave
  <2>4. QED
    BY <1>3, <2>2, <2>3, AnswerInv
<1>4. QED
  BY <1>2, <1>3 DEF ServePdo

LEMMA ListPartGood ==
    ASSUME NEW k \in Key, NEW n \in 1 .. (size[k] + maxdata - 1) \div maxdata
    PROVE  ListPart(k, n) \in Good
<1> DEFINE parts == (size[k] + maxdata - 1) \div maxdata
<1>1. n - 1 \in Nat /\ (n - 1) * maxdata \in Nat
  BY Parts
<1>2. Pieces(k, (n - 1) * maxdata, maxdata) \in Data
  BY <1>1, PiecesSeq
<1>3. parts \in Int
  <2> DEFINE s == size[k] + maxdata - 1
  <2>1. s \in Nat
    OBVIOUS
  <2> HIDE DEF s
  <2>2. s \div maxdata \in Int
    BY <2>1, Division
  <2>3. QED
    BY <2>2 DEF s
<1>4. n \in 1 .. parts
  OBVIOUS
<1>5. ListPart(k, n) = Coe("odlist", k, parts - n, Pieces(k, (n - 1) * maxdata, maxdata))
  BY DEF ListPart
<1>6. "odlist" \in Plain \ Segments
  BY DEF Plain, Ops, FrameOps, OfFrame, Nameless, Segments
<1> HIDE DEF parts
<1>7. parts - n \in Nat
  BY <1>3, <1>4
<1>8. QED
  BY <1>2, <1>5, <1>6, <1>7, PlainMessage DEF Coe

LEMMA InfoInv == ASSUME Inv, inbox # NoMail, ServeInfo(inbox) PROVE Keeps
<1> DEFINE key == inbox.key
           parts == (size[key] + maxdata - 1) \div maxdata
           list == [n \in 1 .. parts |-> ListPart(key, n)]
<1>1. key \in Key /\ inbox.no \in Nat /\ server \in ServerType /\ {} \in SUBSET Key
  BY Request DEF ServeInfo, Nameless, Inv, Slave
<1>2. CASE Take(list, server, {})
  <2>1. DOMAIN list = 1 .. parts /\ list = [i \in DOMAIN list |-> list[i]]
    OBVIOUS
  <2>2. \A i \in 1 .. parts : list[i] \in Good
    BY <1>1, ListPartGood
  <2> HIDE DEF list
  <2>3. list \in Seq(Good)
    BY <1>1, <2>1, <2>2, PartsSeq
  <2>4. QED
    BY <1>1, <1>2, <2>3, TakeInv
<1>3. CASE Answer(Coe("od", key, 0, Whole(key)), server)
  <2>1. "od" \in Plain \ Segments
    BY DEF Plain, Ops, FrameOps, OfFrame, Nameless, Segments
  <2>2. Coe("od", key, 0, Whole(key)) \in Good
    BY <1>1, <2>1, WholeSeq, PlainMessage DEF Coe
  <2>3. QED
    BY <1>1, <1>3, <2>2, AnswerInv
<1>4. CASE Answer(Coe("oe", key, inbox.no, Pieces(key, inbox.no, 1)), server)
  <2>1. "oe" \in Plain \ Segments
    BY DEF Plain, Ops, FrameOps, OfFrame, Nameless, Segments
  <2>2. Pieces(key, inbox.no, 1) \in Data
    <3>1. 1 \in Nat
      OBVIOUS
    <3>2. QED
      BY <1>1, <3>1, PiecesSeq
  <2>3. Coe("oe", key, inbox.no, Pieces(key, inbox.no, 1)) \in Good
    BY <1>1, <2>1, <2>2, PlainMessage DEF Coe
  <2>4. QED
    BY <1>1, <1>4, <2>3, AnswerInv
<1>5. QED
  BY <1>2, <1>3, <1>4 DEF ServeInfo

LEMMA ObjectsInv == Inv /\ ServeObjects => Keeps
BY PdoInv, InfoInv DEF ServeObjects

LEMMA ServeReadInv == ASSUME Inv, inbox # NoMail, ServeRead(inbox) PROVE Keeps
<1> DEFINE key == inbox.key
<1>1. key \in Key /\ key \in Name
  BY Request DEF ServeRead, Nameless, Name
<1>2. "DATA" \in Plain \ Segments
  BY DEF Plain, Ops, FrameOps, OfFrame, Nameless, Segments
<1>3. 0 \in Nat /\ 1 \in Nat /\ rxdata \in Nat
  OBVIOUS
<1>4. FoeMessage("DATA", key, 1, Pieces(key, 0, rxdata)) \in Good
  BY <1>1, <1>2, <1>3, PiecesSeq, PlainMessage DEF FoeMessage
<1>5. Server("READ", key, 1, 0, <<>>) \in ServerType
  BY <1>1, <1>3, EmptyData, ServerIsType
<1>6. QED
  BY <1>4, <1>5, AnswerInv DEF ServeRead

LEMMA FoeReply ==
    ASSUME NEW op \in {"ACK", "ERROR", "BUSY"}, NEW key \in Key, NEW no \in Nat
    PROVE  FoeMessage(op, key, no, <<>>) \in Good
<1>1. op \in Plain \ Segments
  BY DEF Plain, Ops, FrameOps, OfFrame, Nameless, Segments
<1>2. QED
  BY <1>1, EmptyData, PlainMessage DEF FoeMessage

LEMMA ServeAckInv == ASSUME Inv, inbox # NoMail, ServeAck(inbox) PROVE Keeps
<1> DEFINE pos == server.pos + rxdata
           key == server.key
           next == [server EXCEPT !.no = inbox.no + 1, !.pos = pos]
           data == FoeMessage("DATA", key, inbox.no + 1, Pieces(key, pos, rxdata))
           refusal == FoeMessage("ERROR", inbox.key, 0, <<>>)
<1>1. inbox.key \in Key /\ inbox.no \in Nat /\ inbox.no + 1 \in Nat
  BY Request DEF ServeAck, Nameless
<1>2. pos \in Nat
  BY Transfer
<1>3. CASE server.op = "READ" /\ Answer(data, next)
  <2>1. key \in Key
    BY <1>3, Transfer
  <2>2. "DATA" \in Plain \ Segments
    BY DEF Plain, Ops, FrameOps, OfFrame, Nameless, Segments
  <2>3. rxdata \in Nat
    OBVIOUS
  <2>4. next \in ServerType
    BY <1>1, <1>2, <1>3, ServerMoves
  <2> HIDE DEF pos, key, next
  <2>5. Pieces(key, pos, rxdata) \in Data
    BY <1>2, <2>1, <2>3, PiecesSeq
  <2>6. data \in Good
    BY <1>1, <2>1, <2>2, <2>5, PlainMessage DEF FoeMessage
  <2> HIDE DEF data
  <2>7. QED
    BY <1>3, <2>4, <2>6, AnswerInv
<1>4. CASE Take(<<>>, Idle, {})
  BY <1>4, None, IdleType, TakeInv
<1>5. CASE Answer(refusal, Idle)
  <2>1. refusal \in Good
    BY <1>1, FoeReply
  <2> HIDE DEF refusal
  <2>2. QED
    BY <1>5, <2>1, IdleType, AnswerInv
<1>6. QED
  BY <1>3, <1>4, <1>5 DEF ServeAck

LEMMA ServeWriteInv == ASSUME Inv, inbox # NoMail, ServeWrite(inbox) PROVE Keeps
<1> DEFINE key == inbox.key
<1>1. key \in Key /\ key \in Name /\ 0 \in Nat
  BY Request DEF ServeWrite, Nameless, Name
<1>2. FoeMessage("ACK", key, 0, <<>>) \in Good
  BY <1>1, FoeReply
<1>3. Server("WRITE", key, 0, 0, <<>>) \in ServerType
  BY <1>1, EmptyData, ServerIsType
<1>4. QED
  BY <1>2, <1>3, AnswerInv DEF ServeWrite

LEMMA ServeDataInv == ASSUME Inv, inbox # NoMail, ServeData(inbox) PROVE Keeps
<1> DEFINE key == server.key
           got == server.data \o inbox.data
           next == [server EXCEPT !.no = inbox.no, !.data = got]
           ack == FoeMessage("ACK", key, inbox.no, <<>>)
           refusal == FoeMessage("ERROR", inbox.key, 0, <<>>)
<1>1. inbox.key \in Key /\ inbox.no \in Nat /\ 0 \in Nat
  BY Request DEF ServeData, Nameless
<1>2. got \in Data
  BY Request, Transfer, ConcatProperties DEF Data
<1>3. CASE server.op = "WRITE" /\ (\/ Answer(ack, next)
                                   \/ Take(<<ack>>, Idle, IF got = Whole(key) THEN {key} ELSE {}))
  <2>1. key \in Key
    BY <1>3, Transfer
  <2>2. ack \in Good
    BY <1>1, <2>1, FoeReply
  <2>3. next \in ServerType
    BY <1>1, <1>2, <1>3, ServerGets
  <2>4. (IF got = Whole(key) THEN {key} ELSE {}) \in SUBSET Key
    BY <2>1
  <2> HIDE DEF ack, next
  <2>5. QED
    BY <1>3, <2>2, <2>3, <2>4, One, IdleType, AnswerInv, TakeInv
<1>4. CASE Answer(refusal, Idle)
  <2>1. refusal \in Good
    BY <1>1, FoeReply
  <2> HIDE DEF refusal
  <2>2. QED
    BY <1>4, <2>1, IdleType, AnswerInv
<1>5. QED
  BY <1>3, <1>4 DEF ServeData

LEMMA ServeBusyInv == ASSUME Inv, inbox # NoMail, ServeBusy(inbox) PROVE Keeps
<1> DEFINE busy == FoeMessage("BUSY", inbox.key, 0, <<>>)
<1>1. inbox.key \in Key /\ 0 \in Nat
  BY Request DEF ServeBusy, Nameless
<1>2. busy \in Good
  BY <1>1, FoeReply
<1>3. troubles' \in 0 .. MaxTrouble /\ Process(<<busy>>, server, {})
  BY DEF ServeBusy, Inv, Port
<1>4. server \in ServerType /\ {} \in SUBSET Key
  BY DEF Inv, Slave
<1> HIDE DEF busy
<1>5. QED
  BY <1>2, <1>3, <1>4, One, ProcessInv

LEMMA FoeInv == Inv /\ ServeFoe => Keeps
BY ServeReadInv, ServeAckInv, ServeWriteInv, ServeDataInv, ServeBusyInv DEF ServeFoe

LEMMA SoeFragmentGood ==
    ASSUME NEW k \in Key, NEW n \in Nat, n * maxdata \in Nat
    PROVE  SoeFragment(k, n) \in Good
<1> DEFINE part == Pieces(k, n * maxdata, maxdata)
           op == IF n * maxdata + Len(part) = size[k] THEN "readres" ELSE "incomplete"
<1>1. part \in Data
  BY PiecesSeq
<1>2. SoeFragment(k, n) = Message("SoE", 0, op, k, 0, part)
  BY DEF SoeFragment, Soe
<1>3. op = "readres" \/ op = "incomplete"
  OBVIOUS
<1> HIDE DEF op, part
<1>4. op \in Plain \ Segments
  BY <1>3 DEF Plain, Ops, FrameOps, OfFrame, Nameless, Segments
<1>5. QED
  BY <1>1, <1>2, <1>4, PlainMessage

LEMMA ReadReqInv == ASSUME Inv, inbox # NoMail, ServeReadReq(inbox) PROVE Keeps
<1> DEFINE key == inbox.key
           parts == (size[key] + maxdata - 1) \div maxdata
           list == [i \in 1 .. parts |-> SoeFragment(key, i - 1)]
<1>1. key \in Key /\ {} \in SUBSET Key
  BY Request DEF ServeReadReq, Nameless
<1>2. DOMAIN list = 1 .. parts /\ list = [i \in DOMAIN list |-> list[i]]
  OBVIOUS
<1>3. ASSUME NEW i \in 1 .. parts PROVE list[i] \in Good
  <2>1. i - 1 \in Nat /\ (i - 1) * maxdata \in Nat
    BY <1>1, Parts
  <2>2. list[i] = SoeFragment(key, i - 1)
    OBVIOUS
  <2> HIDE DEF list, parts, key
  <2>3. QED
    BY <1>1, <2>1, <2>2, SoeFragmentGood
<1>4. Take(list, Idle, {})
  BY DEF ServeReadReq
<1> HIDE DEF list
<1>5. list \in Seq(Good)
  BY <1>1, <1>2, <1>3, PartsSeq
<1>6. QED
  BY <1>1, <1>4, <1>5, IdleType, TakeInv

LEMMA WriteReqInv == ASSUME Inv, inbox # NoMail, ServeWriteReq(inbox) PROVE Keeps
<1> DEFINE before == IF server.op = "SoE" THEN server.data ELSE <<>>
           data == before \o inbox.data
           next == Server("SoE", "none", 0, 0, data)
           done == Soe("writeres", inbox.key, <<>>)
           error == Soe("writeerror", inbox.key, <<>>)
<1>1. before \in Data
  BY Transfer, EmptyData
<1>2. data \in Data
  <2> HIDE DEF before
  <2>1. QED
    BY <1>1, Request, ConcatProperties DEF Data
<1>3. CASE Take(<<>>, next, {})
  <2>1. "none" \in Name /\ 0 \in Nat
    BY DEF Name
  <2> HIDE DEF data
  <2>2. next \in ServerType
    BY <1>2, <2>1, ServerIsType
  <2> HIDE DEF next
  <2>3. QED
    BY <1>3, <2>2, None, TakeInv
<1>4. CASE inbox.op = "writereq" /\ (Finish(done, inbox.key) \/ Answer(error, Idle))
  <2>1. inbox.key \in Key /\ 0 \in Nat
    BY <1>4, Request DEF Nameless
  <2>2. "writeres" \in Plain \ Segments /\ "writeerror" \in Plain \ Segments
    BY DEF Plain, Ops, FrameOps, OfFrame, Nameless, Segments
  <2>3. done \in Good /\ error \in Good
    BY <2>1, <2>2, EmptyData, PlainMessage DEF Soe
  <2> HIDE DEF done, error
  <2>4. QED
    BY <1>4, <2>1, <2>3, IdleType, AnswerInv, FinishInv
<1>5. inbox.op = "writemore" \/ inbox.op = "writereq"
  BY DEF ServeWriteReq
<1>6. QED
  <2>1. CASE inbox.op = "writemore"
    <3>1. Take(<<>>, next, {})
      BY <2>1 DEF ServeWriteReq
    <3>2. QED
      BY <1>3, <3>1
  <2>2. CASE inbox.op = "writereq"
    <3>1. Finish(done, inbox.key) \/ Answer(error, Idle)
      BY <2>2 DEF ServeWriteReq
    <3>2. QED
      BY <1>4, <2>2, <3>1
  <2>3. QED
    BY <1>5, <2>1, <2>2

LEMMA SoeInv == Inv /\ ServeSoe => Keeps
BY ReadReqInv, WriteReqInv DEF ServeSoe

LEMMA ServeFragmentInv == ASSUME Inv, inbox # NoMail, ServeFragment(inbox) PROVE Keeps
<1> DEFINE next == IF inbox.no = 0 THEN Server("EOE", inbox.key, 1, 0, inbox.data)
                   ELSE [server EXCEPT !.no = @ + 1, !.data = @ \o inbox.data]
           follows == inbox.no = 0 \/ (server.op = "EOE" /\ server.key = inbox.key /\ server.no = inbox.no)
<1>1. inbox.key \in Key /\ inbox.key \in Name
  BY Request DEF ServeFragment, Nameless, Name
<1>2. CASE Take(<<>>, Idle, {})
  BY <1>2, None, IdleType, TakeInv
<1>3. CASE Take(<<>>, Idle, {inbox.key})
  BY <1>1, <1>3, None, IdleType, TakeInv
<1>4. CASE follows /\ Take(<<>>, next, {})
  <2>1. next \in ServerType
    <3>1. CASE inbox.no = 0
      <4>1. Server("EOE", inbox.key, 1, 0, inbox.data) \in ServerType
        BY <1>1, Request, ServerIsType
      <4>2. QED
        BY <3>1, <4>1
    <3>2. CASE inbox.no # 0
      <4>1. server.data \o inbox.data \in Data /\ server.no + 1 \in Nat
        BY Request, Transfer, ConcatProperties DEF Data
      <4>2. [server EXCEPT !.no = server.no + 1, !.data = server.data \o inbox.data] \in ServerType
        BY <1>4, <3>2, <4>1, ServerGets
      <4>3. QED
        BY <3>2, <4>2
    <3>3. QED
      BY <3>1, <3>2
  <2> HIDE DEF next
  <2>2. QED
    BY <1>4, <2>1, None, TakeInv
<1>5. QED
  <2> HIDE DEF next
  <2>1. CASE ~follows
    BY <1>2, <2>1 DEF ServeFragment
  <2>2. CASE follows /\ inbox.op = "lastfragment"
    BY <1>3, <2>2 DEF ServeFragment
  <2>3. CASE follows /\ inbox.op # "lastfragment"
    <3>1. Take(<<>>, next, {})
      BY <2>3 DEF ServeFragment, next
    <3>2. QED
      BY <1>4, <2>3, <3>1
  <2>4. QED
    BY <2>1, <2>2, <2>3

LEMMA ServeIpInv == ASSUME Inv, inbox # NoMail, ServeIp(inbox) PROVE Keeps
<1> DEFINE set == EoeMessage("setipres", inbox.key, <<>>)
           get == EoeMessage("getipres", inbox.key, Whole(inbox.key))
<1>1. inbox.key \in Key /\ inbox.key \in Name /\ 0 \in Nat /\ "EoE" \in Types
  BY Request DEF ServeIp, Nameless, Name, Types
<1>2. server \in ServerType
  BY DEF Inv, Slave
<1>3. /\ "setipres" \in Ops /\ "setipres" \notin Segments
      /\ "getipres" \in Ops /\ "getipres" \notin Segments
  BY DEF Ops, Segments
<1>4. set \in Mail /\ get \in Mail
  BY <1>1, <1>3, EmptyData, WholeSeq, MessageIsMail DEF EoeMessage
<1>5. /\ set.op = "setipres" /\ set.no = 0 /\ set.data = <<>>
      /\ get.op = "getipres" /\ get.no = 0 /\ get.data = Whole(inbox.key) /\ get.key = inbox.key
  BY DEF EoeMessage, Message
<1> HIDE DEF set, get
<1>6. set \in Good /\ get \in Good
  BY <1>4, <1>5 DEF Good, Genuine
<1>7. Take(<<set>>, server, {inbox.key}) \/ Answer(get, server)
  BY DEF ServeIp, set, get
<1>8. QED
  BY <1>1, <1>2, <1>6, <1>7, One, AnswerInv, TakeInv

LEMMA EoeInv == Inv /\ ServeEoe => Keeps
BY ServeFragmentInv, ServeIpInv DEF ServeEoe

LEMMA ServeInv == Inv /\ Serve => Keeps
BY CoeInv, ObjectsInv, FoeInv, EoeInv, SoeInv DEF Serve

--------------------------------------------------------------------------------
(* What the functions of the master do to the mailbox. *)

\* A message is sent for a call that waits for that.
LEMMA SendInv ==
    ASSUME Inv, NEW m \in Mail, NEW next, Caller(next), next.step \in Sends, next.op # "EOErecv",
           Send(m), call' = next, UNCHANGED calls
    PROVE  Keeps
<1>1. mbx_cnt' \in Count \cup {0}
  BY DEF Inv, Port, Send, ec_nextmbxcnt, Count
<1>2. MbxOut' \in Mail
  BY <1>1, Numbered DEF Send
<1>3. Slave'
  BY SlaveStays DEF Inv, Send
<1>4. Port'
  BY <1>1, <1>2 DEF Inv, Port, Send, Links
<1>5. Turns'
  BY DEF Inv, Turns, Send
<1>6. Caller(call)'
  BY Zenon DEF Caller, Fits, Received, Beginning, Handed, Whole, Pieces
<1>7. Inv'
  BY <1>3, <1>4, <1>5, <1>6 DEF Inv
<1>8. hook' = hook
  BY DEF Send
<1>9. QED
  BY <1>7, <1>8, HookKept

LEMMA ReceiveInv ==
    ASSUME Inv, NEW t \in Nat, NEW next, Caller(next), Receive(t), call' = next, calls' \in Nat
    PROVE  Keeps
<1>1. Slave'
  BY SlaveStays DEF Inv, Receive
<1>2. Port'
  BY DEF Inv, Port, Receive, Links
<1>3. Turns'
  BY DEF Inv, Turns, Receive
<1>4. Caller(call)'
  BY Zenon DEF Caller, Fits, Received, Beginning, Handed, Whole, Pieces
<1>5. Inv'
  BY <1>1, <1>2, <1>3, <1>4 DEF Inv
<1>6. hook' = hook
  BY DEF Receive
<1>7. QED
  BY <1>5, <1>6, HookKept

LEMMA ProbeInv ==
    ASSUME Inv, NEW next, Caller(next), next.step \in Sends, Probe, call' = next, UNCHANGED calls
    PROVE  Keeps
<1>1. Slave'
  BY SlaveStays DEF Inv, Probe
<1>2. Port'
  BY DEF Inv, Port, Probe, Links
<1>3. Turns'
  BY DEF Inv, Turns, Probe
<1>4. Caller(call)'
  BY Zenon DEF Caller, Fits, Received, Beginning, Handed, Whole, Pieces
<1>5. Inv'
  BY <1>1, <1>2, <1>3, <1>4 DEF Inv
<1>6. hook' = hook
  BY DEF Probe
<1>7. QED
  BY <1>5, <1>6, HookKept

LEMMA LocalInv ==
    ASSUME Inv, link \notin {"empty", "probe", "write"}, NEW next, Caller(next), next.step \in {"start", "ok", "failed"}, Local,
           call' = next, calls' \in Nat
    PROVE  Keeps
<1>1. Slave'
  BY SlaveStays DEF Inv, Local
<1>2. Port'
  BY DEF Inv, Port, Local
<1>3. Turns'
  BY DEF Inv, Turns, Local, Answers
<1>4. Caller(call)'
  BY Zenon DEF Caller, Fits, Received, Beginning, Handed, Whole, Pieces
<1>5. Inv'
  BY <1>1, <1>2, <1>3, <1>4 DEF Inv
<1>6. hook' = hook
  BY DEF Local
<1>7. QED
  BY <1>5, <1>6, HookKept

\* Another step of the same call.
LEMMA Stepped ==
    ASSUME NEW c \in CallType, Fits(c), NEW step \in Steps,
           c.op = "EOErecv" /\ step \in {"start", "fragment"} => Received(c),
           c.op = "EOErecv" /\ step = "ok" => c.data \in {Whole(c.key), <<>>}
    PROVE  /\ Caller([c EXCEPT !.step = step])
           /\ [c EXCEPT !.step = step].step = step /\ [c EXCEPT !.step = step].op = c.op
<1> DEFINE new == [c EXCEPT !.step = step]
<1>1. /\ new \in CallType /\ new.step = step /\ new.op = c.op /\ new.key = c.key
      /\ new.no = c.no /\ new.pos = c.pos /\ new.data = c.data
  BY DEF CallType
<1> HIDE DEF new
<1>2. Fits(new)
  BY <1>1 DEF Fits
<1>3. new.op = "EOErecv" /\ new.step \in {"start", "fragment"} => Received(new)
  BY <1>1 DEF Received
<1>4. Handed(new)
  BY <1>1 DEF Handed
<1>5. QED
  BY <1>1, <1>2, <1>3, <1>4 DEF Caller, new

LEMMA CallFacts ==
    ASSUME Inv
    PROVE  /\ call \in CallType /\ Fits(call) /\ calls \in Nat
           /\ call.no \in Nat /\ call.pos \in Nat /\ call.data \in Data
           /\ call.op # "none" => call.key \in Key
           /\ call.op \in {"SDOread", "SDOwrite"} => call.no \in {0, 1}
BY DEF Inv, Caller, CallType, Port

LEMMA SendAsInv ==
    ASSUME Inv, NEW m \in Mail, NEW next \in CallType, Fits(next), NEW step \in Sends, next.op # "EOErecv",
           SendAs(step, m, next)
    PROVE  Keeps
<1>1. step \in Steps /\ step # "ok"
  BY DEF Steps, Sends
<1>2. /\ Caller([next EXCEPT !.step = step]) /\ [next EXCEPT !.step = step].step = step
      /\ [next EXCEPT !.step = step].op = next.op
  BY <1>1, Stepped
<1>3. QED
  BY <1>2, SendInv DEF SendAs

LEMMA ReceiveAsInv ==
    ASSUME Inv, NEW step \in Answers, ReceiveAs(step),
           call.op = "EOErecv" /\ step \in {"start", "fragment"} => Received(call)
    PROVE  Keeps
<1>1. call \in CallType /\ Fits(call) /\ 1 \in Nat /\ step \in Steps /\ step # "ok"
  BY CallFacts DEF Steps, Answers
<1>2. Caller([call EXCEPT !.step = step])
  BY <1>1, Stepped
<1>3. calls' \in Nat /\ Receive(1) /\ call' = [call EXCEPT !.step = step]
  BY CallFacts DEF ReceiveAs
<1>4. QED
  BY <1>1, <1>2, <1>3, ReceiveInv

LEMMA EndInv ==
    ASSUME Inv, link = "idle", NEW result \in {"ok", "failed"}, NEW next \in CallType, Fits(next),
           next.op = "EOErecv" /\ result = "ok" => next.data \in {Whole(next.key), <<>>}, End(result, next)
    PROVE  Keeps
<1>1. result \in Steps /\ result \notin {"start", "fragment"}
  BY DEF Steps
<1>2. Caller([next EXCEPT !.step = result]) /\ [next EXCEPT !.step = result].step = result
  BY <1>1, Stepped
<1>3. calls' \in Nat /\ Local /\ call' = [next EXCEPT !.step = result]
  BY CallFacts DEF End
<1>4. QED
  BY <1>2, <1>3, LocalInv

LEMMA FailInv == ASSUME Inv, link = "idle", Fail PROVE Keeps
BY CallFacts, EndInv DEF Fail

LEMMA SentInv ==
    ASSUME Inv, NEW op, NEW step, NEW next \in Answers, op # "EOErecv", Sent(op, step, next)
    PROVE  Keeps
BY ReceiveAsInv DEF Sent, At, Steps

LEMMA NotSentInv == ASSUME Inv, NEW op, NEW step, NotSent(op, step) PROVE Keeps
BY FailInv DEF NotSent, At

--------------------------------------------------------------------------------
(* The hook: what ecx_EOEreadfragment does to what was put together so far. *)

\* A genuine fragment is the next part of its frame.
LEMMA GoodFragment ==
    ASSUME NEW m \in Good, m.op \in OfFrame
    PROVE  /\ m.key \in Incoming /\ m.key \in Key /\ m.no \in Nat /\ m.data \in Data
           /\ m.no * maxdata \in Nat /\ m.no * maxdata < size[m.key]
           /\ m.op = "fragment" =>
                 /\ (m.no + 1) * maxdata < size[m.key]
                 /\ Pieces(m.key, 0, m.no * maxdata) \o m.data = Pieces(m.key, 0, (m.no + 1) * maxdata)
           /\ m.op = "lastfragment" => Pieces(m.key, 0, m.no * maxdata) \o m.data = Whole(m.key)
           /\ Len(m.data) \in Nat /\ m.no * maxdata + Len(m.data) <= size[m.key]
<1>1. /\ m.key \in Incoming /\ m = Fragment(m.key, m.no) /\ m.no * maxdata < size[m.key]
      /\ m.no \in Nat /\ m.data \in Data
  BY DEF Good, Genuine, OfFrame, Mail
<1>2. m.key \in Key
  BY <1>1
<1> DEFINE k == m.key
           n == m.no
<1> HIDE DEF k, n
<1>3. k \in Key /\ n \in Nat /\ n * maxdata < size[k] /\ m = Fragment(k, n) /\ k = m.key /\ n = m.no
  BY <1>1, <1>2 DEF k, n
<1>4. n * maxdata \in Nat
  BY <1>3
<1>5. /\ m.op = "fragment" => /\ (n + 1) * maxdata < size[k]
                              /\ Pieces(k, 0, n * maxdata) \o m.data = Pieces(k, 0, (n + 1) * maxdata)
      /\ m.op = "lastfragment" => Pieces(k, 0, n * maxdata) \o m.data = Whole(k)
      /\ Len(m.data) \in Nat /\ n * maxdata + Len(m.data) <= size[k]
  <2>1. k \in Key /\ n \in Nat /\ n * maxdata < size[k] /\ m = Fragment(k, n)
    BY <1>3
  <2>2. m.op = "fragment" => (n + 1) * maxdata < size[k]
    BY <2>1, FragmentFacts
  <2>3. m.op = "fragment" => Pieces(k, 0, n * maxdata) \o m.data = Pieces(k, 0, (n + 1) * maxdata)
    BY <2>1, FragmentJoins, Zenon
  <2>4. m.op = "lastfragment" => Pieces(k, 0, n * maxdata) \o m.data = Whole(k)
    BY <2>1, FragmentJoins, Zenon
  <2>5. Len(m.data) \in Nat /\ n * maxdata + Len(m.data) <= size[k]
    BY <2>1, FragmentFacts
  <2>6. QED
    BY <2>2, <2>3, <2>4, <2>5
<1>6. QED
  BY <1>1, <1>2, <1>3, <1>4, <1>5

LEMMA BeginningFits ==
    ASSUME NEW k \in Key, NEW n \in Nat, NEW data, Beginning(k, n, data)
    PROVE  data \in Data /\ n * maxdata \in Nat /\ Len(data) = n * maxdata
<1>1. n * maxdata \in Nat /\ 0 \in Nat /\ 0 + n * maxdata <= size[k]
  BY DEF Beginning
<1>2. QED
  BY <1>1, PiecesSeq DEF Beginning

LEMMA HookStep ==
    ASSUME NEW h \in HookType, Hooks(h), NEW m \in Good, m.op \in OfFrame
    PROVE  LET new == EOEreadfragment(h, m)
           IN /\ new \in HookType /\ Hooks(new)
              /\ new.frame = h.frame
                 \/ (HookHasRoom => new.frame.data = Whole(new.frame.key))
<1> DEFINE reset == [h EXCEPT !.no = 0, !.key = "none", !.data = <<>>]
           start == IF h.no = m.no THEN h ELSE reset
           data == start.data \o m.data
           fits == Len(data) <= size[m.key] /\ Len(data) <= psize
           more1 == [start EXCEPT !.no = @ + 1, !.key = m.key, !.data = data]
           full == [start EXCEPT !.key = m.key]
           got == IF fits THEN more1 ELSE full
           frame == [reset EXCEPT !.frame = [key |-> m.key, data |-> got.data]]
           strange == start.key # m.key \/ m.no * maxdata # Len(start.data)
           new == EOEreadfragment(h, m)
<1>1. \/ new = start
      \/ new = reset
      \/ /\ m.no = start.no /\ ~(start.no > 0 /\ strange)
         /\ m.op = "fragment" /\ new = got
      \/ /\ m.no = start.no /\ ~(start.no > 0 /\ strange)
         /\ m.op = "lastfragment" /\ new = frame
  <2>1. CASE m.no # start.no
    BY <2>1 DEF EOEreadfragment
  <2>2. CASE m.no = start.no /\ start.no > 0 /\ strange
    BY <2>2 DEF EOEreadfragment
  <2>3. CASE m.no = start.no /\ ~(start.no > 0 /\ strange)
    BY <2>3 DEF EOEreadfragment, OfFrame
  <2>4. QED
    BY <2>1, <2>2, <2>3
<1>2. reset \in HookType /\ reset.no = 0 /\ reset.data = <<>> /\ reset.frame = h.frame
  BY EmptyData DEF HookType, Name
<1> HIDE DEF reset
<1>3. start \in HookType /\ Hooks(start) /\ start.frame = h.frame /\ start.no \in Nat /\ start.data \in Data
  <2>1. Hooks(reset)
    BY <1>2 DEF Hooks
  <2>2. start \in HookType /\ Hooks(start) /\ start.frame = h.frame
    BY <1>2, <2>1
  <2> HIDE DEF start
  <2>3. QED
    BY <2>2 DEF HookType
<1> HIDE DEF start
<1>4. CASE new = start \/ new = reset
  BY <1>2, <1>3, <1>4 DEF Hooks
<1>5. ASSUME m.no = start.no, ~(start.no > 0 /\ strange)
      PROVE  start.data = Pieces(m.key, 0, m.no * maxdata)
  <2>1. CASE start.no = 0
    <3>1. m.no = 0 /\ m.key \in Key /\ start.data = <<>>
      BY <1>3, <1>5, <2>1, GoodFragment DEF Hooks
    <3>2. m.no * maxdata = 0
      BY <3>1
    <3>3. QED
      BY <3>1, <3>2, NoPieces
  <2>2. CASE start.no # 0
    <3>1. start.no > 0 /\ Beginning(start.key, start.no, start.data)
      BY <1>3, <2>2 DEF Hooks
    <3>2. QED
      BY <1>5, <3>1 DEF Beginning
  <2>3. QED
    BY <2>1, <2>2
<1>6. data \in Data
  BY <1>3, GoodFragment, ConcatProperties DEF Data
<1>7. more1 \in HookType /\ more1.no = start.no + 1 /\ more1.key = m.key /\ more1.data = data
           /\ more1.frame = start.frame
      /\ full \in HookType /\ full.no = start.no /\ full.key = m.key /\ full.data = start.data
           /\ full.frame = start.frame
  <2> HIDE DEF data
  <2>1. m.key \in Name
    BY GoodFragment DEF Name
  <2>2. /\ more1 \in HookType /\ more1.no = start.no + 1 /\ more1.key = m.key /\ more1.data = data
        /\ more1.frame = start.frame
    <3>1. start.no + 1 \in Nat
      BY <1>3
    <3>2. more1 = [start EXCEPT !.no = start.no + 1, !.key = m.key, !.data = data]
      OBVIOUS
    <3> HIDE DEF more1
    <3>3. QED
      BY <1>3, <1>6, <2>1, <3>1, <3>2 DEF HookType
  <2>3. /\ full \in HookType /\ full.no = start.no /\ full.key = m.key /\ full.data = start.data
        /\ full.frame = start.frame
    BY <1>3, <2>1 DEF HookType
  <2>4. QED
    BY <2>2, <2>3
<1> HIDE DEF more1, full
<1>8. CASE /\ m.no = start.no /\ ~(start.no > 0 /\ strange)
           /\ m.op = "fragment" /\ new = got
  <2>1. start.data = Pieces(m.key, 0, m.no * maxdata)
    BY <1>5, <1>8
  <2>2. data = Pieces(m.key, 0, (m.no + 1) * maxdata) /\ (m.no + 1) * maxdata < size[m.key]
    BY <1>8, <2>1, GoodFragment
  <2>3. m.key \in Incoming /\ m.no \in Nat
    BY GoodFragment
  <2>4. CASE new = more1
    <3>1. Hooks(more1)
      BY <1>3, <1>7, <1>8, <2>2, <2>3 DEF Hooks, Beginning
    <3>2. QED
      BY <1>3, <1>7, <2>4, <3>1
  <2>5. CASE new = full
    <3>1. Hooks(full)
      <4>1. CASE start.no = 0
        BY <1>3, <1>7, <4>1 DEF Hooks
      <4>2. CASE start.no # 0
        <5>1. start.key = m.key /\ Beginning(start.key, start.no, start.data)
          BY <1>3, <1>8, <4>2 DEF Hooks
        <5>2. QED
          BY <1>7, <2>3, <4>2, <5>1 DEF Hooks
      <4>3. QED
        BY <4>1, <4>2
    <3>2. QED
      BY <1>3, <1>7, <2>5, <3>1
  <2>6. QED
    BY <1>8, <2>4, <2>5
<1>9. CASE /\ m.no = start.no /\ ~(start.no > 0 /\ strange)
           /\ m.op = "lastfragment" /\ new = frame
  <2>1. start.data = Pieces(m.key, 0, m.no * maxdata)
    BY <1>5, <1>9
  <2>2. data = Whole(m.key) /\ m.key \in Incoming /\ m.key \in Key /\ m.key \in Name
    BY <1>9, <2>1, GoodFragment DEF Name
  <2>3. Len(data) = size[m.key] /\ size[m.key] \in Nat
    BY <2>2, WholeSeq
  <2>4. HookHasRoom => fits
    <3> HIDE DEF data
    <3>1. QED
      BY <2>2, <2>3 DEF HookHasRoom
  <2>5. got.data \in Data /\ (HookHasRoom => got.data = data)
    <3> HIDE DEF data, fits
    <3>1. QED
      BY <1>3, <1>6, <1>7, <2>4
  <2> HIDE DEF got, data
  <2>6. /\ frame \in HookType /\ frame.no = 0 /\ frame.data = <<>>
        /\ frame.frame.key = m.key /\ frame.frame.data = got.data
    BY <1>2, <2>2, <2>5 DEF HookType
  <2> HIDE DEF frame
  <2>7. QED
    BY <1>9, <2>2, <2>5, <2>6 DEF Hooks
<1> HIDE DEF got, frame
<1>10. QED
  BY <1>1, <1>4, <1>8, <1>9

--------------------------------------------------------------------------------
(* The functions of the mailbox. *)

LEMMA CallerStays == ASSUME Caller(call), call' = call PROVE Caller(call)'
BY Zenon DEF Caller, Fits, Received, Beginning, Handed, Whole, Pieces

LEMMA HookStays == ASSUME hook \in HookType, Hooks(hook), hook' = hook PROVE hook' \in HookType /\ Hooks(hook')
OBVIOUS

LEMMA HooksNext == ASSUME Hooks(hook') PROVE Hooks(hook)'
BY DEF Hooks, Beginning, Pieces

LEMMA ExpireInv == Inv /\ Expire => Keeps
<1> SUFFICES ASSUME Inv, Expire PROVE Keeps
  OBVIOUS
<1>1. Slave'
  BY SlaveStays DEF Inv, Expire
<1>2. Port'
  BY DEF Inv, Port, Expire, caller
<1>3. Turns'
  BY DEF Inv, Turns, Expire, caller
<1>4. Inv'
  BY <1>1, <1>2, <1>3, CallerStays DEF Inv, Expire, caller
<1>5. hook' = hook
  BY DEF Expire
<1>6. QED
  BY <1>4, <1>5, HookKept

LEMMA EmptyInv == Inv /\ MailboxEmpty => Keeps
<1> SUFFICES ASSUME Inv, MailboxEmpty PROVE Keeps
  OBVIOUS
<1>1. Slave'
  BY SlaveStays DEF Inv, MailboxEmpty
<1>2. Port'
  <2>1. link' \in Links /\ wkc' \in {0, 1} /\ expired' \in BOOLEAN /\ SMstat' \in BOOLEAN
    BY DEF Inv, Slave, Port, MailboxEmpty, Goto, Return, Links
  <2>2. troubles' \in 0 .. MaxTrouble
    BY DEF Inv, Port, MailboxEmpty, Arrive, Lose
  <2>3. QED
    BY <2>1, <2>2 DEF Inv, Port, MailboxEmpty, caller
<1>3. Turns'
  BY DEF Inv, Turns, MailboxEmpty, caller, Goto, Return, Sends, Answers
<1>4. Inv'
  BY <1>1, <1>2, <1>3, CallerStays DEF Inv, MailboxEmpty, caller
<1>5. hook' = hook
  BY DEF MailboxEmpty
<1>6. QED
  BY <1>4, <1>5, HookKept

LEMMA WriteInv == Inv /\ MailboxWrite => Keeps
<1> SUFFICES ASSUME Inv, MailboxWrite PROVE Keeps
  OBVIOUS
<1>1. inbox' \in Mail \cup {NoMail}
  BY DEF Inv, Slave, Port, MailboxWrite, Placed
<1>2. Slave'
  BY <1>1 DEF Inv, Slave, MailboxWrite, inside
<1>3. Port'
  <2>1. link' \in Links /\ wkc' \in {0, 1} /\ expired' \in BOOLEAN /\ SMstat' \in BOOLEAN
    BY DEF Inv, Slave, Port, MailboxWrite, Goto, Return, Links
  <2>2. troubles' \in 0 .. MaxTrouble
    BY DEF Inv, Port, MailboxWrite, Arrive, Lose
  <2>3. QED
    BY <2>1, <2>2 DEF Inv, Port, MailboxWrite, caller
<1>4. Turns'
  BY DEF Inv, Turns, MailboxWrite, caller, Return, Sends, Answers
<1>5. Inv'
  BY <1>2, <1>3, <1>4, CallerStays DEF Inv, MailboxWrite, caller
<1>6. hook' = hook
  BY DEF MailboxWrite
<1>7. QED
  BY <1>5, <1>6, HookKept

LEMMA WaitInv == Inv /\ WaitAvailable => Keeps
<1> SUFFICES ASSUME Inv, WaitAvailable PROVE Keeps
  OBVIOUS
<1>1. Slave'
  BY SlaveStays DEF Inv, WaitAvailable
<1>2. Port'
  <2>1. link' \in Links /\ wkc' \in {0, 1} /\ expired' \in BOOLEAN /\ SMstat' \in BOOLEAN
    BY DEF Inv, Slave, Port, WaitAvailable, Goto, Return, Links
  <2>2. troubles' \in 0 .. MaxTrouble
    BY DEF Inv, Port, WaitAvailable, Arrive, Lose
  <2>3. QED
    BY <2>1, <2>2 DEF Inv, Port, WaitAvailable, caller
<1>3. Turns'
  BY DEF Inv, Turns, WaitAvailable, caller, Goto, Return, Sends, Answers
<1>4. Inv'
  BY <1>1, <1>2, <1>3, CallerStays DEF Inv, WaitAvailable, caller
<1>5. hook' = hook
  BY DEF WaitAvailable
<1>6. QED
  BY <1>4, <1>5, HookKept

LEMMA LostInv == Inv /\ ReadLost => Keeps
<1> SUFFICES ASSUME Inv, ReadLost PROVE Keeps
  OBVIOUS
<1>1. Slave'
  BY DEF Inv, Slave, ReadLost, ReadOut, inside
<1>2. Port'
  BY DEF Inv, Port, ReadLost, caller, Goto, Arrive, Lose, Links
<1>3. Turns'
  BY DEF Inv, Turns, ReadLost, caller, Goto
<1>4. Inv'
  BY <1>1, <1>2, <1>3, CallerStays DEF Inv, ReadLost, caller
<1>5. hook' = hook
  BY DEF ReadLost
<1>6. QED
  BY <1>4, <1>5, HookKept

LEMMA ToggleInv == Inv /\ ToggleRepeat => Keeps
<1> SUFFICES ASSUME Inv, ToggleRepeat PROVE Keeps
  OBVIOUS
<1>1. sm1' \in [request : BOOLEAN, ack : BOOLEAN]
  <2>1. SMstat' \in BOOLEAN
    BY DEF Inv, Port, ToggleRepeat
  <2>2. [sm1 EXCEPT !.request = SMstat'] \in [request : BOOLEAN, ack : BOOLEAN]
    BY <2>1 DEF Inv, Slave
  <2>3. QED
    BY <2>2 DEF Inv, Slave, ToggleRepeat
<1>2. Slave'
  BY <1>1 DEF Inv, Slave, ToggleRepeat, inside
<1>3. Port'
  BY DEF Inv, Port, ToggleRepeat, caller, Goto, Arrive, Lose, Links
<1>4. Turns'
  BY DEF Inv, Turns, ToggleRepeat, caller, Goto
<1>5. Inv'
  BY <1>2, <1>3, <1>4, CallerStays DEF Inv, ToggleRepeat, caller
<1>6. hook' = hook
  BY DEF ToggleRepeat
<1>7. QED
  BY <1>5, <1>6, HookKept

LEMMA AckInv == Inv /\ WaitToggleAck => Keeps
<1> SUFFICES ASSUME Inv, WaitToggleAck PROVE Keeps
  OBVIOUS
<1>1. Slave'
  BY SlaveStays DEF Inv, WaitToggleAck
<1>2. Port'
  BY DEF Inv, Port, WaitToggleAck, caller, Goto, Links
<1>3. Turns'
  BY DEF Inv, Turns, WaitToggleAck, caller, Goto
<1>4. Inv'
  BY <1>1, <1>2, <1>3, CallerStays DEF Inv, WaitToggleAck, caller
<1>5. hook' = hook
  BY DEF WaitToggleAck
<1>6. QED
  BY <1>4, <1>5, HookKept

LEMMA WaitAgainInv == Inv /\ WaitAgain => Keeps
<1> SUFFICES ASSUME Inv, WaitAgain PROVE Keeps
  OBVIOUS
<1>1. Slave'
  BY SlaveStays DEF Inv, WaitAgain
<1>2. Port'
  BY DEF Inv, Slave, Port, WaitAgain, caller, Again, Goto, Return, Links
<1>3. Turns'
  BY DEF Inv, Turns, WaitAgain, caller, Again, Goto, Return
<1>4. Inv'
  BY <1>1, <1>2, <1>3, CallerStays DEF Inv, WaitAgain, caller
<1>5. hook' = hook
  BY DEF WaitAgain
<1>6. QED
  BY <1>4, <1>5, HookKept

\* What is read is a message of the slave; a fragment goes to the hook.
LEMMA ReadInv ==
    ASSUME Inv, ReadMailbox
    PROVE  Keeps
<1>1. outbox \in Good /\ outbox # NoMail
  BY DEF Inv, Slave, ReadMailbox, ReadOut
<1>2. Slave'
  BY <1>1 DEF Inv, Slave, ReadMailbox, ReadOut, inside
<1>3. /\ hook' \in HookType /\ Hooks(hook')
      /\ hook'.frame = hook.frame \/ (HookHasRoom => hook'.frame.data = Whole(hook'.frame.key))
  <2>1. CASE Hooked(outbox)
    <3>1. outbox.op \in OfFrame
      BY <2>1 DEF Hooked, OfFrame
    <3>2. hook' = EOEreadfragment(hook, outbox)
      BY <2>1 DEF ReadMailbox
    <3>3. QED
      BY <1>1, <3>1, <3>2, HookStep DEF Inv, Port
  <2>2. CASE ~Hooked(outbox)
    <3>1. hook' = hook
      BY <2>2 DEF ReadMailbox
    <3>2. QED
      BY <3>1 DEF Inv, Port
  <2>3. QED
    BY <2>1, <2>2
<1>4. elist' \in [1 .. MaxTrouble -> 0 .. 2]
  <2>1. elist \in [1 .. MaxTrouble -> 0 .. 2]
    BY DEF Inv, Port
  <2>2. CASE elist' = elist
    BY <2>1, <2>2
  <2>3. CASE elist[outbox.no] < 2 /\ elist' = [elist EXCEPT ![outbox.no] = @ + 1]
    <3>1. ASSUME NEW n \in 1 .. MaxTrouble
          PROVE  (IF n = outbox.no THEN elist[outbox.no] + 1 ELSE elist[n]) \in 0 .. 2
      BY <2>1, <2>3
    <3>2. elist' = [n \in 1 .. MaxTrouble |-> IF n = outbox.no THEN elist[outbox.no] + 1 ELSE elist[n]]
      BY <2>1, <2>3
    <3>3. QED
      BY <3>1, <3>2
  <2>4. QED
    BY <2>2, <2>3 DEF ReadMailbox
<1>5. Port'
  <2>1. /\ link' \in Links /\ wkc' \in {0, 1} /\ expired' \in BOOLEAN
    BY DEF Inv, Port, ReadMailbox, Again, Goto, Return, Links
  <2>2. /\ SMstat' = SMstat /\ MbxOut' = MbxOut /\ mbx_cnt' = mbx_cnt /\ calls' = calls /\ troubles' = troubles
        /\ MbxIn' = outbox
    BY DEF ReadMailbox, Arrive, caller
  <2>3. Hooks(hook)'
    BY <1>3, HooksNext
  <2>4. QED
    BY <1>1, <1>3, <1>4, <2>1, <2>2, <2>3 DEF Inv, Port
<1>6. Turns'
  BY <1>1 DEF Inv, Turns, ReadMailbox, Again, Goto, Return, caller
<1>7. HookHasRoom /\ HandedWhole => HandedWhole'
  <2>1. SUFFICES ASSUME HookHasRoom, HandedWhole PROVE HandedWhole'
    OBVIOUS
  <2>2. hook'.frame.key # "none" => hook'.frame.data = Whole(hook'.frame.key)
    BY <1>3, <2>1 DEF HandedWhole
  <2>3. Handed(call')
    BY DEF ReadMailbox, caller, Inv, Caller
  <2>4. QED
    BY <2>2, <2>3 DEF HandedWhole, Handed, Whole, Pieces
<1>8. Inv'
  BY <1>2, <1>5, <1>6, CallerStays DEF Inv, ReadMailbox, caller
<1>9. QED
  BY <1>7, <1>8 DEF Keeps

LEMMA LinkInv == Inv /\ Link => Keeps
BY EmptyInv, WriteInv, WaitInv, ReadInv, LostInv, ToggleInv, AckInv, WaitAgainInv DEF Link

--------------------------------------------------------------------------------
(* The calls of the master. *)

\* What a call is after one of its variables has changed.
LEMMA CallData ==
    ASSUME NEW c \in CallType, NEW data \in Data
    PROVE  LET new == [c EXCEPT !.data = data]
           IN /\ new \in CallType /\ new.op = c.op /\ new.key = c.key /\ new.no = c.no
              /\ new.pos = c.pos /\ new.data = data /\ new.step = c.step
BY DEF CallType

LEMMA CallNo ==
    ASSUME NEW c \in CallType, NEW no \in Nat, c.op \in {"SDOread", "SDOwrite"} => no \in {0, 1}
    PROVE  LET new == [c EXCEPT !.no = no]
           IN new \in CallType /\ new.op = c.op /\ new.data = c.data /\ new.no = no
BY DEF CallType

LEMMA CallPos ==
    ASSUME NEW c \in CallType, NEW pos \in Nat
    PROVE  LET new == [c EXCEPT !.pos = pos] IN new \in CallType /\ new.op = c.op /\ new.data = c.data
BY DEF CallType

LEMMA CallNoPos ==
    ASSUME NEW c \in CallType, NEW no \in Nat, NEW pos \in Nat, c.op \in {"SDOread", "SDOwrite"} => no \in {0, 1}
    PROVE  LET new == [c EXCEPT !.no = no, !.pos = pos]
           IN new \in CallType /\ new.op = c.op /\ new.data = c.data
BY DEF CallType

LEMMA CallNoData ==
    ASSUME NEW c \in CallType, NEW no \in Nat, NEW data \in Data, c.op \in {"SDOread", "SDOwrite"} => no \in {0, 1}
    PROVE  LET new == [c EXCEPT !.no = no, !.data = data]
           IN new \in CallType /\ new.op = c.op /\ new.data = data
BY DEF CallType

LEMMA FreeFits == ASSUME NEW c, c.op \notin {"SoEread", "readODlist", "FOEread", "EOErecv"} PROVE Fits(c)
BY DEF Fits

\* What a call that has received something finds in its buffer.
LEMMA Received1 ==
    ASSUME Inv, link = "idle", wkc > 0, call.step \in Answers
    PROVE  /\ MbxIn \in Good /\ MbxIn \in Mail /\ MbxIn.data \in Data /\ Len(MbxIn.data) \in Nat /\ MbxIn.no \in Nat
           /\ MbxIn.op \in Ops /\ (MbxIn.op \notin Nameless => MbxIn.key \in Key)
<1>1. MbxIn \in Good
  BY DEF Inv, Port, Turns
<1>2. MbxIn \in Mail
  BY <1>1 DEF Good
<1>3. MbxIn.data \in Data
  BY <1>2 DEF Mail
<1>4. Len(MbxIn.data) \in Nat
  BY <1>3, LenProperties DEF Data
<1>5. QED
  BY <1>1, <1>2, <1>3, <1>4 DEF Mail

LEMMA GoodIsMail == Good \subseteq Mail
BY DEF Good

\* A function that sends a message about its object.
LEMMA AskInv ==
    ASSUME Inv, NEW step \in Sends, NEW type \in {"CoE", "SoE", "FoE"}, NEW op \in Plain, NEW no \in Nat,
           NEW data \in Data, NEW next \in CallType, Fits(next), next.op # "EOErecv", call.op # "none",
           op \in Segments => no \in {0, 1},
           SendAs(step, Message(type, 0, op, call.key, no, data), next)
    PROVE  Keeps
<1>1. call.key \in Key
  BY CallFacts
<1> DEFINE m == Message(type, 0, op, call.key, no, data)
<1>2. m \in Mail
  BY <1>1, PlainMessage, GoodIsMail
<1> HIDE DEF m
<1>3. SendAs(step, m, next)
  BY DEF m
<1>4. QED
  BY <1>2, <1>3, SendAsInv

\* The first message of a call.
LEMMA StartInv ==
    ASSUME Inv, NEW step \in Sends, NEW type \in {"CoE", "SoE", "FoE"}, NEW op \in Plain \ Segments, NEW no \in Nat,
           NEW data \in Data, call.op \notin {"none", "EOErecv"},
           SendAs(step, Message(type, 0, op, call.key, no, data), call)
    PROVE  Keeps
BY CallFacts, AskInv

LEMMA RequestSegmentInv ==
    ASSUME Inv, call.op = "SDOread", NEW next \in CallType, next.op = "SDOread", RequestSegment(next)
    PROVE  Keeps
<1>1. next.no \in {0, 1} /\ next.no \in Nat /\ Fits(next)
  BY FreeFits DEF CallType
<1>2. "uploadseg" \in Plain /\ "segmentsent" \in Sends
  BY DEF Plain, Ops, FrameOps, OfFrame, Nameless, Segments, Sends
<1>3. QED
  BY <1>1, <1>2, EmptyData, AskInv DEF RequestSegment, Coe

LEMMA ToggledCall ==
    ASSUME NEW c \in CallType, c.op = "SDOread"
    PROVE  Toggled(c) \in CallType /\ Toggled(c).op = "SDOread"
<1>1. 1 - c.no \in {0, 1} /\ 1 - c.no \in Nat
  BY DEF CallType
<1>2. Toggled(c) = [c EXCEPT !.no = 1 - c.no]
  BY DEF Toggled
<1>3. QED
  BY <1>1, <1>2, CallNo

LEMMA ReadSdoInv == Inv /\ ReadSdo => Keeps
<1> SUFFICES ASSUME Inv, ReadSdo PROVE Keeps
  OBVIOUS
<1>1. CASE SDOread
  <2>1. "upload" \in Plain \ Segments /\ "sent" \in Sends
    BY DEF Plain, Ops, FrameOps, OfFrame, Nameless, Segments, Sends
  <2>2. QED
    BY <1>1, <2>1, EmptyData, StartInv DEF SDOread, At, Coe
<1>2. CASE SDOreadAnswered
  BY <1>2, SentInv DEF SDOreadAnswered, Answers
<1>3. CASE SDOreadNotSent
  BY <1>3, NotSentInv DEF SDOreadNotSent
<1>4. CASE SDOreadResponse
  <2> DEFINE read == [call EXCEPT !.data = MbxIn.data]
  <2>1. call.op = "SDOread" /\ link = "idle" /\ call \in CallType
    BY <1>4, CallFacts DEF SDOreadResponse, At
  <2>2. CASE Fail
    BY <2>1, <2>2, FailInv
  <2>3. CASE wkc > 0 /\ (End("ok", read) \/ RequestSegment(read))
    <3>1. MbxIn.data \in Data
      BY <1>4, <2>3, Received1 DEF SDOreadResponse, At, Answers
    <3>2. read \in CallType /\ read.op = "SDOread"
      BY <2>1, <3>1, CallData
    <3>3. Fits(read)
      BY <3>2, FreeFits
    <3> HIDE DEF read
    <3>4. QED
      BY <2>1, <2>3, <3>2, <3>3, EndInv, RequestSegmentInv
  <2>4. QED
    BY <1>4, <2>2, <2>3 DEF SDOreadResponse
<1>5. CASE SDOreadSegmentSent
  BY <1>5, SentInv DEF SDOreadSegmentSent, Answers
<1>6. CASE SDOreadNoSegment
  <2>1. call.op = "SDOread" /\ call \in CallType /\ RequestSegment(Toggled(call))
    BY <1>6, CallFacts DEF SDOreadNoSegment, At
  <2>2. QED
    BY <2>1, ToggledCall, RequestSegmentInv
<1>7. CASE SDOreadSegment
  <2> DEFINE read == [call EXCEPT !.data = call.data \o MbxIn.data]
  <2>1. call.op = "SDOread" /\ link = "idle" /\ call \in CallType
    BY <1>7, CallFacts DEF SDOreadSegment, At
  <2>2. MbxIn.data \in Data
    BY <1>7, Received1 DEF SDOreadSegment, At, Answers
  <2>3. call.data \o MbxIn.data \in Data
    BY <2>2, CallFacts, ConcatProperties DEF Data
  <2>4. read \in CallType /\ read.op = "SDOread"
    BY <2>1, <2>3, CallData
  <2>5. Fits(read)
    BY <2>4, FreeFits
  <2>6. Fail \/ End("ok", read) \/ RequestSegment(Toggled(read))
    BY <1>7 DEF SDOreadSegment
  <2> HIDE DEF read
  <2>7. Toggled(read) \in CallType /\ Toggled(read).op = "SDOread"
    BY <2>4, ToggledCall
  <2>8. QED
    BY <2>1, <2>4, <2>5, <2>6, <2>7, FailInv, EndInv, RequestSegmentInv
<1>8. QED
  BY <1>1, <1>2, <1>3, <1>4, <1>5, <1>6, <1>7 DEF ReadSdo

LEMMA NextSegmentInv ==
    ASSUME Inv, call.op = "SDOwrite", NEW no \in {0, 1}, NextSegment(no)
    PROVE  Keeps
<1> DEFINE part == Pieces(call.key, call.pos, maxdata + more)
           end == call.pos + Len(part)
           op == IF end = size[call.key] THEN "lastdownloadseg" ELSE "downloadseg"
           m == Coe(op, "none", no, part)
           next == [call EXCEPT !.pos = end, !.no = no]
<1>1. call \in CallType /\ call.key \in Key /\ call.pos \in Nat /\ no \in Nat /\ maxdata + more \in Nat
  BY CallFacts
<1>2. part \in Data
  BY <1>1, PiecesSeq
<1>3. SendAs("segmentsent", m, next)
  BY DEF NextSegment
<1>4. op = "lastdownloadseg" \/ op = "downloadseg"
  OBVIOUS
<1>5. end \in Nat
  <2>1. Len(part) \in Nat
    BY <1>2, LenProperties DEF Data
  <2> HIDE DEF part
  <2>2. QED
    BY <1>1, <2>1
<1> HIDE DEF part, end, op
<1>6. op \in Ops /\ op \in Nameless /\ "CoE" \in Types /\ "none" \in Name /\ "segmentsent" \in Sends
  BY <1>4 DEF Ops, Segments, Nameless, Types, Name, Sends
<1>7. m \in Mail
  BY <1>1, <1>2, <1>6, MessageIsMail DEF Coe
<1>8. next \in CallType /\ next.op = "SDOwrite"
  BY <1>1, <1>5 DEF CallType
<1> HIDE DEF m, next
<1>9. Fits(next)
  BY <1>8, FreeFits
<1>10. QED
  BY <1>3, <1>6, <1>7, <1>8, <1>9, SendAsInv

LEMMA WriteSdoInv == Inv /\ WriteSdo => Keeps
<1> SUFFICES ASSUME Inv, WriteSdo PROVE Keeps
  OBVIOUS
<1>1. CASE SDOwrite
  <2> DEFINE first == Pieces(call.key, 0, maxdata)
             next == [call EXCEPT !.pos = Len(first)]
  <2>1. call.op = "SDOwrite" /\ call.key \in Key /\ call \in CallType /\ size[call.key] \in Nat
    BY <1>1, CallFacts DEF SDOwrite, At
  <2>2. first \in Data /\ Len(first) \in Nat
    <3>1. first \in Data
      BY <2>1, PiecesSeq
    <3>2. QED
      BY <3>1, LenProperties DEF Data
  <2>3. "download" \in Plain \ Segments /\ "sent" \in Sends
    BY DEF Plain, Ops, FrameOps, OfFrame, Nameless, Segments, Sends
  <2>4. SendAs("sent", Coe("download", call.key, size[call.key], first), next)
    BY <1>1 DEF SDOwrite
  <2> HIDE DEF first
  <2>5. next \in CallType /\ next.op = "SDOwrite"
    BY <2>1, <2>2, CallPos
  <2> HIDE DEF next
  <2>6. Fits(next)
    BY <2>5, FreeFits
  <2>7. QED
    BY <2>1, <2>2, <2>3, <2>4, <2>5, <2>6, AskInv DEF Coe
<1>2. CASE SDOwriteAnswered
  BY <1>2, SentInv DEF SDOwriteAnswered, Answers
<1>3. CASE SDOwriteNotSent
  BY <1>3, NotSentInv DEF SDOwriteNotSent
<1>4. CASE SDOwriteResponse
  <2>1. call.op = "SDOwrite" /\ link = "idle" /\ call \in CallType /\ Fits(call)
    BY <1>4, CallFacts DEF SDOwriteResponse, At
  <2>2. End("ok", call) \/ NextSegment(0) \/ Fail
    BY <1>4 DEF SDOwriteResponse
  <2>3. QED
    BY <2>1, <2>2, EndInv, FailInv, NextSegmentInv
<1>5. CASE SDOwriteSegmentSent
  BY <1>5, SentInv DEF SDOwriteSegmentSent, Answers
<1>6. CASE SDOwriteSegmentNotSent
  <2>1. call.op = "SDOwrite" /\ link = "idle" /\ 1 - call.no \in {0, 1}
    BY <1>6, CallFacts DEF SDOwriteSegmentNotSent, At
  <2>2. Fail \/ NextSegment(1 - call.no)
    BY <1>6 DEF SDOwriteSegmentNotSent
  <2>3. QED
    BY <2>1, <2>2, FailInv, NextSegmentInv
<1>7. CASE SDOwriteSegment
  <2>1. call.op = "SDOwrite" /\ link = "idle" /\ 1 - call.no \in {0, 1} /\ call \in CallType /\ Fits(call)
    BY <1>7, CallFacts DEF SDOwriteSegment, At
  <2>2. Fail \/ NextSegment(1 - call.no) \/ End("ok", call) \/ End("failed", call)
    BY <1>7 DEF SDOwriteSegment
  <2>3. QED
    BY <2>1, <2>2, FailInv, EndInv, NextSegmentInv
<1>8. QED
  BY <1>1, <1>2, <1>3, <1>4, <1>5, <1>6, <1>7 DEF WriteSdo

LEMMA PdoCallInv == Inv /\ Pdo => Keeps
<1> SUFFICES ASSUME Inv, Pdo PROVE Keeps
  OBVIOUS
<1> USE DEF At
<1>1. "sent" \in Sends /\ "answer" \in Answers
  BY DEF Sends, Answers
<1>2. CASE RxPDO
  <2>1. "rxpdo" \in Plain \ Segments /\ call.op = "RxPDO"
    BY <1>2 DEF Plain, Ops, FrameOps, OfFrame, Nameless, Segments, RxPDO, Ask
  <2>2. Pieces(call.key, 0, maxdata) \in Data
    BY <2>1, CallFacts, PiecesSeq
  <2>3. QED
    BY <1>1, <1>2, <2>1, <2>2, StartInv DEF RxPDO, Ask, Coe
<1>3. CASE RxPDOEnds
  <2>1. call.op = "RxPDO" /\ link = "idle" /\ (End("ok", call) \/ End("failed", call))
    BY <1>3 DEF RxPDOEnds
  <2>2. QED
    BY <2>1, CallFacts, EndInv
<1>4. CASE TxPDO
  <2>1. "txpdorr" \in Plain \ Segments /\ call.op = "TxPDO"
    BY <1>4 DEF Plain, Ops, FrameOps, OfFrame, Nameless, Segments, TxPDO, Ask
  <2>2. QED
    BY <1>1, <1>4, <2>1, EmptyData, StartInv DEF TxPDO, Ask, Coe
<1>5. CASE TxPDOSent
  BY <1>1, <1>5, SentInv DEF TxPDOSent
<1>6. CASE TxPDONotSent
  BY <1>6, NotSentInv DEF TxPDONotSent
<1>7. CASE TxPDOAnswer
  <2> DEFINE read == [call EXCEPT !.data = MbxIn.data]
  <2>1. call.op = "TxPDO" /\ link = "idle" /\ call \in CallType
    BY <1>7, CallFacts DEF TxPDOAnswer
  <2>2. CASE Fail
    BY <2>1, <2>2, FailInv
  <2>3. CASE wkc > 0 /\ End("ok", read)
    <3>1. MbxIn.data \in Data
      BY <1>1, <1>7, <2>3, Received1 DEF TxPDOAnswer
    <3>2. read \in CallType /\ read.op = "TxPDO"
      BY <2>1, <3>1, CallData
    <3> HIDE DEF read
    <3>3. QED
      BY <2>1, <2>3, <3>2, FreeFits, EndInv
  <2>4. QED
    BY <1>7, <2>2, <2>3 DEF TxPDOAnswer, Answered
<1>8. QED
  BY <1>2, <1>3, <1>4, <1>5, <1>6, <1>7 DEF Pdo

\* What is cut fits.
LEMMA CutData ==
    ASSUME NEW d \in Data
    PROVE  Cut(d) \in Data /\ Len(Cut(d)) <= psize
<1> DEFINE n == IF Len(d) <= psize THEN Len(d) ELSE psize
<1>1. Len(d) \in Nat
  BY LenProperties DEF Data
<1>2. n \in Nat /\ n <= psize /\ n <= Len(d)
  BY <1>1
<1> HIDE DEF n
<1>3. \A i \in 1 .. n : d[i] \in Key \X Nat
  <2>1. ASSUME NEW i \in 1 .. n PROVE d[i] \in Key \X Nat
    <3>1. i \in 1 .. Len(d)
      BY <1>1, <1>2
    <3>2. QED
      BY <3>1, ElementOfSeq DEF Data
  <2>2. QED
    BY <2>1
<1>4. /\ SubSeq(d, 1, n) \in Data
      /\ Len(SubSeq(d, 1, n)) = IF 1 <= n THEN n - 1 + 1 ELSE 0
  BY <1>2, <1>3, SubSeqProperties DEF Data
<1>5. Len(SubSeq(d, 1, n)) <= psize
  BY <1>2, <1>4
<1>6. QED
  BY <1>4, <1>5 DEF Cut, n

\* A part of a list or of a parameter is received.
LEMMA CutInv ==
    ASSUME Inv, link = "idle", wkc > 0, call.step \in Answers, call.op \notin {"none", "EOErecv"},
           NEW read, read = [call EXCEPT !.data = Cut(call.data \o MbxIn.data)],
           \/ End("ok", read)
           \/ Receive(1) /\ call' = read /\ UNCHANGED calls
    PROVE  Keeps
<1>1. call.data \o MbxIn.data \in Data
  BY Received1, CallFacts, ConcatProperties DEF Data
<1>2. Cut(call.data \o MbxIn.data) \in Data /\ Len(Cut(call.data \o MbxIn.data)) <= psize
  BY <1>1, CutData
<1>3. read \in CallType /\ read.op = call.op /\ read.data = Cut(call.data \o MbxIn.data)
  BY <1>2, CallFacts, CallData
<1>4. Fits(read)
  BY <1>2, <1>3 DEF Fits
<1>5. Caller(read) /\ calls \in Nat
  BY <1>3, <1>4, CallFacts DEF Caller, Handed
<1>6. QED
  BY <1>3, <1>4, <1>5, EndInv, ReceiveInv

LEMMA NextEntryInv ==
    ASSUME Inv, call.op = "readOE", link = "idle", NEW result \in {"ok", "failed"}, NEW read \in CallType,
           read.op = "readOE", NextEntry(result, read)
    PROVE  Keeps
<1>1. Fits(read) /\ calls \in Nat
  BY FreeFits, CallFacts
<1>2. CASE End(result, read)
  BY <1>1, <1>2, EndInv
<1>3. CASE Receive(0) /\ call' = [read EXCEPT !.step = "flushed", !.no = @ + 1] /\ UNCHANGED calls
  <2> DEFINE next == [read EXCEPT !.step = "flushed", !.no = read.no + 1]
  <2>1. read.no + 1 \in Nat /\ "flushed" \in Steps
    BY DEF CallType, Steps
  <2>2. next \in CallType /\ next.op = "readOE"
    BY <2>1 DEF CallType
  <2>3. Receive(0) /\ call' = next /\ calls' \in Nat
    BY <1>1, <1>3
  <2> HIDE DEF next
  <2>4. Caller(next)
    BY <2>2, FreeFits DEF Caller, Handed
  <2>5. QED
    BY <2>3, <2>4, ReceiveInv
<1>4. QED
  BY <1>2, <1>3 DEF NextEntry

LEMMA InfoCallInv == Inv /\ Info => Keeps
<1> SUFFICES ASSUME Inv, Info PROVE Keeps
  OBVIOUS
<1> USE DEF At
<1>1. "sent" \in Sends /\ "answer" \in Answers
  BY DEF Sends, Answers
<1>2. {"odlistreq", "odreq", "oereq"} \subseteq Plain \ Segments
  BY DEF Plain, Ops, FrameOps, OfFrame, Nameless, Segments
<1>3. CASE readODlist
  BY <1>1, <1>2, <1>3, EmptyData, StartInv DEF readODlist, Ask, Coe
<1>4. CASE readODdescription
  BY <1>1, <1>2, <1>4, EmptyData, StartInv DEF readODdescription, Ask, Coe
<1>5. CASE readOEsingle
  BY <1>1, <1>2, <1>5, EmptyData, CallFacts, StartInv DEF readOEsingle, Ask, Coe
<1>6. CASE readODlistSent
  BY <1>1, <1>6, SentInv DEF readODlistSent
<1>7. CASE readODlistNotSent
  BY <1>7, NotSentInv DEF readODlistNotSent
<1>8. CASE readODlistPart
  <2> DEFINE read == [call EXCEPT !.data = Cut(call.data \o MbxIn.data)]
  <2>1. call.op = "readODlist" /\ link = "idle" /\ call.step \in Answers
    BY <1>1, <1>8 DEF readODlistPart
  <2>2. \/ Fail
        \/ wkc > 0 /\ (End("ok", read) \/ (Receive(1) /\ call' = read /\ UNCHANGED calls))
    BY <1>8 DEF readODlistPart, Answered
  <2> HIDE DEF read
  <2>3. QED
    BY <2>1, <2>2, FailInv, CutInv DEF read
<1>9. CASE readODdescriptionSent
  BY <1>1, <1>9, SentInv DEF readODdescriptionSent
<1>10. CASE readODdescriptionNotSent
  BY <1>10, NotSentInv DEF readODdescriptionNotSent
<1>11. CASE readODdescriptionAnswer
  <2> DEFINE read == [call EXCEPT !.data = MbxIn.data]
  <2>1. call.op = "readODdescription" /\ link = "idle" /\ call \in CallType
    BY <1>11, CallFacts DEF readODdescriptionAnswer
  <2>2. CASE Fail
    BY <2>1, <2>2, FailInv
  <2>3. CASE wkc > 0 /\ End("ok", read)
    <3>1. MbxIn.data \in Data
      BY <1>1, <1>11, <2>3, Received1 DEF readODdescriptionAnswer
    <3>2. read \in CallType /\ read.op = "readODdescription"
      BY <2>1, <3>1, CallData
    <3> HIDE DEF read
    <3>3. QED
      BY <2>1, <2>3, <3>2, FreeFits, EndInv
  <2>4. QED
    BY <1>11, <2>2, <2>3 DEF readODdescriptionAnswer, Answered
<1>12. CASE readOEsingleSent
  BY <1>1, <1>12, SentInv DEF readOEsingleSent
<1>13. CASE readOEsingleNotSent
  BY <1>13, CallFacts, NextEntryInv DEF readOEsingleNotSent
<1>14. CASE readOEsingleAnswer
  <2> DEFINE read == [call EXCEPT !.data = call.data \o MbxIn.data]
  <2>1. call.op = "readOE" /\ link = "idle" /\ call \in CallType
    BY <1>14, CallFacts DEF readOEsingleAnswer
  <2>2. CASE NextEntry("failed", call)
    BY <2>1, <2>2, NextEntryInv
  <2>3. CASE wkc > 0 /\ NextEntry("ok", read)
    <3>1. MbxIn.data \in Data
      BY <1>1, <1>14, <2>3, Received1 DEF readOEsingleAnswer
    <3>2. call.data \o MbxIn.data \in Data
      BY <3>1, CallFacts, ConcatProperties DEF Data
    <3>3. read \in CallType /\ read.op = "readOE"
      BY <2>1, <3>2, CallData
    <3> HIDE DEF read
    <3>4. QED
      BY <2>1, <2>3, <3>3, NextEntryInv
  <2>4. QED
    BY <1>14, <2>2, <2>3 DEF readOEsingleAnswer, Answered
<1>15. QED
  BY <1>3, <1>4, <1>5, <1>6, <1>7, <1>8, <1>9, <1>10, <1>11, <1>12, <1>13, <1>14 DEF Info

LEMMA ReadFoeInv == Inv /\ ReadFoe => Keeps
<1> SUFFICES ASSUME Inv, ReadFoe PROVE Keeps
  OBVIOUS
<1> USE DEF At
<1>1. "sent" \in Sends /\ "lastsent" \in Sends /\ "data" \in Answers
  BY DEF Sends, Answers
<1>2. {"READ", "ACK"} \subseteq Plain \ Segments
  BY DEF Plain, Ops, FrameOps, OfFrame, Nameless, Segments
<1>3. CASE FOEread
  BY <1>1, <1>2, <1>3, EmptyData, StartInv DEF FOEread, FoeMessage
<1>4. CASE FOEreadWaits
  BY <1>1, <1>4, SentInv DEF FOEreadWaits
<1>5. CASE FOEreadNotSent
  BY <1>5, NotSentInv DEF FOEreadNotSent
<1>6. CASE FOEreadData
  <2> DEFINE data == call.data \o MbxIn.data
             read == [call EXCEPT !.no = call.no + 1, !.data = data]
             step == IF Len(MbxIn.data) = maxdata THEN "sent" ELSE "lastsent"
  <2>1. call.op = "FOEread" /\ link = "idle" /\ call \in CallType /\ call.no + 1 \in Nat
    BY <1>6, CallFacts DEF FOEreadData
  <2>2. CASE Fail
    BY <2>1, <2>2, FailInv
  <2>3. CASE /\ wkc > 0 /\ Len(read.data) <= psize
             /\ SendAs(step, FoeMessage("ACK", call.key, MbxIn.no, <<>>), read)
    <3>1. MbxIn.data \in Data /\ MbxIn.no \in Nat
      BY <1>1, <1>6, <2>3, Received1 DEF FOEreadData
    <3>2. data \in Data
      BY <3>1, CallFacts, ConcatProperties DEF Data
    <3>3. read \in CallType /\ read.op = "FOEread"
      BY <2>1, <3>2, CallNoData
    <3>4. step \in Sends
      BY <1>1
    <3> HIDE DEF read, step
    <3>5. Fits(read)
      BY <2>3 DEF Fits
    <3>6. QED
      BY <1>2, <2>1, <2>3, <3>1, <3>3, <3>4, <3>5, EmptyData, AskInv DEF FoeMessage
  <2>4. QED
    BY <1>6, <2>2, <2>3 DEF FOEreadData
<1>7. CASE FOEreadEnds
  <2>1. call.op = "FOEread" /\ link = "idle" /\ (End("ok", call) \/ End("failed", call))
    BY <1>7 DEF FOEreadEnds
  <2>2. QED
    BY <2>1, CallFacts, EndInv
<1>8. QED
  BY <1>3, <1>4, <1>5, <1>6, <1>7 DEF ReadFoe

LEMMA WriteFoeInv == Inv /\ WriteFoe => Keeps
<1> SUFFICES ASSUME Inv, WriteFoe PROVE Keeps
  OBVIOUS
<1> USE DEF At
<1>1. "sent" \in Sends /\ "answer" \in Answers
  BY DEF Sends, Answers
<1>2. {"WRITE", "DATA"} \subseteq Plain \ Segments
  BY DEF Plain, Ops, FrameOps, OfFrame, Nameless, Segments
<1>3. CASE FOEwrite
  BY <1>1, <1>2, <1>3, EmptyData, StartInv DEF FOEwrite, FoeMessage
<1>4. CASE FOEwriteWaits
  BY <1>1, <1>4, SentInv DEF FOEwriteWaits
<1>5. CASE FOEwriteNotSent
  BY <1>5, NotSentInv DEF FOEwriteNotSent
<1>6. CASE FOEwriteAck
  <2>1. call.op = "FOEwrite" /\ link = "idle" /\ call \in CallType /\ Fits(call)
    BY <1>6, CallFacts DEF FOEwriteAck
  <2>2. CASE SendPacket
    <3> DEFINE packet == Pieces(call.key, call.pos, maxdata)
               next == [call EXCEPT !.no = call.no + 1, !.pos = call.pos + Len(packet)]
    <3>1. call.key \in Key /\ call.no + 1 \in Nat /\ call.pos \in Nat
      BY <2>1, CallFacts
    <3>2. packet \in Data
      BY <3>1, PiecesSeq
    <3>3. Len(packet) \in Nat
      BY <3>2, LenProperties DEF Data
    <3>4. SendAs("sent", FoeMessage("DATA", call.key, call.no + 1, packet), next)
      BY <2>2 DEF SendPacket
    <3> HIDE DEF packet
    <3>5. call.pos + Len(packet) \in Nat
      BY <3>1, <3>3
    <3>6. next \in CallType /\ next.op = "FOEwrite"
      BY <2>1, <3>1, <3>5, CallNoPos
    <3> HIDE DEF next
    <3>7. Fits(next)
      BY <3>6, FreeFits
    <3>8. QED
      BY <1>1, <1>2, <2>1, <3>1, <3>2, <3>4, <3>6, <3>7, AskInv DEF FoeMessage
  <2>3. Fail \/ SendPacket \/ End("ok", call)
    BY <1>6 DEF FOEwriteAck
  <2>4. QED
    BY <2>1, <2>2, <2>3, FailInv, EndInv
<1>7. CASE FOEwriteBusy
  <2>1. call.op = "FOEwrite" /\ link = "idle" /\ call \in CallType /\ Fits(call) /\ call.no \in Nat
    BY <1>7, CallFacts DEF FOEwriteBusy
  <2>2. CASE End("ok", call)
    BY <2>1, <2>2, EndInv
  <2>3. CASE call.no > 0 /\ End("ok", [call EXCEPT !.no = call.no - 1])
    <3>1. call.no - 1 \in Nat
      BY <2>1, <2>3
    <3>2. [call EXCEPT !.no = call.no - 1] \in CallType /\ [call EXCEPT !.no = call.no - 1].op = "FOEwrite"
      BY <2>1, <3>1, CallNo
    <3>3. QED
      BY <2>1, <2>3, <3>2, FreeFits, EndInv
  <2>4. QED
    BY <1>7, <2>2, <2>3 DEF FOEwriteBusy
<1>8. CASE FOEwriteFails
  BY <1>8, FailInv DEF FOEwriteFails
<1>9. QED
  BY <1>3, <1>4, <1>5, <1>6, <1>7, <1>8 DEF WriteFoe

LEMMA ReadSoeInv == Inv /\ ReadSoe => Keeps
<1> SUFFICES ASSUME Inv, ReadSoe PROVE Keeps
  OBVIOUS
<1> USE DEF At
<1>1. "sent" \in Sends /\ "answer" \in Answers
  BY DEF Sends, Answers
<1>2. "readreq" \in Plain \ Segments /\ 0 \in Nat
  BY DEF Plain, Ops, FrameOps, OfFrame, Nameless, Segments
<1>3. CASE SoEread
  BY <1>1, <1>2, <1>3, EmptyData, StartInv DEF SoEread, Soe
<1>4. CASE SoEreadSent
  BY <1>1, <1>4, SentInv DEF SoEreadSent
<1>5. CASE SoEreadNotSent
  BY <1>5, NotSentInv DEF SoEreadNotSent
<1>6. CASE SoEreadFragment
  <2> DEFINE read == [call EXCEPT !.data = Cut(call.data \o MbxIn.data)]
  <2>1. call.op = "SoEread" /\ link = "idle" /\ call.step \in Answers
    BY <1>1, <1>6 DEF SoEreadFragment
  <2>2. \/ Fail
        \/ wkc > 0 /\ (End("ok", read) \/ (Receive(1) /\ call' = read /\ UNCHANGED calls))
    BY <1>6 DEF SoEreadFragment
  <2> HIDE DEF read
  <2>3. QED
    BY <2>1, <2>2, FailInv, CutInv DEF read
<1>7. QED
  BY <1>3, <1>4, <1>5, <1>6 DEF ReadSoe

LEMMA SendPartInv == ASSUME Inv, call.op = "SoEwrite", SendPart PROVE Keeps
<1> DEFINE part == Pieces(call.key, call.pos, maxdata)
           last == call.pos + Len(part) = size[call.key]
           op == IF last THEN "writereq" ELSE "writemore"
           key == IF last THEN call.key ELSE "none"
           m == Soe(op, key, part)
           next == [call EXCEPT !.pos = call.pos + Len(part)]
<1>1. call.key \in Key /\ call \in CallType /\ call.pos \in Nat
  BY CallFacts
<1>2. part \in Data
  BY <1>1, PiecesSeq
<1>3. Len(part) \in Nat
  BY <1>2, LenProperties DEF Data
<1>4. SendAs("sent", m, next)
  BY DEF SendPart
<1>5. (op = "writereq" /\ key = call.key) \/ (op = "writemore" /\ key = "none")
  OBVIOUS
<1> HIDE DEF part, op, key
<1>6. call.pos + Len(part) \in Nat
  BY <1>1, <1>3
<1>7. /\ op \in Ops /\ op \notin Segments /\ (op \notin Nameless => key \in Key) /\ key \in Name
      /\ "SoE" \in Types /\ "sent" \in Sends /\ 0 \in Nat
  BY <1>1, <1>5 DEF Ops, Segments, Nameless, Name, Types, Sends
<1>8. m \in Mail
  BY <1>2, <1>7, MessageIsMail DEF Soe
<1>9. next \in CallType /\ next.op = "SoEwrite"
  BY <1>1, <1>6, CallPos
<1> HIDE DEF m, next
<1>10. Fits(next)
  BY <1>9, FreeFits
<1>11. QED
  BY <1>4, <1>7, <1>8, <1>9, <1>10, SendAsInv

LEMMA WriteSoeInv == Inv /\ WriteSoe => Keeps
<1> SUFFICES ASSUME Inv, WriteSoe PROVE Keeps
  OBVIOUS
<1> USE DEF At
<1>1. "answer" \in Answers /\ "answer" \in Steps /\ "probed" \in Steps /\ "probed" \in Sends
  BY DEF Sends, Answers, Steps
<1>2. call.op = "SoEwrite" /\ link = "idle" /\ call \in CallType /\ Fits(call) /\ calls \in Nat
  BY CallFacts DEF WriteSoe, SoEwrite, SoEwriteNotSent, SoEwriteSent, SoEwriteProbed, SoEwriteAnswer
<1>3. CASE ReceiveAs("answer")
  BY <1>1, <1>2, <1>3, ReceiveAsInv
<1>4. CASE Probe /\ call' = [call EXCEPT !.step = "probed"] /\ UNCHANGED calls
  <2>1. Caller([call EXCEPT !.step = "probed"]) /\ [call EXCEPT !.step = "probed"].step = "probed"
    BY <1>1, <1>2, Stepped
  <2>2. QED
    BY <1>1, <1>4, <2>1, ProbeInv
<1>5. \/ SendPart \/ Fail \/ End("ok", call) \/ ReceiveAs("answer")
      \/ Probe /\ call' = [call EXCEPT !.step = "probed"] /\ UNCHANGED calls
  BY DEF WriteSoe, SoEwrite, SoEwriteNotSent, SoEwriteSent, SoEwriteProbed, SoEwriteAnswer
<1>6. QED
  BY <1>2, <1>3, <1>4, <1>5, SendPartInv, FailInv, EndInv

\* A fragment that ecx_EOErecv accepts is the next one of the frame it has begun, or the
\* first of one that fits into its buffer.
LEMMA Accepted ==
    ASSUME NEW c, NEW m \in Good, c.no \in Nat, Received(c), m.type = "EoE", m.key \in Key, m.no \in Nat,
           m.no = c.no \/ m.no = 0,
           IF c.no = 0 THEN size[m.key] <= psize ELSE m.key = c.key /\ m.no * maxdata = c.pos
    PROVE  /\ m.no = c.no /\ size[m.key] <= psize
           /\ c.data = Pieces(m.key, 0, m.no * maxdata) /\ c.pos = m.no * maxdata
<1>1. CASE c.no = 0
  <2>1. m.no = 0 /\ c.data = <<>> /\ c.pos = 0 /\ size[m.key] <= psize
    BY <1>1 DEF Received
  <2>2. m.no * maxdata = 0
    BY <2>1
  <2>3. QED
    BY <1>1, <2>1, <2>2, NoPieces
<1>2. CASE c.no # 0
  <2>1. /\ m.key = c.key /\ m.no * maxdata = c.no * maxdata /\ size[m.key] <= psize
        /\ c.data = Pieces(m.key, 0, c.no * maxdata) /\ c.pos = c.no * maxdata
    BY <1>2 DEF Received, Beginning
  <2>2. m.no # 0
    <3>1. ASSUME m.no = 0 PROVE FALSE
      <4>1. c.no * maxdata = 0
        BY <2>1, <3>1
      <4>2. c.no * maxdata > 0
        BY <1>2
      <4>3. QED
        BY <4>1, <4>2
    <3>2. QED
      BY <3>1
  <2>3. QED
    BY <2>1, <2>2
<1>3. QED
  BY <1>1, <1>2

LEMMA AcceptInv == ASSUME Inv, EOErecvFragment PROVE Keeps
<1> DEFINE m == MbxIn
           data == call.data \o m.data
           read == [call EXCEPT !.key = m.key, !.no = call.no + 1, !.pos = call.pos + Len(m.data),
                                !.data = data]
<1>1. /\ call.op = "EOErecv" /\ call.step = "fragment" /\ link = "idle" /\ wkc > 0 /\ Expected(m)
      /\ call \in CallType /\ call.no \in Nat /\ call.pos \in Nat /\ call.data \in Data /\ calls \in Nat
  BY CallFacts DEF EOErecvFragment, At
<1>2. m \in Good /\ m.data \in Data /\ Len(m.data) \in Nat /\ m.no \in Nat /\ m.type = "EoE" /\ Genuine(m)
  BY <1>1, Received1 DEF Answers, Expected, Good
<1>3. m.op \in FrameOps /\ m.key \in Key /\ m.key \in Name
  <2>1. m.op \in FrameOps
    BY <1>2 DEF Genuine, FrameOps
  <2>2. m.op \notin Nameless
    BY <2>1 DEF FrameOps, OfFrame, Nameless
  <2>3. QED
    BY <1>1, <2>1, <2>2, Received1 DEF Answers, Name
<1>4. Received(call)
  BY <1>1 DEF Inv, Caller
<1>5. IF m.op = "fragment" THEN Receive(1) /\ call' = read /\ UNCHANGED calls ELSE End("ok", read)
  BY DEF EOErecvFragment
<1>6. /\ m.no = call.no \/ m.no = 0
      /\ IF call.no = 0 THEN size[m.key] <= psize ELSE m.key = call.key /\ m.no * maxdata = call.pos
  BY <1>1 DEF Expected
<1> HIDE DEF m
<1>7. /\ m.no = call.no /\ size[m.key] <= psize
      /\ call.data = Pieces(m.key, 0, m.no * maxdata) /\ call.pos = m.no * maxdata
  BY <1>1, <1>2, <1>3, <1>4, <1>6, Accepted
<1>8. data \in Data /\ Len(data) = Len(call.data) + Len(m.data) /\ Len(call.data) \in Nat
  BY <1>1, <1>2, ConcatProperties, LenProperties DEF Data
<1>9. /\ m.op = "fragment" => Beginning(m.key, m.no + 1, data)
      /\ m.op = "lastfragment" => data = Whole(m.key)
  BY <1>2, <1>7, GoodFragment, Zenon DEF Beginning, OfFrame
<1>10. m.op \notin OfFrame => data \in {Whole(m.key), <<>>}
  <2>1. SUFFICES ASSUME m.op \notin OfFrame PROVE data \in {Whole(m.key), <<>>}
    OBVIOUS
  <2>2. m.no = 0 /\ m.data \in {Whole(m.key), <<>>}
    BY <1>2, <2>1 DEF Genuine
  <2>3. call.data = <<>>
    BY <1>4, <1>7, <2>2 DEF Received
  <2>4. data = m.data
    BY <1>2, <2>3, ConcatEmptySeq DEF Data
  <2>5. QED
    BY <2>2, <2>4
<1> HIDE DEF data
<1>11. /\ read \in CallType /\ read.op = "EOErecv" /\ read.key = m.key /\ read.no = call.no + 1
       /\ read.pos = call.pos + Len(m.data) /\ read.data = data /\ read.step = "fragment"
  <2>1. call.no + 1 \in Nat /\ call.pos + Len(m.data) \in Nat
    BY <1>1, <1>2
  <2>2. QED
    BY <1>1, <1>3, <1>8, <2>1 DEF CallType
<1> HIDE DEF read
<1>12. CASE m.op = "fragment"
  <2>1. Beginning(m.key, m.no + 1, data) /\ m.no + 1 \in Nat /\ m.no + 1 # 0
    BY <1>2, <1>9, <1>12
  <2>2. Len(data) = (m.no + 1) * maxdata /\ (m.no + 1) * maxdata < size[m.key]
    BY <1>3, <2>1, BeginningFits DEF Beginning
  <2>3. Len(call.data) = m.no * maxdata
    <3>1. m.no * maxdata \in Nat /\ (m.no + 1) * maxdata = m.no * maxdata + maxdata /\ size[m.key] \in Nat
      BY <1>2, <1>3
    <3>2. 0 \in Nat /\ 0 + m.no * maxdata <= size[m.key]
      BY <2>2, <3>1
    <3>3. QED
      BY <1>3, <1>7, <3>1, <3>2, PiecesSeq
  <2>4. read.pos = read.no * maxdata
    BY <1>2, <1>7, <1>8, <1>11, <2>2, <2>3
  <2>5. Received(read)
    BY <1>7, <1>11, <2>1, <2>4 DEF Received
  <2>6. Len(data) <= psize
    <3>1. Len(data) \in Nat /\ size[m.key] \in Nat /\ Len(data) < size[m.key]
      BY <1>3, <1>8, <2>2, LenProperties DEF Data
    <3>2. QED
      BY <1>7, <3>1
  <2>7. Caller(read)
    BY <1>11, <2>5, <2>6 DEF Caller, Fits, Handed
  <2>8. QED
    BY <1>1, <1>5, <1>12, <2>7, ReceiveInv
<1>13. CASE m.op # "fragment"
  <2>1. data \in {Whole(m.key), <<>>}
    BY <1>9, <1>10, <1>13 DEF OfFrame
  <2>2. Len(data) <= psize
    BY <1>3, <1>7, <2>1, WholeSeq, EmptyData
  <2>3. Fits(read) /\ read.data \in {Whole(read.key), <<>>}
    BY <1>11, <2>1, <2>2 DEF Fits
  <2>4. End("ok", read)
    BY <1>5, <1>13
  <2>5. QED
    BY <1>1, <1>11, <2>3, <2>4, EndInv
<1>14. QED
  BY <1>12, <1>13

LEMMA RecvEoeInv == Inv /\ RecvEoe => Keeps
<1> SUFFICES ASSUME Inv, RecvEoe PROVE Keeps
  OBVIOUS
<1>1. CASE EOErecv
  <2>1. call.op = "EOErecv" /\ call.step = "start" /\ ReceiveAs("fragment") /\ "fragment" \in Answers
    BY <1>1 DEF EOErecv, At, Answers
  <2>2. Received(call)
    BY <2>1 DEF Inv, Caller
  <2>3. QED
    BY <2>1, <2>2, ReceiveAsInv
<1>2. CASE EOErecvFragment
  BY <1>2, AcceptInv
<1>3. CASE EOErecvFails
  BY <1>3, FailInv DEF EOErecvFails, At
<1>4. QED
  BY <1>1, <1>2, <1>3 DEF RecvEoe

LEMMA SendFragmentInv ==
    ASSUME Inv, call.op = "EOEsend", NEW n \in Nat, SendFragment(n)
    PROVE  Keeps
<1> DEFINE part == Pieces(call.key, n * maxdata, maxdata)
           op == IF n * maxdata + Len(part) = size[call.key] THEN "lastfragment" ELSE "fragment"
           m == Message("EoE", 0, op, call.key, n, part)
           next == [call EXCEPT !.no = n]
<1>1. call.key \in Key /\ call.key \in Name /\ call \in CallType /\ n * maxdata \in Nat
  BY CallFacts DEF Name
<1>2. part \in Data
  BY <1>1, PiecesSeq
<1>3. SendAs("sent", m, next)
  BY DEF SendFragment, Fragment
<1>4. op = "lastfragment" \/ op = "fragment"
  OBVIOUS
<1> HIDE DEF part, op
<1>5. op \in Ops /\ op \notin Segments /\ "EoE" \in Types /\ "sent" \in Sends
  BY <1>4 DEF Ops, Segments, Types, Sends
<1>6. m \in Mail
  BY <1>1, <1>2, <1>5, MessageIsMail
<1>7. next \in CallType /\ next.op = "EOEsend"
  BY <1>1, CallNo
<1> HIDE DEF m, next
<1>8. Fits(next)
  BY <1>7, FreeFits
<1>9. QED
  BY <1>3, <1>5, <1>6, <1>7, <1>8, SendAsInv

LEMMA SendEoeInv == Inv /\ SendEoe => Keeps
<1> SUFFICES ASSUME Inv, SendEoe PROVE Keeps
  OBVIOUS
<1>1. /\ call.op = "EOEsend" /\ link = "idle" /\ call \in CallType /\ Fits(call)
      /\ 0 \in Nat /\ call.no + 1 \in Nat
  BY CallFacts DEF SendEoe, EOEsend, EOEsendNext, At
<1>2. SendFragment(0) \/ SendFragment(call.no + 1) \/ End("ok", call) \/ End("failed", call)
  BY DEF SendEoe, EOEsend, EOEsendNext
<1>3. QED
  BY <1>1, <1>2, SendFragmentInv, EndInv

\* A request about IP parameters.
LEMMA IpRequestInv ==
    ASSUME Inv, call.op \in {"EOEsetIp", "EOEgetIp"}, NEW op \in {"setip", "getip"}, NEW data \in Data,
           SendAs("sent", EoeMessage(op, call.key, data), call)
    PROVE  Keeps
<1> DEFINE m == Message("EoE", 0, op, call.key, 0, data)
<1>1. call.key \in Key /\ call.key \in Name /\ call \in CallType /\ Fits(call) /\ 0 \in Nat
  BY CallFacts DEF Name
<1>2. op \in Ops /\ op \notin Segments /\ "EoE" \in Types /\ "sent" \in Sends
  BY DEF Ops, Segments, Types, Sends
<1>3. m \in Mail
  BY <1>1, <1>2, MessageIsMail
<1>4. SendAs("sent", m, call)
  BY DEF EoeMessage
<1> HIDE DEF m
<1>5. QED
  BY <1>1, <1>2, <1>3, <1>4, SendAsInv

\* A hook that is defined has no frame yet.
LEMMA DefineInv == ASSUME Inv, EOEdefinehook PROVE Keeps
<1>1. call.op = "EOEdefinehook" /\ call \in CallType /\ Fits(call) /\ "ok" \in Steps
  BY CallFacts DEF EOEdefinehook, At, Steps
<1>2. Caller([call EXCEPT !.step = "ok"]) /\ [call EXCEPT !.step = "ok"].step = "ok"
      /\ [call EXCEPT !.step = "ok"].op = "EOEdefinehook"
  BY <1>1, Stepped
<1>3. call' = [call EXCEPT !.step = "ok"]
  BY DEF EOEdefinehook
<1>4. Slave'
  BY SlaveStays DEF Inv, EOEdefinehook
<1>5. hook' \in HookType /\ hook'.no = 0 /\ hook'.data = <<>> /\ hook'.frame.key = "none"
  BY EmptyData DEF EOEdefinehook, NoHook, HookType, Name
<1>6. Hooks(hook)'
  BY <1>5 DEF Hooks
<1>7. Port'
  BY <1>5, <1>6 DEF Inv, Port, EOEdefinehook
<1>8. Turns'
  BY <1>2, <1>3 DEF Inv, Turns, EOEdefinehook, At, Answers
<1>9. Caller(call)'
  BY <1>2, <1>3, Zenon DEF Caller, Fits, Received, Beginning, Handed, Whole, Pieces
<1>10. HandedWhole'
  BY <1>2, <1>3, <1>5 DEF HandedWhole, Handed
<1>11. QED
  BY <1>4, <1>7, <1>8, <1>9, <1>10 DEF Inv, Keeps

LEMMA IpEoeInv == Inv /\ IpEoe => Keeps
<1> SUFFICES ASSUME Inv, IpEoe PROVE Keeps
  OBVIOUS
<1> USE DEF At
<1>1. "answer" \in Answers
  BY DEF Answers
<1>2. CASE EOEsetIp
  <2>1. call.op = "EOEsetIp" /\ call.key \in Key
    BY <1>2, CallFacts DEF EOEsetIp
  <2>2. Whole(call.key) \in Data
    BY <2>1, WholeSeq
  <2>3. QED
    BY <1>2, <2>1, <2>2, IpRequestInv DEF EOEsetIp
<1>3. CASE EOEsetIpSent
  BY <1>1, <1>3, SentInv DEF EOEsetIpSent
<1>4. CASE EOEsetIpNotSent
  BY <1>4, NotSentInv DEF EOEsetIpNotSent
<1>5. CASE EOEsetIpAnswer
  <2>1. call.op = "EOEsetIp" /\ link = "idle" /\ call \in CallType /\ Fits(call)
    BY <1>5, CallFacts DEF EOEsetIpAnswer
  <2>2. End("ok", call) \/ Fail
    BY <1>5 DEF EOEsetIpAnswer
  <2>3. QED
    BY <2>1, <2>2, EndInv, FailInv
<1>6. CASE EOEgetIp
  BY <1>6, EmptyData, IpRequestInv DEF EOEgetIp
<1>7. CASE EOEgetIpSent
  BY <1>1, <1>7, SentInv DEF EOEgetIpSent
<1>8. CASE EOEgetIpNotSent
  BY <1>8, NotSentInv DEF EOEgetIpNotSent
<1>9. CASE EOEgetIpAnswer
  <2> DEFINE read == [call EXCEPT !.data = MbxIn.data]
  <2>1. call.op = "EOEgetIp" /\ link = "idle" /\ call \in CallType
    BY <1>9, CallFacts DEF EOEgetIpAnswer
  <2>2. CASE Fail
    BY <2>1, <2>2, FailInv
  <2>3. CASE wkc > 0 /\ (End("ok", read) \/ End("failed", read))
    <3>1. MbxIn.data \in Data
      BY <1>1, <1>9, <2>3, Received1 DEF EOEgetIpAnswer
    <3>2. read \in CallType /\ read.op = "EOEgetIp"
      BY <2>1, <3>1, CallData
    <3> HIDE DEF read
    <3>3. QED
      BY <2>1, <2>3, <3>2, FreeFits, EndInv
  <2>4. QED
    BY <1>9, <2>2, <2>3 DEF EOEgetIpAnswer
<1>10. CASE EOEdefinehook
  BY <1>10, DefineInv
<1>11. QED
  BY <1>2, <1>3, <1>4, <1>5, <1>6, <1>7, <1>8, <1>9, <1>10 DEF IpEoe

--------------------------------------------------------------------------------
(* All of it. *)

\* A call begins with nothing received.
LEMMA FreshCall ==
    ASSUME NEW op \in Functions, NEW key \in Key, NEW step \in {"flushed", "start"}
    PROVE  Caller([Call(op, key) EXCEPT !.step = step])
<1> DEFINE c == [Call(op, key) EXCEPT !.step = step]
<1>1. /\ c.op = op /\ c.key = key /\ c.step = step /\ c.no = 0 /\ c.pos = 0 /\ c.data = <<>>
      /\ c = [op |-> op, key |-> key, step |-> step, no |-> 0, pos |-> 0, data |-> <<>>]
  BY DEF Call
<1> HIDE DEF c
<1>2. c \in CallType
  BY <1>1, EmptyData DEF CallType, Steps, Name
<1>3. Fits(c) /\ Received(c) /\ Handed(c)
  BY <1>1, EmptyData DEF Fits, Received, Handed
<1>4. QED
  BY <1>2, <1>3 DEF Caller, c

LEMMA BeginInv == Inv /\ Begin => Keeps
<1> SUFFICES ASSUME Inv, Begin PROVE Keeps
  OBVIOUS
<1>1. calls' \in Nat /\ link \notin {"empty", "probe", "write"}
  BY CallFacts DEF Begin, Done, Inv, Turns, Sends
<1>2. PICK job \in Jobs :
        IF job.op \in {"EOEsend", "EOErecv", "EOEdefinehook"}
          THEN call' = [Call(job.op, job.key) EXCEPT !.step = "start"] /\ Local
          ELSE call' = Call(job.op, job.key) /\ Receive(0)
  BY DEF Begin
<1>3. job.op \in Functions /\ job.key \in Key /\ 0 \in Nat
  OBVIOUS
<1>4. CASE job.op \in {"EOEsend", "EOErecv", "EOEdefinehook"}
  <2> DEFINE next == [Call(job.op, job.key) EXCEPT !.step = "start"]
  <2>1. Caller(next) /\ next.step = "start"
    BY <1>3, FreshCall DEF Call
  <2> HIDE DEF next
  <2>2. call' = next /\ Local
    BY <1>2, <1>4 DEF next
  <2>3. QED
    BY <1>1, <2>1, <2>2, LocalInv
<1>5. CASE job.op \notin {"EOEsend", "EOErecv", "EOEdefinehook"}
  <2> DEFINE next == [Call(job.op, job.key) EXCEPT !.step = "flushed"]
  <2>1. Caller(next)
    BY <1>3, FreshCall
  <2>2. next = Call(job.op, job.key)
    BY DEF Call
  <2> HIDE DEF next
  <2>3. call' = next /\ Receive(0)
    BY <1>2, <1>5, <2>2
  <2>4. QED
    BY <1>1, <1>3, <2>1, <2>3, ReceiveInv
<1>6. QED
  BY <1>4, <1>5

LEMMA StaysInv == Inv /\ UNCHANGED vars => Keeps
<1> SUFFICES ASSUME Inv, UNCHANGED vars PROVE Keeps
  OBVIOUS
<1>1. UNCHANGED masterVars /\ UNCHANGED slaveVars /\ troubles' = troubles
  BY DEF vars
<1>2. Slave' /\ Port' /\ Caller(call)' /\ Turns'
  BY <1>1, SlaveStays, MasterStays DEF Inv, Port
<1>3. hook' = hook
  BY <1>1 DEF masterVars
<1>4. QED
  BY <1>2, <1>3, HookKept DEF Inv

LEMMA NextInv == Inv /\ [Next]_vars => Keeps
<1>1. Inv /\ Master => Keeps
  BY LinkInv, ReadSdoInv, WriteSdoInv, ReadFoeInv, WriteFoeInv, SendEoeInv, RecvEoeInv, IpEoeInv,
     PdoCallInv, InfoCallInv, ReadSoeInv, WriteSoeInv DEF Master
<1>2. Inv /\ Finished => Keeps
  BY StaysInv DEF Finished
<1>3. QED
  BY <1>1, <1>2, StaysInv, ExpireInv, ServeInv, PlaceInv, RepeatInv, RaiseInv, FrameInv, BeginInv DEF Next

LEMMA InitInv == Init => Inv /\ HandedWhole
<1> SUFFICES ASSUME Init PROVE Inv /\ HandedWhole
  OBVIOUS
<1> USE DEF Init, MailboxInit
<1>1. Slave
  BY IdleType, None DEF Slave
<1>2. hook \in HookType /\ Hooks(hook) /\ hook.frame.key = "none"
  BY EmptyData DEF NoHook, HookType, Hooks, Name
<1>3. Port
  <2>1. elist \in [1 .. MaxTrouble -> 0 .. 2] /\ troubles \in 0 .. MaxTrouble
    OBVIOUS
  <2> HIDE DEF Hooks, HookType
  <2>2. QED
    BY <1>2, <2>1 DEF Port, Links
<1>4. call.op = "none" /\ call.step = "done" /\ call \in CallType
  BY EmptyData DEF NoCall, Call, CallType, Steps, Name
<1>5. Caller(call)
  BY <1>4 DEF Caller, Fits, Handed
<1>6. Turns /\ HandedWhole
  BY <1>2, <1>4 DEF Turns, HandedWhole, Handed, Answers
<1>7. QED
  BY <1>1, <1>3, <1>5, <1>6 DEF Inv

LEMMA InvHolds == Spec => []Inv
<1>1. Init => Inv
  BY InitInv
<1>2. Inv /\ [Next]_vars => Inv'
  BY NextInv DEF Keeps
<1>3. QED
  BY <1>1, <1>2, PTL DEF Spec

\* The variables of the mailbox, of the calls and of the slave keep their types, with any
\* calls, losses, emergencies and frames: a counter of the mailbox is 1 to 7 (ec_nextmbxcnt)
\* and the toggle bit of a segment of ecx_SDOread and ecx_SDOwrite one bit.
THEOREM TypeCorrect == Spec => []TypeOK
<1>1. Inv => TypeOK
  BY Sorted
<1>2. QED
  BY <1>1, InvHolds, PTL

\* ecx_SoEread, ecx_readODlist, ecx_FOEread and ecx_EOErecv never put more into the buffer
\* of their caller than it holds, however large the object, the file or the frame is.
THEOREM BufferIsLargeEnough == Spec => []FitsBuffer
<1>1. Inv => FitsBuffer
  BY Sorted DEF FragmentInv
<1>2. QED
  BY <1>1, InvHolds, PTL

\* The frames the hook hands to their owner are whole frames of the slave, and what
\* ecx_EOErecv returns is one or the answer to another EoE request: repeated, lost and
\* interrupted fragments make ecx_EOEreadfragment drop frames, never mix them up.  The hook
\* must have room for every frame, which the code does not check.
THEOREM FramesAreWhole ==
    ASSUME HookHasRoom
    PROVE  Spec => []HandedWhole
<1>1. Init => Inv /\ HandedWhole
  BY InitInv
<1>2. (Inv /\ HandedWhole) /\ [Next]_vars => (Inv /\ HandedWhole)'
  BY NextInv DEF Keeps
<1>3. QED
  BY <1>1, <1>2, PTL DEF Spec

================================================================================
