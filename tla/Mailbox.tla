--------------------------------- MODULE Mailbox --------------------------------
(***************************************************************************)
(* The mailbox of one slave: ecx_mbxempty, ecx_mbxsend, ecx_mbxreceive     *)
(* (ethercatmain.c) with the EoE hook it calls (ecx_EOEreadfragment,       *)
(* ethercateoe.c), and the two buffers of the slave they work on.          *)
(*                                                                         *)
(* One action is one datagram.  A poll that does not find what it waits    *)
(* for changes nothing, so it is no action.  The functions are started by  *)
(* Send and Receive of a protocol module, which goes on when link is       *)
(* "idle" again and looks at wkc and MbxIn.  A work counter is 1 or 0,     *)
(* where 0 stands for EC_NOFRAME and EC_TIMEOUT, too.                      *)
(*                                                                         *)
(* A message is a record; key names the object, file or frame it is about, *)
(* data is a sequence of pieces; how long a piece is depends on what is    *)
(* transferred.                                                            *)
(***************************************************************************)
EXTENDS Naturals, Sequences

CONSTANTS NoMail,    \* an empty buffer
          Repeats,   \* the slave answers repeat requests
          Timely,    \* timers only run out when nothing more would come
          Backlog,   \* messages the slave keeps before it takes no more requests
          MaxTrouble,\* bound: losses, emergencies and refusals of a busy slave
          size,      \* pieces of every object, file and frame
          maxdata,   \* pieces in a mailbox
          psize      \* pieces the buffer of the caller holds

Key == DOMAIN size

ASSUME MailboxAssumption ==
    /\ Repeats \in BOOLEAN /\ Timely \in BOOLEAN
    /\ Backlog \in Nat \ {0} /\ MaxTrouble \in Nat
    /\ size \in [Key -> Nat] /\ maxdata \in Nat \ {0} /\ psize \in Nat

VARIABLES inbox,     \* SM0: what the master wrote
          outbox,    \* SM1: what the slave wants to be read
          backup,    \* the message of SM1 that was read last, for repetition
          queue,     \* messages of the slave that wait for SM1
          seen,      \* counter of the request the slave took last
          sm1,       \* repeat request (SM1 activate) and its acknowledge (SM1 control)
          link,      \* the datagram the master sends next
          SMstat,    \* the repeat request as the master knows it
          MbxOut, MbxIn,
          wkc,       \* result of the last send or receive
          expired,   \* osal_timer_is_expired(&timer)
          mbx_cnt,   \* slavelist[slave].mbx_cnt
          elist,     \* how often each report is in context->elist, up to 2
          hook,      \* context->EOEhook, its working variables and the frame it got last
          call,      \* the protocol function that uses the mailbox, its local variables
          calls,     \* calls so far
          server,    \* the slave's side of the transfer
          stored,    \* keys of what the slave has received as a whole
          frames,    \* Ethernet frames the slave has sent
          troubles   \* losses, emergencies and refusals so far

inside == <<queue, seen, server, stored, frames>>
slaveVars == <<inbox, outbox, backup, sm1, inside>>
caller == <<MbxOut, mbx_cnt, call, calls>>
masterVars == <<caller, link, SMstat, MbxIn, wkc, expired, elist, hook>>
vars == <<slaveVars, masterVars, troubles>>

Count == 1 .. 7
Message(type, cnt, op, key, no, data) ==
    [type |-> type, cnt |-> cnt, op |-> op, key |-> key, no |-> no, data |-> data]
\* What the slave reports on its own: an emergency or a mailbox error.
Report(type, n) == Message(type, 0, "emergency", "none", n, <<>>)

NoHook == [defined |-> FALSE, no |-> 0, key |-> "none", data |-> <<>>,
           frame |-> [key |-> "none", data |-> <<>>]]

MailboxInit ==
    /\ inbox = NoMail /\ outbox = NoMail /\ backup = NoMail
    /\ queue = <<>>
    /\ seen = 0
    /\ sm1 = [request |-> FALSE, ack |-> FALSE]
    /\ link = "idle"
    /\ SMstat = FALSE
    /\ MbxOut = NoMail /\ MbxIn = NoMail
    /\ wkc = 0
    /\ expired = FALSE
    /\ mbx_cnt = 0
    /\ elist = [n \in 1 .. MaxTrouble |-> 0]
    /\ hook = NoHook
    /\ stored = {}
    /\ calls = 0 /\ frames = 0 /\ troubles = 0

--------------------------------------------------------------------------------
(* The slave (external). *)

\* The slave works through its requests one by one and knows a repeated one by its
\* counter; a new one brings it answers, the state next, and the data of the keys got.
Process(answers, next, got) ==
    /\ inbox # NoMail
    /\ Len(queue) < Backlog
    /\ inbox' = NoMail
    /\ seen' = inbox.cnt
    /\ IF inbox.cnt = seen THEN UNCHANGED <<queue, server, stored>>
                            ELSE queue' = queue \o answers /\ server' = next /\ stored' = stored \cup got
    /\ UNCHANGED <<masterVars, outbox, backup, sm1, frames>>
Take(answers, next, got) == Process(answers, next, got) /\ UNCHANGED troubles

Place ==
    /\ outbox = NoMail
    /\ queue # <<>>
    /\ Repeats => sm1.request = sm1.ack
    /\ outbox' = Head(queue)
    /\ queue' = Tail(queue)
    /\ UNCHANGED <<masterVars, inbox, backup, seen, server, stored, sm1, frames, troubles>>

\* What has not been read yet stays; otherwise the last message comes again.
Repeat ==
    /\ Repeats
    /\ sm1.request # sm1.ack
    /\ sm1' = [sm1 EXCEPT !.ack = sm1.request]
    /\ outbox' = IF outbox = NoMail THEN backup ELSE outbox
    /\ UNCHANGED <<masterVars, inbox, backup, inside, troubles>>

RaiseEmergency ==
    /\ troubles < MaxTrouble
    /\ troubles' = troubles + 1
    /\ \E type \in {"CoE", "ERR"} : queue' = Append(queue, Report(type, troubles'))
    /\ UNCHANGED <<masterVars, inbox, outbox, backup, seen, server, stored, sm1, frames>>

--------------------------------------------------------------------------------
(* Starting and ending a function of the mailbox. *)

ec_nextmbxcnt(cnt) == IF cnt + 1 > 7 THEN 1 ELSE cnt + 1

\* ecx_mbxsend with a new counter value.
Send(m) ==
    /\ mbx_cnt' = ec_nextmbxcnt(mbx_cnt)
    /\ MbxOut' = [m EXCEPT !.cnt = mbx_cnt']
    /\ link' = "empty"
    /\ expired' = FALSE
    /\ UNCHANGED <<slaveVars, SMstat, MbxIn, wkc, elist, hook, troubles>>

\* ecx_mbxreceive into a cleared buffer; a timer of 0 has expired at once.
Receive(timeout) ==
    /\ MbxIn' = NoMail
    /\ link' = "wait"
    /\ expired' = (timeout = 0)
    /\ UNCHANGED <<slaveVars, SMstat, MbxOut, wkc, mbx_cnt, elist, hook, troubles>>

\* ecx_mbxempty on its own.
Probe ==
    /\ link' = "probe"
    /\ expired' = FALSE
    /\ UNCHANGED <<slaveVars, SMstat, MbxOut, MbxIn, wkc, mbx_cnt, elist, hook, troubles>>

Return(result) == link' = "idle" /\ wkc' = result /\ expired' = FALSE
Goto(step) == link' = step /\ UNCHANGED <<wkc, expired>>
\* Mutant: the loop does not look at the timer.
AgainForEver == Goto("read")

\* "if WKC<=0 repeat", unless the timer has expired.
Again == IF expired THEN Return(0) ELSE Goto("read")

Lose == troubles < MaxTrouble /\ troubles' = troubles + 1
Arrive == UNCHANGED troubles

\* Nothing is on its way to the master any more.
Quiet == /\ inbox = NoMail /\ queue = <<>> /\ outbox = NoMail
         /\ Repeats => sm1.request = sm1.ack
\* The slave waits for its answers to be read, the master for the slave.
Blocked == outbox # NoMail /\ Len(queue) >= Backlog

Expire ==
    /\ link # "idle" /\ ~expired
    /\ Timely => \/ link \in {"wait", "read", "avail"} /\ Quiet
                 \/ link \in {"empty", "probe"} /\ Blocked
                 \/ link = "ack" /\ sm1.ack # SMstat /\ (Repeats => sm1.request = sm1.ack)
    /\ expired' = TRUE
    /\ UNCHANGED <<slaveVars, caller, link, SMstat, MbxIn, wkc, elist, hook, troubles>>

--------------------------------------------------------------------------------
(* ecx_mbxempty and ecx_mbxsend *)

MailboxEmpty ==
    /\ link \in {"empty", "probe"}
    /\ \/ inbox = NoMail /\ Arrive /\ (IF link = "empty" THEN Goto("write") ELSE Return(1))
       \/ inbox # NoMail /\ expired /\ Arrive /\ Return(0)
       \/ expired /\ Lose /\ Return(0)
    /\ UNCHANGED <<slaveVars, caller, SMstat, MbxIn, elist, hook>>

Placed == IF inbox = NoMail THEN MbxOut ELSE inbox

\* FPWR to a mailbox that is full changes nothing and is not counted.  A lost datagram is
\* sent again, unless all are lost until EC_TIMEOUTRET3 is over.
MailboxWrite ==
    /\ link = "write"
    /\ \/ Arrive /\ inbox' = Placed /\ Return(IF inbox = NoMail THEN 1 ELSE 0)
       \/ Lose /\ inbox' \in {inbox, Placed} /\ (Return(0) \/ UNCHANGED <<link, wkc, expired>>)
    /\ UNCHANGED <<outbox, backup, sm1, inside, caller, SMstat, MbxIn, elist, hook>>

--------------------------------------------------------------------------------
(* ecx_mbxreceive *)

\* "wait for read mailbox available"
WaitAvailable ==
    /\ link = "wait"
    /\ \/ outbox # NoMail /\ Arrive /\ Goto("read") /\ SMstat' = sm1.request
       \/ expired /\ ((outbox = NoMail /\ Arrive) \/ Lose) /\ Return(0) /\ UNCHANGED SMstat
    /\ UNCHANGED <<slaveVars, caller, MbxIn, elist, hook>>

\* Messages that ecx_mbxreceive deals with itself.
Swallowed(m) == m.op = "emergency" \* type "ERR", or CoE with service 1

\* Fragments that the hook deals with: "Fragment handled by EoE hook".
Hooked(m) == hook.defined /\ m.op \in {"fragment", "lastfragment"}

\* Mutant: a fragment is taken whatever its number is.
AnyFragment(h, m) ==
    LET got == [h EXCEPT !.no = @ + 1, !.key = m.key, !.data = @ \o m.data]
    IN IF m.op = "fragment" THEN got
       ELSE [h EXCEPT !.no = 0, !.key = "none", !.data = <<>>, !.frame = [key |-> m.key, data |-> got.data]]

\* ecx_EOEreadfragment, which a hook is written around: a fragment out of order drops
\* the frame, unless it begins a new one; the last one brings the frame to its owner.
EOEreadfragment(h, m) ==
    LET reset == [h EXCEPT !.no = 0, !.key = "none", !.data = <<>>]
        start == IF h.no = m.no THEN h ELSE reset
        data == start.data \o m.data
        fits == Len(data) <= size[m.key] /\ Len(data) <= psize
        got == IF fits THEN [start EXCEPT !.no = @ + 1, !.key = m.key, !.data = data]
                       ELSE [start EXCEPT !.key = m.key]
        strange == start.key # m.key \/ m.no * maxdata # Len(start.data)
    IN CASE m.no # start.no -> start
         [] m.no = start.no /\ start.no > 0 /\ strange -> reset
         [] OTHER -> IF m.op = "fragment" THEN got
                     ELSE [reset EXCEPT !.frame = [key |-> m.key, data |-> got.data]]

ReadOut == outbox # NoMail /\ backup' = outbox /\ outbox' = NoMail

\* "get mailbox"; it can only be read when it is full.
ReadMailbox ==
    /\ link = "read"
    /\ Arrive
    /\ ReadOut
    /\ MbxIn' = outbox
    /\ IF Swallowed(outbox) \/ Hooked(outbox) THEN Again ELSE Return(1)
    /\ hook' = IF Hooked(outbox) THEN EOEreadfragment(hook, outbox) ELSE hook
    /\ elist' = IF Swallowed(outbox) /\ elist[outbox.no] < 2 THEN [elist EXCEPT ![outbox.no] = @ + 1] ELSE elist
    /\ UNCHANGED <<inbox, sm1, inside, caller, SMstat>>

\* "read mailbox lost": before or behind the slave, or the mailbox is empty.
ReadLost ==
    /\ link = "read"
    /\ \/ Lose /\ (ReadOut \/ UNCHANGED <<outbox, backup>>)
       \/ outbox = NoMail /\ Arrive /\ UNCHANGED <<outbox, backup>>
    /\ Goto("toggle")
    /\ UNCHANGED <<inbox, sm1, inside, caller, SMstat, MbxIn, elist, hook>>

\* "toggle repeat request"
ToggleRepeat ==
    /\ link = "toggle"
    /\ SMstat' = ~SMstat
    /\ \/ Arrive /\ sm1' = [sm1 EXCEPT !.request = SMstat']
       \/ Lose /\ sm1' \in {sm1, [sm1 EXCEPT !.request = SMstat']}
    /\ Goto("ack")
    /\ UNCHANGED <<inbox, outbox, backup, inside, caller, MbxIn, elist, hook>>

\* "wait for toggle ack"
WaitToggleAck ==
    /\ link = "ack"
    /\ sm1.ack = SMstat \/ expired
    /\ Goto("avail")
    /\ UNCHANGED <<slaveVars, caller, SMstat, MbxIn, elist, hook, troubles>>

\* "wait for read mailbox available"
WaitAgain ==
    /\ link = "avail"
    /\ \/ outbox # NoMail /\ SMstat' = sm1.request
       \/ expired /\ UNCHANGED SMstat
    /\ Again
    /\ UNCHANGED <<slaveVars, caller, MbxIn, elist, hook, troubles>>

Link == \/ MailboxEmpty \/ MailboxWrite \/ WaitAvailable \/ ReadMailbox \/ ReadLost
        \/ ToggleRepeat \/ WaitToggleAck \/ WaitAgain

--------------------------------------------------------------------------------
MailboxTypeOK(Mail) ==
    /\ inbox \in Mail \cup {NoMail} /\ outbox \in Mail \cup {NoMail} /\ backup \in Mail \cup {NoMail}
    /\ queue \in Seq(Mail) /\ elist \in [1 .. MaxTrouble -> 0 .. 2]
    /\ seen \in Count \cup {0} /\ mbx_cnt \in Count \cup {0}
    /\ sm1 \in [request : BOOLEAN, ack : BOOLEAN]
    /\ link \in {"idle", "empty", "probe", "write", "wait", "read", "toggle", "ack", "avail"}
    /\ SMstat \in BOOLEAN /\ expired \in BOOLEAN
    /\ MbxOut \in Mail \cup {NoMail} /\ MbxIn \in Mail \cup {NoMail}
    /\ wkc \in {0, 1}
    /\ frames \in Nat /\ calls \in Nat /\ troubles \in 0 .. MaxTrouble

================================================================================
