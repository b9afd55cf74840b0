----------------------------- MODULE MailboxProtocols ---------------------------
(***************************************************************************)
(* A master that calls the protocol functions for one slave, one after the *)
(* other, over the same mailbox: what is left of one call meets the next.  *)
(***************************************************************************)
EXTENDS Eoe

CONSTANTS Jobs,      \* the calls to choose from: a function, a key, and the functions it may follow
          MaxCalls   \* bound: calls

Readers == {"SDOread", "FOEread", "EOErecv", "SoEread", "TxPDO", "readODlist", "readODdescription",
            "readOE", "EOEgetIp"}
Writers == {"SDOwrite", "FOEwrite", "EOEsend", "SoEwrite", "RxPDO", "EOEsetIp"}
Functions == Readers \cup Writers \cup {"EOEdefinehook"}
ASSUME JobAssumption ==
    /\ Jobs \subseteq [op : Functions, key : Key, after : SUBSET (Functions \cup {"none"})]
    /\ MaxCalls \in Nat

Init == /\ MailboxInit
        /\ call = NoCall
        /\ server = Idle

Done == call.step \in {"done", "ok", "failed"}

\* All functions but those of EoE that send and receive frames begin with
\* ecx_mbxreceive and a timeout of 0: "Empty slave out mailbox if something is in".
Begin ==
    /\ Done
    /\ calls < MaxCalls
    /\ calls' = calls + 1
    /\ \E job \in {j \in Jobs : call.op \in j.after} :
         IF job.op \in {"EOEsend", "EOErecv", "EOEdefinehook"}
           THEN call' = [Call(job.op, job.key) EXCEPT !.step = "start"] /\ Local
           ELSE call' = Call(job.op, job.key) /\ Receive(0)

Finished == /\ Done /\ calls = MaxCalls
            /\ UNCHANGED vars

Master == Link \/ ReadSdo \/ WriteSdo \/ ReadFoe \/ WriteFoe \/ SendEoe \/ RecvEoe \/ IpEoe
          \/ Pdo \/ Info \/ ReadSoe \/ WriteSoe

Serve == ServeCoe \/ ServeObjects \/ ServeFoe \/ ServeEoe \/ ServeSoe

Next == Master \/ Expire \/ Serve \/ Place \/ Repeat \/ RaiseEmergency \/ SlaveSendsFrame \/ Begin \/ Finished

Spec == Init /\ [][Next]_vars
\* The master runs and its timers run out; the slave serves each of its buffers, and
\* gets to its answers however often a message is repeated.
FairSpec == /\ Spec
            /\ WF_vars(Master)
            /\ WF_vars(Serve)
            /\ WF_vars(Repeat)
            /\ SF_vars(Place)
            /\ SF_vars(Expire)
\* A slave that may fall silent at any time.
SilentSpec == Spec /\ WF_vars(Master) /\ SF_vars(Expire)

--------------------------------------------------------------------------------
(* Properties. *)

\* Messages whose number is a toggle bit, and those that need not name an object.
Segments == {"uploadseg", "segment", "lastsegment", "downloadseg", "lastdownloadseg", "segdownloaded"}
Nameless == {"emergency", "abort", "downloadseg", "lastdownloadseg", "writemore"}
Ops == Segments \cup Nameless \cup
       {"upload", "expedited", "normal", "download", "downloaded", "rxpdo", "txpdorr", "txpdo",
        "odlistreq", "odlist", "odreq", "od", "oereq", "oe", "READ", "WRITE", "DATA", "ACK", "BUSY", "ERROR",
        "readreq", "readres", "incomplete", "writereq", "writeres", "writeerror",
        "fragment", "lastfragment", "setip", "setipres", "getip", "getipres"}
\* Where a call stands when it sends and when it has received.
Sends == {"sent", "segmentsent", "lastsent", "probed"}
Answers == {"answer", "data", "segment", "fragment"}
Steps == Sends \cup Answers \cup {"flushed", "start", "done", "ok", "failed"}
Data == Seq(Key \X Nat)
Name == Key \cup {"none"}
Mail == {m \in [type : {"ERR", "CoE", "FoE", "EoE", "SoE"}, cnt : Count \cup {0}, op : Ops,
                key : Name, no : Nat, data : Data] :
           /\ m.op \in Segments => m.no \in {0, 1}
           /\ m.op \notin Nameless => m.key \in Key}
CallType == {c \in [op : Functions \cup {"none"}, key : Name, step : Steps, no : Nat, pos : Nat, data : Data] :
               /\ c.op \in {"SDOread", "SDOwrite"} => c.no \in {0, 1}
               /\ c.op # "none" => c.key \in Key}
ServerType == {s \in [op : {"idle", "upload", "download", "READ", "WRITE", "SoE", "EOE"},
                      key : Name, no : Nat, pos : Nat, data : Data] :
                 /\ s.op \in {"upload", "download"} => s.no \in {0, 1}
                 /\ s.op \notin {"idle", "SoE"} => s.key \in Key}
HookType == [defined : BOOLEAN, no : Nat, key : Name, data : Data, frame : [key : Name, data : Data]]

\* Types of the mailbox, the calls and the slave; the toggle bit of a segment is one bit.
TypeOK == /\ MailboxTypeOK(Mail)
          /\ call \in CallType /\ server \in ServerType /\ hook \in HookType
          /\ stored \subseteq Key

\* The functions that compare what comes with what their caller's buffer holds never put
\* more into it.  (SDOread compares the size the slave announces, not its segments.)
FitsBuffer == call.op \in {"SoEread", "readODlist", "FOEread", "EOErecv"} => Len(call.data) <= psize

\* A call that returns a positive work counter has transferred all of its object, file
\* or frame and nothing else: what was read is it, as far as it fits; what was written
\* the slave has, or its last part is in the mailbox ("The function will combine all
\* segments and copy them to the parameter buffer", ethercatcoe.c and ethercatsoe.c).
Transferred(c) ==
    CASE c.op \in {"SoEread", "readODlist"} -> c.data = Pieces(c.key, 0, psize)
      [] c.op = "EOErecv" -> c.key \in Incoming /\ c.data = Whole(c.key)
      [] c.op \in Readers \ {"SoEread", "readODlist", "EOErecv"} -> c.data = Whole(c.key)
      [] c.op \in Writers -> c.key \in stored \/ inbox = MbxOut
      [] OTHER -> TRUE
AllDelivered == call.step = "ok" => Transferred(call)

\* What the code does not look at.  A file server that is BUSY ends the transfer
\* (FOEwriteBusy).  Parts without a number: one that is lost leaves a hole.  Entries of an
\* object: the result is that of the last.  Answers that are not compared with what was
\* asked for: a late one, of a call that failed, is taken by the next.
Unnumbered == {"SoEread", "readODlist"}
Unnamed == {"SoEread", "TxPDO", "readODdescription", "EOErecv"}
\* SDOread compares the object but not the subindex: it takes the late answer to another
\* subindex, or to a write (which holds nothing), for its own, and the segments of its own
\* may follow.
OtherSubindex(c) == /\ c.op = "SDOread" /\ calls > 1 /\ troubles + frames > 0
                    /\ \/ c.data = <<>>
                       \/ c.data # <<>> /\ \E k \in Key \ {c.key} : index[k] = index[c.key] /\ c.data[1] = <<k, 1>>
Excused(c) == \/ OtherSubindex(c)
              \/ c.op = "FOEwrite" /\ MbxIn.op = "BUSY"
              \/ c.op \in Unnumbered /\ size[c.key] > maxdata /\ troubles > 0
              \/ c.op = "readOE" /\ troubles + frames > 0
              \/ c.op \in Unnamed /\ calls > 1 /\ troubles + frames > 0

\* The same, but for the cases above: in all others no loss, emergency, late answer or
\* frame of the slave makes a call return success with something else.
Delivered == call.step = "ok" => Transferred(call) \/ Excused(call)

\* A call only fails for a reason: a loss, a message of the slave that is no answer, or
\* nothing to receive; no order of the steps of master and slave makes it fail, and
\* with a hook the frames of the slave are no reason ("Fragment handled by EoE hook").
FailsForAReason ==
    call.step = "failed" => \/ troubles > 0
                            \/ frames > 0 /\ ~hook.defined
                            \/ call.op = "EOErecv"
                            \/ call.op = "EOEgetIp" /\ call.key \in Unpadded

\* The hook brings whole frames to their owner: the repeat requests that follow a
\* fragment it took, losses and emergencies make it drop frames, never mix them up.
\* What ecx_EOErecv returns is a whole frame, too, or the answer to another EoE request.
Handed(c) == c.op = "EOErecv" /\ c.step = "ok" => c.data \in {Whole(c.key), <<>>}
HandedWhole == /\ hook.frame.key # "none" => hook.frame.data = Whole(hook.frame.key)
               /\ Handed(call)

\* Why, as an inductive invariant: fragments come from the slave as it cut them; what
\* ecx_EOErecv and the hook have is the beginning of one frame.  The hook does not look
\* whether a frame fits its buffer, so HandedWhole needs that it does.
HookHasRoom == \A k \in Incoming : size[k] <= psize

OfFrame == {"fragment", "lastfragment"}
Genuine(m) ==
    m.type = "EoE" \/ m.op \in OfFrame =>
        \/ /\ m.op \in OfFrame /\ m = Fragment(m.key, m.no)
           /\ m.key \in Incoming /\ m.no * maxdata < size[m.key]
        \/ m.op = "getipres" /\ m.no = 0 /\ m.data = Whole(m.key)
        \/ m.op = "setipres" /\ m.no = 0 /\ m.data = <<>>
Beginning(k, n, data) == n * maxdata < size[k] /\ data = Pieces(k, 0, n * maxdata)
Received(c) == IF c.no = 0 THEN c.data = <<>> /\ c.pos = 0
               ELSE size[c.key] <= psize /\ c.pos = c.no * maxdata /\ Beginning(c.key, c.no, c.data)
Hooks(h) == IF h.no = 0 THEN h.data = <<>> ELSE h.key \in Incoming /\ Beginning(h.key, h.no, h.data)

\* A positive work counter after a receive is a message.
Turns == /\ link \in {"empty", "probe", "write"} => call.step \in Sends
         /\ link = "idle" /\ wkc > 0 /\ call.step \in Answers => MbxIn # NoMail

FragmentInv == /\ \A i \in 1 .. Len(queue) : Genuine(queue[i])
               /\ \A m \in {outbox, backup, MbxIn} \ {NoMail} : Genuine(m)
               /\ call.op = "EOErecv" /\ call.step \in {"start", "fragment"} => Received(call)
               /\ Handed(call) /\ Hooks(hook) /\ Turns /\ FitsBuffer

\* A message of the slave is put into the error list once, however often it is read.
ReportedOnce == \A n \in DOMAIN elist : elist[n] <= 1

\* Every call returns when the slave keeps serving: the repeat requests of ecx_mbxreceive
\* and the segments of ecx_SDOread and ecx_SDOwrite come to an end, and two full mailboxes
\* block each other only until the timers have run out.
CallReturns == []<>Done

================================================================================
