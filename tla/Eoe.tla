----------------------------------- MODULE Eoe ----------------------------------
(***************************************************************************)
(* Ethernet frames: ecx_EOEsend and ecx_EOErecv (ethercateoe.c) over the   *)
(* mailbox, the IP parameters with ecx_EOEsetIp and ecx_EOEgetIp,          *)
(* ecx_EOEdefinehook, and the two ends in the slave.                       *)
(*                                                                         *)
(* The key of a fragment stands for its frame number, and as all fragments *)
(* but the last are full, its number for its offset.                       *)
(***************************************************************************)
EXTENDS Foe, CoeObjects

CONSTANTS Incoming,   \* frames the slave has for the master
          MaxFrames,  \* bound: how many it sends
          Unpadded    \* IP parameters whose name the slave does not fill up to 32 bytes

ASSUME EoeAssumption == Incoming \subseteq Key /\ MaxFrames \in Nat /\ Unpadded \subseteq Key

EoeMessage(op, key, data) == Message("EoE", 0, op, key, 0, data)

\* A fragment of k; the one that reaches the end of the frame is marked.
Fragment(k, n) ==
    LET part == Pieces(k, n * maxdata, maxdata)
    IN Message("EoE", 0, IF n * maxdata + Len(part) = size[k] THEN "lastfragment" ELSE "fragment", k, n, part)

--------------------------------------------------------------------------------
(* The slave (external). *)

\* Fragments of a frame follow one another, or the frame is dropped.
ServeFragment(m) ==
    LET next == IF m.no = 0 THEN Server("EOE", m.key, 1, 0, m.data)
                            ELSE [server EXCEPT !.no = @ + 1, !.data = @ \o m.data]
        follows == m.no = 0 \/ (server.op = "EOE" /\ server.key = m.key /\ server.no = m.no)
    IN /\ m.op \in {"fragment", "lastfragment"}
       /\ CASE ~follows -> Take(<<>>, Idle, {})
            [] follows /\ m.op = "lastfragment" -> Take(<<>>, Idle, {m.key})
            [] OTHER -> Take(<<>>, next, {})

ServeIp(m) ==
    \/ m.op = "setip" /\ Take(<<EoeMessage("setipres", m.key, <<>>)>>, server, {m.key})
    \/ m.op = "getip" /\ Answer(EoeMessage("getipres", m.key, Whole(m.key)), server)

ServeEoe == /\ inbox # NoMail /\ inbox.type = "EoE"
            /\ ServeFragment(inbox) \/ ServeIp(inbox)

Fragments(k) == [i \in 1 .. (size[k] + maxdata - 1) \div maxdata |-> Fragment(k, i - 1)]

SlaveSendsFrame ==
    /\ frames < MaxFrames
    /\ frames' = frames + 1
    /\ \E k \in Incoming : queue' = queue \o Fragments(k)
    /\ UNCHANGED <<masterVars, inbox, outbox, backup, seen, server, stored, sm1, troubles>>

--------------------------------------------------------------------------------
(* ecx_EOEsend *)

SendFragment(n) == SendAs("sent", Fragment(call.key, n), [call EXCEPT !.no = n])

EOEsend == At("EOEsend", "start") /\ SendFragment(0)
EOEsendNext == /\ At("EOEsend", "sent")
               /\ IF wkc > 0 /\ (call.no + 1) * maxdata < size[call.key]
                    THEN SendFragment(call.no + 1)
                    ELSE End(IF wkc > 0 THEN "ok" ELSE "failed", call)

SendEoe == EOEsend \/ EOEsendNext

--------------------------------------------------------------------------------
(* ecx_EOErecv *)

EOErecv == At("EOErecv", "start") /\ ReceiveAs("fragment")

\* The first fragment says which frame it is; what follows must be of that frame
\* and at the offset that comes next.  The type of the message is not looked at: the
\* answer to another EoE request is a frame of one fragment.
Expected(m) ==
    /\ m.type = "EoE"
    /\ m.no = call.no \/ m.no = 0
    /\ IF call.no = 0 THEN size[m.key] <= psize
                      ELSE m.key = call.key /\ m.no * maxdata = call.pos

EOErecvFragment ==
    LET read == [call EXCEPT !.key = MbxIn.key, !.no = @ + 1, !.pos = @ + Len(MbxIn.data),
                             !.data = @ \o MbxIn.data]
    IN /\ At("EOErecv", "fragment")
       /\ wkc > 0 /\ Expected(MbxIn)
       /\ IF MbxIn.op = "fragment" THEN Receive(1) /\ call' = read /\ UNCHANGED calls
                                   ELSE End("ok", read)

EOErecvFails == /\ At("EOErecv", "fragment")
                /\ wkc > 0 => ~Expected(MbxIn)
                /\ Fail

RecvEoe == EOErecv \/ EOErecvFragment \/ EOErecvFails

--------------------------------------------------------------------------------
(* ecx_EOEsetIp, ecx_EOEgetIp and ecx_EOEdefinehook *)

EOEsetIp == At("EOEsetIp", "flushed") /\ SendAs("sent", EoeMessage("setip", call.key, Whole(call.key)), call)
EOEsetIpSent == Sent("EOEsetIp", "sent", "answer")
EOEsetIpNotSent == NotSent("EOEsetIp", "sent")
EOEsetIpAnswer ==
    /\ At("EOEsetIp", "answer")
    /\ IF wkc > 0 /\ MbxIn.type = "EoE" /\ MbxIn.op = "setipres" THEN End("ok", call) ELSE Fail

EOEgetIp == At("EOEgetIp", "flushed") /\ SendAs("sent", EoeMessage("getip", call.key, <<>>), call)
EOEgetIpSent == Sent("EOEgetIp", "sent", "answer")
EOEgetIpNotSent == NotSent("EOEgetIp", "sent")

\* data_offset goes on by EOE_DNS_NAME_LENGTH however long the name is: parameters with
\* a shorter one are copied, but "Something os not correct, flag the error".
EOEgetIpAnswer ==
    LET read == [call EXCEPT !.data = MbxIn.data]
    IN /\ At("EOEgetIp", "answer")
       /\ IF wkc > 0 /\ MbxIn.type = "EoE" /\ MbxIn.op = "getipres"
            THEN End(IF MbxIn.key \in Unpadded THEN "failed" ELSE "ok", read)
            ELSE Fail

EOEdefinehook ==
    /\ At("EOEdefinehook", "start")
    /\ hook' = [NoHook EXCEPT !.defined = TRUE]
    /\ call' = [call EXCEPT !.step = "ok"]
    /\ UNCHANGED <<slaveVars, troubles, link, SMstat, MbxOut, MbxIn, wkc, expired, mbx_cnt, elist, calls>>

IpEoe == \/ EOEsetIp \/ EOEsetIpSent \/ EOEsetIpNotSent \/ EOEsetIpAnswer
         \/ EOEgetIp \/ EOEgetIpSent \/ EOEgetIpNotSent \/ EOEgetIpAnswer \/ EOEdefinehook

================================================================================
