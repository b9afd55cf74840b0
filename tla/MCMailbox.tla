------------------------------- MODULE MCMailbox --------------------------------
EXTENDS MailboxProtocols

Sizes == [small |-> 1, big |-> 6, out |-> 6, file |-> 3, upfile |-> 2, frame |-> 3, inframe |-> 3,
          idn |-> 2, longidn |-> 7, outidn |-> 4, pdo |-> 2, object |-> 2, list |-> 7,
          ip |-> 1, bareip |-> 1]
\* small, big and out are subindexes of one object.
Indexes == [k \in DOMAIN Sizes |-> IF k \in {"small", "big", "out"} THEN "record" ELSE k]
Job(op, key, after) == [op |-> op, key |-> key, after |-> {"none"} \cup after]

\* The seven calls of the first group follow one another in any order; of the others,
\* those that could take an answer of one another do.
Mixed == {"SDOread", "SDOwrite", "FOEread", "FOEwrite", "EOEsend", "EOErecv"}
MixedJobs == {Job("SDOread", "small", Functions), Job("SDOread", "big", Mixed), Job("SDOwrite", "out", Mixed),
              Job("FOEread", "file", Mixed), Job("FOEwrite", "upfile", Mixed),
              Job("EOEsend", "frame", Mixed \cup {"EOEdefinehook"}),
              Job("EOErecv", "inframe", Mixed \cup {"EOEgetIp"})}
DriveJobs == {Job("SoEread", "idn", {"SoEread", "SoEwrite"}), Job("SoEread", "longidn", {}),
              Job("SoEwrite", "outidn", {"SoEread", "SoEwrite"})}
ObjectJobs == {Job("RxPDO", "pdo", {"TxPDO"}), Job("TxPDO", "pdo", {"RxPDO", "TxPDO"}),
               Job("readODlist", "list", {"readOE"}), Job("readODdescription", "object", {"readODlist"}),
               Job("readOE", "object", {"readODdescription"})}
IpJobs == {Job("EOEsetIp", "ip", {}), Job("EOEgetIp", "ip", {"EOEsetIp"}), Job("EOEgetIp", "bareip", {}),
           Job("EOEdefinehook", "frame", {})}
LateJobs == {Job("SDOread", "out", {"SDOread", "SDOwrite"}), Job("SDOwrite", "big", {"SDOread", "SDOwrite"})}
AllJobs == LateJobs \cup MixedJobs \cup DriveJobs \cup ObjectJobs \cup IpJobs
CoeJobs == {j \in MixedJobs : j.op \in {"SDOread", "SDOwrite"}}
FoeJobs == {j \in MixedJobs : j.op \in {"FOEread", "FOEwrite"}}
InFrames == {"inframe"}
NoName == {"bareip"}
================================================================================
