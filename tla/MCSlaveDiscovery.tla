----------------------------- MODULE MCSlaveDiscovery ----------------------------
EXTENDS SlaveDiscovery

\* Two slaves of one kind, whose mailbox is not where the header says but where the section
\* of sync managers says, and one of another without a mailbox and with 8 byte chunks.
Drive == <<11, 12, 13, 14, 0, 16,  41, 1, 15,  255>>
Terminal == <<11, 22, 23, 0, 0, 0,  30, 0,  255>>
Contents == <<Drive, Drive, Terminal>>
Widths == <<2, 2, 4>>
Mailboxes == <<15, 15, 0>>
Second == {<<2, 8>>}
WantedSections == <<41>>

\* The master is started again; the second slave was kept on, the others were switched off.
\* One that was kept on is still in OPERATIONAL with its mailbox, and its PDI has the EEPROM.
Keep(stations) ==
    [s \in Slave |-> LET on == stations[s] # 0
                     IN [station |-> stations[s], error |-> on, ctl |-> IF on THEN "pdi" ELSE "master",
                         sm |-> IF on THEN mailbox[s] ELSE 0, state |-> IF on THEN "OP" ELSE "INIT"]]
SecondKeptOn == {Keep(<<0, 2, 0>>)}
\* All were switched off, or all kept on.
AllOrNone == {Keep(<<0, 0, 0>>), Keep(<<1, 2, 3>>)}
\* Kept on while they were put in another order.
Rearranged == {Keep(<<3, 2, 1>>)}
================================================================================
