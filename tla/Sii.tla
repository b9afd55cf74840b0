----------------------------------- MODULE Sii -----------------------------------
(***************************************************************************)
(* The slave information in the EEPROM (ethercatmain.c): a byte cache for  *)
(* one slave, filled on demand a chunk at a time, and the search through   *)
(* the sections that goes over it.  A section is a category, a length and  *)
(* that many words.                                                        *)
(*                                                                         *)
(* A walk is one ecx_siifind and the read of the section by its caller     *)
(* (ecx_siiSM, ecx_siiFMMU, ecx_siistring), of which the model keeps the   *)
(* first word; the sections of Wanted are searched one after the other.    *)
(***************************************************************************)
EXTENDS Eeprom, TLC

CONSTANTS SiiStart, \* ECT_SII_START
          BufSize,  \* EC_MAXEEPBUF
          Wanted    \* categories config_init asks for

ASSUME SiiAssumption == SiiStart \in Nat /\ BufSize \in Nat /\ Wanted \in Seq(Nat)

VARIABLES esislave, \* slave the cache belongs to, 0 for none
          esibuf,   \* esibuf and esimap: the cells that are in the cache
          walk,     \* the search at work and its local variables
          section,  \* what was found in every section of every slave
          dumped    \* what ecx_esidump has read

siiVars == <<esislave, esibuf, walk, section, dumped>>

NoWalk == [slave |-> 0]
Missing == Blank
NotFound == [i \in DOMAIN Wanted |-> Missing]

SiiInit ==
    /\ esislave = 0
    /\ esibuf = <<>>
    /\ walk = NoWalk
    /\ section = [s \in Slave |-> NotFound]
    /\ dumped = <<>>

\* eectl: the PDI has the control and gets it back in the end.
WalkFrom(s, reading) ==
    /\ walk = NoWalk /\ Quiet
    /\ walk' = [slave |-> s, want |-> 1, at |-> SiiStart, reading |-> reading,
                filling |-> FALSE, eectl |-> slavelist[s].eep_pdi]
    /\ UNCHANGED <<eepromVars, esislave, esibuf, section>>
StartWalk(s) == WalkFrom(s, "category") /\ UNCHANGED dumped
StartDump(s) == WalkFrom(s, "dump") /\ dumped' = <<>>

--------------------------------------------------------------------------------
(* ecx_siigetbyte, a word at a time: both its bytes come with the same chunk. *)

Walking == walk # NoWalk /\ Quiet /\ walk.reading # "dump"
InBuffer == walk.at < BufSize
Cached == esislave = walk.slave /\ walk.at \in DOMAIN esibuf
WordIsHere == ~walk.filling /\ (InBuffer => Cached)
Word == IF InBuffer THEN esibuf[walk.at] ELSE Blank

\* Another slave clears the cache.
Miss ==
    /\ Walking /\ ~walk.filling
    /\ InBuffer /\ ~Cached
    /\ Start("read", walk.slave, walk.at, 0)
    /\ esislave' = walk.slave
    /\ esibuf' = IF esislave = walk.slave THEN esibuf ELSE <<>>
    /\ walk' = [walk EXCEPT !.filling = TRUE]
    /\ UNCHANGED <<section, dumped>>

\* What the read returned goes into the cache, whether it succeeded or not.
Chunk == IF slavelist[walk.slave].eep_8byte THEN 4 ELSE 2
Fill ==
    /\ Walking /\ walk.filling
    /\ esibuf' = [i \in walk.at .. walk.at + Chunk - 1 |-> answer[i - walk.at + 1]] @@ esibuf
    /\ walk' = [walk EXCEPT !.filling = FALSE]
    /\ UNCHANGED <<eepromVars, esislave, section, dumped>>

--------------------------------------------------------------------------------
(* ecx_siifind, and the section that was found. *)

GiveBack == IF walk.eectl THEN Start("eeprom2pdi", walk.slave, 0, 0) ELSE UNCHANGED eepromVars

\* The section is known, or known to be missing: the next one.
Conclude(word) ==
    /\ section' = [section EXCEPT ![walk.slave][walk.want] = word]
    /\ walk' = IF walk.want = Len(Wanted) THEN NoWalk
               ELSE [walk EXCEPT !.want = @ + 1, !.at = SiiStart, !.reading = "category"]
    /\ GiveBack

Category ==
    /\ Walking /\ walk.reading = "category" /\ WordIsHere
    /\ \/ /\ Word = Wanted[walk.want]
          /\ walk' = [walk EXCEPT !.at = @ + 2, !.reading = "content"]
          /\ GiveBack
          /\ UNCHANGED section
       \/ /\ Word = Blank
          /\ Conclude(Missing)
       \/ /\ Word \notin {Blank, Wanted[walk.want]}
          /\ walk' = [walk EXCEPT !.at = @ + 1, !.reading = "length"]
          /\ UNCHANGED <<eepromVars, section>>
    /\ UNCHANGED <<esislave, esibuf, dumped>>

\* Mutant: the length counted from the category.
Length_FromCategory ==
    /\ Walking /\ walk.reading = "length" /\ WordIsHere
    /\ walk' = [walk EXCEPT !.at = @ - 1 + Word, !.reading = "category"]
    /\ UNCHANGED <<eepromVars, esislave, esibuf, section, dumped>>
Length ==
    /\ Walking /\ walk.reading = "length" /\ WordIsHere
    /\ walk' = [walk EXCEPT !.at = @ + 1 + Word, !.reading = "category"]
    /\ UNCHANGED <<eepromVars, esislave, esibuf, section, dumped>>

Content ==
    /\ Walking /\ walk.reading = "content" /\ WordIsHere
    /\ Conclude(Word)
    /\ UNCHANGED <<esislave, esibuf, dumped>>

--------------------------------------------------------------------------------
(* ecx_esidump reads the SII chunk by chunk, past the cache, into a buffer of the caller. *)

Dumping == walk # NoWalk /\ Quiet /\ walk.reading = "dump"

DumpRead ==
    /\ Dumping /\ ~walk.filling
    /\ Start("read", walk.slave, walk.at, 0)
    /\ walk' = [walk EXCEPT !.filling = TRUE]
    /\ UNCHANGED <<esislave, esibuf, section, dumped>>

DumpStore ==
    /\ Dumping /\ walk.filling
    /\ dumped' = dumped \o SubSeq(answer, 1, Chunk)
    /\ IF walk.at + Chunk <= BufSize /\ SubSeq(answer, 1, 2) # <<Blank, Blank>>
       THEN walk' = [walk EXCEPT !.at = @ + Chunk, !.filling = FALSE] /\ UNCHANGED eepromVars
       ELSE walk' = NoWalk /\ GiveBack
    /\ UNCHANGED <<esislave, esibuf, section>>

Walk == Miss \/ Fill \/ Category \/ Length \/ Content \/ DumpRead \/ DumpStore

\* Reference: the first word of the section of category cat.
FirstWord(rom, cat) ==
    LET next[a \in 0 .. Len(rom)] ==
            IF Cell(rom, a) = cat THEN Cell(rom, a + 2)
            ELSE IF Cell(rom, a) = Blank THEN Missing ELSE next[a + 2 + Cell(rom, a + 1)]
    IN next[SiiStart]

SiiTypeOK ==
    /\ esislave \in 0 .. N
    /\ DOMAIN esibuf \subseteq Nat
    /\ walk = NoWalk \/ walk \in [slave : Slave, want : DOMAIN Wanted, at : Nat, filling : BOOLEAN,
                                  reading : {"category", "length", "content", "dump"}, eectl : BOOLEAN]
    /\ section \in [Slave -> [DOMAIN Wanted -> Nat]]
    /\ dumped \in Seq(Nat)
================================================================================
