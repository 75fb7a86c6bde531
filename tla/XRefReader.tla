------------------------------ MODULE XRefReader ------------------------------
(***************************************************************************)
(* How XRefImpl (seren-core/src/document/xref.ts) reads the chain of cross- *)
(* reference sections of a file while the file is still arriving.  Every   *)
(* read may find its data missing: the exception leaves readXRef, the      *)
(* range is requested and XRefImpl.parse is called again (ensure).  What   *)
(* must survive is in fields of the object: the queue of sections, the     *)
(* entries and the state of a half-read table or stream; what is in local  *)
(* variables is lost.                                                      *)
(*                                                                         *)
(* A section is a record of                                                *)
(*   kind     "table", "stream", or "junk" for anything else               *)
(*   ranges   its subsections, <<first object number, count>>              *)
(*   records  its entries in the order of the file: "free", "used", "bad"  *)
(*   xrefStm, prev   the sections it names, or 0                           *)
(***************************************************************************)
EXTENDS Integers, Sequences, TLC

CONSTANTS
    Files,          \* the files: functions from positions to sections; 1 is startxref
    MaxMissing      \* bound: reads that find their data missing

ASSUME FilesAssumption ==
    /\ MaxMissing \in Nat
    /\ \A f \in Files : 1 \in DOMAIN f

VARIABLES
    file,       \* the file that is read
    queue,      \* startXRefQueue
    entries,    \* entries: from object numbers to places in the file
    topDict,    \* the section whose dictionary is topDict, or 0
    xrefStms,   \* _xrefStms
    table,      \* tableState, or NoState
    strm,       \* streamState, or NoState
    pc,         \* where readXRef is
    parsed,     \* startXRefParsedCache, local to readXRef
    first,      \* first, local to readXRefTable
    missing     \* how many reads have found their data missing

fields == <<file, queue, entries, topDict, xrefStms, table, strm>>
locals == <<pc, parsed, first>>
xrefVars == <<fields, locals, missing>>

NoState == [pos |-> -1]

XRefInit ==
    /\ file \in Files
    /\ queue = <<1>>
    /\ entries = << >>
    /\ topDict = 0
    /\ xrefStms = {}
    /\ table = NoState /\ strm = NoState
    /\ pc = "call" /\ parsed = {} /\ first = 0
    /\ missing = 0

Current == Head(queue)

------------------------------------------------------------------------------

\* readXRef begins, for the first time or once more.
Call ==
    /\ pc = "call"
    /\ pc' = "next" /\ parsed' = {}
    /\ UNCHANGED <<fields, first, missing>>

\* A FormatError: the section is given up.  The state of a half-read table or
\* stream stays where it is.
GiveUp ==
    /\ queue' = Tail(queue)
    /\ pc' = "next"
    /\ UNCHANGED <<entries, topDict, xrefStms, table, strm>>

SkipParsed ==
    /\ pc = "next" /\ queue # << >> /\ Current \in parsed
    /\ queue' = Tail(queue)
    /\ UNCHANGED <<file, entries, topDict, xrefStms, table, strm, locals, missing>>

\* processXRefTable takes up the state that is there; first is read from it.
OpenTable ==
    /\ file[Current].kind = "table"
    /\ table' = IF table # NoState THEN table
                ELSE [sec |-> Current, sub |-> 1, inSub |-> FALSE, entryNum |-> 0, pos |-> 0]
    /\ first' = IF table'.inSub THEN file[table'.sec].ranges[table'.sub][1] ELSE 0
    /\ pc' = "table"
    /\ UNCHANGED <<queue, entries, topDict, xrefStms, strm>>

OpenStream ==
    /\ file[Current].kind = "stream"
    /\ strm' = IF strm # NoState THEN strm
               ELSE [ranges |-> file[Current].ranges, entryNum |-> 0, pos |-> 0]
    /\ pc' = "stream"
    /\ UNCHANGED <<queue, entries, topDict, xrefStms, table, first>>

\* Mutant of Open: the section is not noted as parsed.
OpenForgets ==
    /\ pc = "next" /\ queue # << >>
    /\ \/ OpenTable
       \/ OpenStream
       \/ file[Current].kind = "junk" /\ GiveUp /\ UNCHANGED first
    /\ UNCHANGED <<file, parsed, missing>>

Open ==
    /\ pc = "next" /\ queue # << >> /\ Current \notin parsed
    /\ parsed' = parsed \cup {Current}
    /\ \/ OpenTable
       \/ OpenStream
       \/ file[Current].kind = "junk" /\ GiveUp /\ UNCHANGED first
    /\ UNCHANGED <<file, missing>>

\* Mutant of Enter: the section that is read last defines it.
EnterAlways(num, sec, pos) ==
    entries' = (num :> [sec |-> sec, pos |-> pos, free |-> file[sec].records[pos] = "free"])
               @@ entries

\* The section that was read first defines an object.
Enter(num, sec, pos) ==
    entries' = IF num \in DOMAIN entries THEN entries
               ELSE entries @@ (num :> [sec |-> sec, pos |-> pos,
                                        free |-> file[sec].records[pos] = "free"])

Subsection == file[table.sec].ranges[table.sub]
AtTrailer == ~table.inSub /\ table.sub > Len(file[table.sec].ranges)

ReadTableHeader ==
    /\ ~table.inSub /\ ~AtTrailer
    /\ table' = [table EXCEPT !.inSub = TRUE]
    /\ first' = Subsection[1]
    /\ UNCHANGED <<queue, entries, pc>>

\* Object 0 is free and comes first: a subsection that begins with a free object 1
\* is taken to begin with 0.
FirstNumber(free) == IF table.entryNum = 0 /\ free /\ first = 1 THEN 0 ELSE first

ReadTableEntry ==
    /\ table.inSub /\ table.entryNum < Subsection[2]
    /\ LET pos == table.pos + 1
       IN  /\ file[table.sec].records[pos] # "bad"
           /\ first' = FirstNumber(file[table.sec].records[pos] = "free")
           /\ Enter(first' + table.entryNum, table.sec, pos)
           /\ table' = [table EXCEPT !.entryNum = @ + 1, !.pos = pos]
    /\ UNCHANGED <<queue, pc>>

EndTableRange ==
    /\ table.inSub /\ table.entryNum = Subsection[2]
    /\ table' = [table EXCEPT !.inSub = FALSE, !.entryNum = 0, !.sub = @ + 1]
    /\ UNCHANGED <<queue, entries, pc, first>>

BadTable ==
    \/ /\ table.inSub /\ table.entryNum < Subsection[2]
       /\ file[table.sec].records[table.pos + 1] = "bad"
    \/ AtTrailer /\ 0 \in DOMAIN entries /\ ~entries[0].free

ReadTable ==
    /\ pc = "table"
    /\ \/ ReadTableHeader /\ UNCHANGED <<topDict, xrefStms, strm>>
       \/ ReadTableEntry /\ UNCHANGED <<topDict, xrefStms, strm>>
       \/ EndTableRange /\ UNCHANGED <<topDict, xrefStms, strm>>
       \/ BadTable /\ GiveUp /\ UNCHANGED first
    /\ UNCHANGED <<file, parsed, missing>>

TopDict(sec) == IF topDict = 0 THEN sec ELSE topDict

Named(pos) == IF pos = 0 THEN << >> ELSE <<pos>>

\* The dictionary of a section has been read: the sections it names are queued, the
\* stream of a hybrid file before the previous section.
Queued(sec) ==
    LET xrefStm == IF file[sec].kind = "table" /\ file[sec].xrefStm \notin xrefStms
                   THEN Named(file[sec].xrefStm) ELSE << >>
    IN  /\ queue' = Tail(queue) \o xrefStm \o Named(file[sec].prev)
        /\ xrefStms' = xrefStms \cup {xrefStm[i] : i \in DOMAIN xrefStm}

ReadTrailer ==
    /\ pc = "table" /\ AtTrailer /\ ~BadTable
    /\ topDict' = TopDict(table.sec)
    /\ Queued(table.sec)
    /\ table' = NoState
    /\ pc' = "next"
    /\ UNCHANGED <<file, entries, strm, parsed, first, missing>>

\* The position of the state is one in the stream that is read now.
StreamSection == Head(strm.ranges)
AtEnd == strm.pos = Len(file[Current].records)

ReadStreamEntry ==
    /\ strm.ranges # << >> /\ strm.entryNum < StreamSection[2]
    /\ ~AtEnd /\ file[Current].records[strm.pos + 1] # "bad"
    /\ Enter(StreamSection[1] + strm.entryNum, Current, strm.pos + 1)
    /\ strm' = [strm EXCEPT !.entryNum = @ + 1, !.pos = @ + 1]
    /\ UNCHANGED <<queue, topDict, xrefStms, pc, table>>

EndStreamRange ==
    /\ strm.ranges # << >> /\ strm.entryNum = StreamSection[2]
    /\ strm' = [strm EXCEPT !.ranges = Tail(@), !.entryNum = 0]
    /\ UNCHANGED <<queue, entries, topDict, xrefStms, pc, table>>

BadStream ==
    /\ strm.ranges # << >> /\ strm.entryNum < StreamSection[2]
    /\ AtEnd \/ file[Current].records[strm.pos + 1] = "bad"
    /\ GiveUp

EndStream ==
    /\ strm.ranges = << >>
    /\ topDict' = TopDict(Current)
    /\ Queued(Current)
    /\ strm' = NoState
    /\ pc' = "next"
    /\ UNCHANGED <<entries, table>>

ReadStream ==
    /\ pc = "stream"
    /\ ReadStreamEntry \/ EndStreamRange \/ BadStream \/ EndStream
    /\ UNCHANGED <<file, parsed, first, missing>>

\* A read finds its data missing: all local variables are lost.
MissingData ==
    /\ missing < MaxMissing
    /\ \/ pc = "next" /\ queue # << >> /\ Current \notin parsed
       \/ pc = "table" /\ (table.inSub => table.entryNum < Subsection[2])
       \/ pc = "stream" /\ strm.ranges # << >> /\ strm.entryNum < StreamSection[2]
    /\ missing' = missing + 1
    /\ pc' = "call"
    /\ UNCHANGED <<fields, parsed, first>>

\* The queue is empty: the table is returned, or XRefParseException is thrown.
Return ==
    /\ pc = "next" /\ queue = << >>
    /\ pc' = IF topDict # 0 THEN "done" ELSE "failed"
    /\ UNCHANGED <<fields, parsed, first, missing>>

Reads == Call \/ SkipParsed \/ Open \/ ReadTable \/ ReadTrailer \/ ReadStream \/ Return

XRefNext == Reads \/ MissingData

XRefSpec == XRefInit /\ [][XRefNext]_xrefVars /\ WF_xrefVars(Reads)

------------------------------------------------------------------------------
(* What the table promises.                                                 *)

\* The numbers of a section's records; a misnumbered subsection begins at 0.
Misnumbered(sec) ==
    /\ file[sec].kind = "table" /\ file[sec].ranges # << >>
    /\ file[sec].ranges[1][1] = 1 /\ file[sec].ranges[1][2] > 0 /\ file[sec].records[1] = "free"

Before[sec \in Nat, sub \in Nat] ==
    IF sub = 1 THEN 0 ELSE Before[sec, sub - 1] + file[sec].ranges[sub - 1][2]

Listed(sec) ==
    UNION {{<<file[sec].ranges[sub][1] + i - (IF sub = 1 /\ Misnumbered(sec) THEN 1 ELSE 0),
              Before[sec, sub] + i + 1>> : i \in 0 .. file[sec].ranges[sub][2] - 1} :
           sub \in DOMAIN file[sec].ranges}

Numbers(sec) == {x[1] : x \in Listed(sec)}

\* The newest definition of an object: in a section, in the stream of a hybrid one, or
\* in the sections before it.
Newest[num \in Nat, sec \in Nat, seen \in SUBSET Nat] ==
    IF sec = 0 \/ sec \in seen THEN 0
    ELSE IF num \in Numbers(sec) THEN sec
    ELSE IF file[sec].xrefStm # 0 /\ num \in Numbers(file[sec].xrefStm) THEN file[sec].xrefStm
    ELSE Newest[num, file[sec].prev, seen \cup {sec}]

WellFormed(sec) ==
    /\ file[sec].kind # "junk"
    /\ \A i \in DOMAIN file[sec].records : file[sec].records[i] # "bad"
    /\ \A x \in Listed(sec) : x[1] = 0 => file[sec].records[x[2]] = "free"
    /\ file[sec].xrefStm # 0 => file[file[sec].xrefStm].prev = 0

\* Every entry is one that its section lists under this number, whatever was missing and
\* whatever was broken; and for a sound file the table that is returned is complete:
\* each object as it was last defined, although the reading may have been cut off at
\* every entry, and sections may name each other in a circle.
EntriesAsListed ==
    \A num \in DOMAIN entries : \E x \in Listed(entries[num].sec) :
        x = <<num, entries[num].pos>>

TableIsNewest ==
    /\ EntriesAsListed
    /\ pc = "done" /\ (\A sec \in DOMAIN file : WellFormed(sec)) =>
         \A num \in UNION {Numbers(sec) : sec \in DOMAIN file} :
            LET sec == Newest[num, 1, {}]
            IN  IF sec = 0 THEN num \notin DOMAIN entries
                ELSE num \in DOMAIN entries /\ entries[num].sec = sec

\* The reading ends, although the set of parsed sections is forgotten at each
\* missing read.
ReadingDone == pc \in {"done", "failed"}

\* "so we can resume from middle of table in case of missing data error"
ResumeIsTransparent == EntriesAsListed
==============================================================================
