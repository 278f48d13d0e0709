---------------------------------- MODULE Logs ----------------------------------
(***************************************************************************)
(* rdt-logging: the writer that redacts log lines and mirrors them into    *)
(* the ring buffer of the Logs page (redact_writer.rs, buffer.rs), and the *)
(* audit trail (audit.rs).                                                 *)
(*                                                                         *)
(* The threads of a process write through clones of one writer, which      *)
(* share the text that has not become a line yet; a write holds its lock.  *)
(* The desktop and the agent append to one audit file without a lock: an   *)
(* append is one write call, unless the system takes only part of it.      *)
(***************************************************************************)
EXTENDS Redaction, Lists, FiniteSets

CONSTANTS
    Loggers,    \* that log
    Chunks,     \* a sequence: the bytes the first, second... write may bring
    Capacities, \* of the ring buffer
    Auditors,   \* processes with the audit file open
    MaxRecords, \* bound: audit records
    MaxShort,   \* bound: writes of the audit file that are cut short
    NoRecord

(* The bytes of a text: "m" has two, every other symbol counts as one. *)
Halves == {"lead", "trail"}
Bytes == (Symbols \ {"m"}) \cup Halves

ASSUME LogsAssumption ==
    /\ Chunks \in Seq(SUBSET Seq(Bytes))
    /\ Capacities \subseteq Nat
    /\ MaxRecords \in Nat /\ MaxShort \in Nat
    /\ NoRecord \notin Nat \X {"rest", "tail", "none"}

VARIABLES
    pending,    \* text of the writer that is not a line yet
    capacity,
    entries,    \* the ring buffer: who completed the line, and the line
    dropped,
    sink,       \* pieces handed to the inner writer
    handed,     \* history: the bytes of each write, in the order of the lock
    taken,      \* history: the pieces taken out of their text
    cleared,    \* history: pieces taken when the buffer was last cleared
    writes,
    attached,   \* the auditors whose open() succeeded
    file,       \* the audit file
    appending,  \* the record each process has written part of
    reported,   \* records whose append succeeded
    records, shorts

writerVars == <<pending, capacity, entries, dropped, sink, handed, taken, cleared, writes>>
auditVars == <<attached, file, appending, reported, records, shorts>>
logVars == <<writerVars, auditVars>>

(* AuditLog::open; a process that cannot open the file goes on with the log
   that discards its records. *)
AuditOpened == attached \in SUBSET Auditors

LogInit ==
    /\ pending = <<>> /\ capacity \in Capacities /\ entries = <<>> /\ dropped = 0
    /\ sink = <<>> /\ handed = <<>> /\ taken = <<>> /\ cleared = 0 /\ writes = 0
    /\ AuditOpened /\ file = <<>> /\ appending = [a \in Auditors |-> NoRecord]
    /\ reported = {} /\ records = 0 /\ shorts = 0

------------------------------------------------------------------------------
(* LogBuffer::push: the oldest entries make room.  A buffer without capacity
   keeps nothing and counts nothing. *)

Latest(n, seq) == SubSeq(seq, IF Len(seq) > n THEN Len(seq) - n + 1 ELSE 1, Len(seq))

Push(new) ==
    IF capacity = 0 THEN UNCHANGED <<entries, dropped>>
    ELSE /\ entries' = Latest(capacity, entries \o new)
         /\ dropped' = dropped + Len(entries \o new) - Len(entries')

(* Where the lines of a text end, and the lines with their ends. *)
Ends(text) == Kept([i \in DOMAIN text |-> i], {i \in DOMAIN text : text[i] = "n"})
LineBreak(text, i) == IF i = 0 THEN 0 ELSE Ends(text)[i]
Line(text, i) == SubSeq(text, LineBreak(text, i - 1) + 1, LineBreak(text, i))
Trim(piece) == SubSeq(piece, 1, Max({0} \cup {i \in DOMAIN piece : piece[i] # "n"}))

(* A piece of the text is a line that was completed, or what a flush found; a
   line is mirrored unless it is empty.  redact_line *)
Piece(text, flushed) == [text |-> text, flushed |-> flushed]
Lines(text, n) == [i \in 1..n |-> Piece(Line(text, i), FALSE)]
Mirrored(pieces) ==
    Kept(pieces, {p \in ToSet(pieces) : p.flushed \/ Trim(p.text) # <<>>})
Message(piece) == Redact(Trim(piece.text))
Mirror(t, pieces) ==
    Push([i \in DOMAIN Mirrored(pieces) |-> [by |-> t, text |-> Message(Mirrored(pieces)[i])]])

(* String::from_utf8_lossy: half a character becomes U+FFFD. *)
CharAt(bytes, i) ==
    {i, i + 1} \subseteq DOMAIN bytes /\ bytes[i] = "lead" /\ bytes[i + 1] = "trail"
Decoded(bytes, i) ==
    IF CharAt(bytes, i) THEN <<"m">>
    ELSE IF CharAt(bytes, i - 1) THEN <<>>
    ELSE IF bytes[i] \in Halves THEN <<"?">> ELSE <<bytes[i]>>
Lossy(bytes) == FlattenSeq([i \in DOMAIN bytes |-> Decoded(bytes, i)])

(* RedactingWriter::write: the chunk, decoded for itself, joins the pending
   text, whichever thread wrote that, and every complete line is taken out,
   redacted, mirrored unless it is empty, and passed on.  An error of the inner
   writer ends this after line n: that line is gone and the lines behind it
   stay pending. *)
TakeLinesForgetful(t, chunk, n, whole) ==
    LET text == pending \o Lossy(chunk)
        lines == Lines(text, n)
    IN /\ handed' = Append(handed, chunk)
       /\ taken' = taken \o lines
       /\ pending' = IF whole THEN SubSeq(text, LineBreak(text, n) + 1, Len(text)) ELSE <<>>
       /\ Mirror(t, lines)
       /\ sink' = sink \o [i \in 1..(IF whole THEN n ELSE n - 1) |-> Append(Message(lines[i]), "n")]
       /\ writes' = writes + 1
       /\ UNCHANGED <<capacity, cleared, auditVars>>

TakeLines(t, chunk, n, whole) ==
    LET text == pending \o Lossy(chunk)
        lines == Lines(text, n)
    IN /\ handed' = Append(handed, chunk)
       /\ taken' = taken \o lines
       /\ pending' = SubSeq(text, LineBreak(text, n) + 1, Len(text))
       /\ Mirror(t, lines)
       /\ sink' = sink \o [i \in 1..(IF whole THEN n ELSE n - 1) |-> Append(Message(lines[i]), "n")]
       /\ writes' = writes + 1
       /\ UNCHANGED <<capacity, cleared, auditVars>>

Write(t, chunk) == TakeLines(t, chunk, Len(Ends(pending \o Lossy(chunk))), TRUE)
WriteFails(t, chunk) ==
    \E n \in 1..Len(Ends(pending \o Lossy(chunk))) : TakeLines(t, chunk, n, FALSE)

(* RedactingWriter::flush: what is pending is treated as a line without end,
   and is gone also when the inner writer fails. *)
Flush(t) ==
    /\ pending # <<>>
    /\ pending' = <<>>
    /\ taken' = Append(taken, Piece(pending, TRUE))
    /\ Mirror(t, <<Piece(pending, TRUE)>>)
    /\ \E whole \in BOOLEAN :
          sink' = IF whole THEN Append(sink, Message(Piece(pending, TRUE))) ELSE sink
    /\ UNCHANGED <<capacity, handed, cleared, writes, auditVars>>

(* LogBuffer::clear keeps the count of dropped entries. *)
Clear ==
    /\ entries # <<>>
    /\ entries' = <<>>
    /\ cleared' = Len(taken)
    /\ UNCHANGED <<pending, capacity, dropped, sink, handed, taken, writes, auditVars>>

WriterNext ==
    \/ /\ writes < Len(Chunks)
       /\ \E t \in Loggers, chunk \in Chunks[writes + 1] : Write(t, chunk) \/ WriteFails(t, chunk)
    \/ \E t \in Loggers : Flush(t)
    \/ Clear

------------------------------------------------------------------------------
(* The audit trail.  A record is a line of JSON.  Part of it: "head" and
   "tail", "cut" and "rest" when the cut falls inside a character, or all of it
   but the line break. *)

Part(r, name) == <<r, name>>
Break == <<0, "break">>
Cuts == [between |-> <<"head", "tail">>, inside |-> <<"cut", "rest">>, atEnd |-> <<"all", "none">>]

(* A discarded record is reported to nobody: the callers do not look. *)
AppendRecord(a) ==
    /\ appending[a] = NoRecord /\ records < MaxRecords
    /\ records' = records + 1
    /\ IF a \in attached
       THEN /\ file' = file \o <<Part(records + 1, "all"), Break>>
            /\ reported' = reported \cup {records + 1}
       ELSE UNCHANGED <<file, reported>>
    /\ UNCHANGED <<attached, appending, shorts, writerVars>>
AppendPart(a, cut) ==
    /\ a \in attached
    /\ appending[a] = NoRecord /\ records < MaxRecords /\ shorts < MaxShort
    /\ records' = records + 1 /\ shorts' = shorts + 1
    /\ file' = Append(file, Part(records + 1, Cuts[cut][1]))
    /\ appending' = [appending EXCEPT ![a] = Part(records + 1, Cuts[cut][2])]
    /\ UNCHANGED <<attached, reported, writerVars>>

(* write_all goes on with the rest; or that fails, or the process dies. *)
AppendRest(a) ==
    /\ appending[a] # NoRecord
    /\ file' = file \o (IF appending[a][2] = "none" THEN <<Break>> ELSE <<appending[a], Break>>)
    /\ appending' = [appending EXCEPT ![a] = NoRecord]
    /\ reported' = reported \cup {appending[a][1]}
    /\ UNCHANGED <<attached, records, shorts, writerVars>>
AppendFails(a) ==
    /\ appending[a] # NoRecord
    /\ appending' = [appending EXCEPT ![a] = NoRecord]
    /\ UNCHANGED <<attached, file, reported, records, shorts, writerVars>>

AuditNext ==
    \E a \in Auditors :
        \/ AppendRecord(a) \/ AppendRest(a) \/ AppendFails(a)
        \/ \E cut \in DOMAIN Cuts : AppendPart(a, cut)

(* read_recent_from reads the file as text, which fails where a character is
   incomplete, and leaves out the lines that are not a record. *)
IsText ==
    \A i \in DOMAIN file : file[i][2] = "cut" =>
        i < Len(file) /\ file[i + 1] = Part(file[i][1], "rest")

Breaks == Kept([i \in DOMAIN file |-> i], {i \in DOMAIN file : file[i] = Break})
LastBreak == IF Breaks = <<>> THEN 0 ELSE Breaks[Len(Breaks)]
AuditLine(i) ==
    SubSeq(file, (IF i = 1 THEN 0 ELSE Breaks[i - 1]) + 1,
                 IF i > Len(Breaks) THEN Len(file) ELSE Breaks[i] - 1)
AuditLines == [i \in 1..(Len(Breaks) + IF LastBreak < Len(file) THEN 1 ELSE 0) |-> AuditLine(i)]

IsRecord(l) ==
    \/ Len(l) = 1 /\ l[1][2] = "all"
    \/ Len(l) = 2 /\ l[1][1] = l[2][1] /\ <<l[1][2], l[2][2]>> \in {Cuts[c] : c \in DOMAIN Cuts}
RecordsUntilTorn ==
    LET torn == {i \in DOMAIN AuditLines : ~IsRecord(AuditLines[i])}
        end == IF torn = {} THEN Len(AuditLines) ELSE Min(torn) - 1
    IN [i \in 1..end |-> AuditLines[i][1][1]]
Records ==
    LET good == Kept(AuditLines, {l \in ToSet(AuditLines) : IsRecord(l)})
    IN [i \in DOMAIN good |-> good[i][1][1]]
ReadRecent(limit) == Latest(limit, Records)

LogNext == WriterNext \/ AuditNext
LogSpec == LogInit /\ [][LogNext]_logVars

------------------------------------------------------------------------------
(* Properties. *)

(* write and flush, redact_writer.rs:76-102, push, buffer.rs:41-50: however
   the threads' writes take turns at the shared text, and whichever writes of
   the inner writer fail, nothing that the writes brought is lost, taken twice
   or moved.  What a write brought is its bytes decoded for themselves: the
   halves of a character that two writes share are two U+FFFD, and that
   character is lost.  The buffer holds the latest lines taken since it was
   cleared. *)
Brought(parts) == FlattenSeq([i \in DOMAIN parts |-> Lossy(parts[i])])
TextOf(pieces) == FlattenSeq([i \in DOMAIN pieces |-> pieces[i].text])
Messages(pieces) == [i \in DOMAIN Mirrored(pieces) |-> Message(Mirrored(pieces)[i])]
TextIsAccounted ==
    /\ Brought(handed) = TextOf(taken) \o pending
    /\ [i \in DOMAIN entries |-> entries[i].text] =
          Latest(capacity, Messages(SubSeq(taken, cleared + 1, Len(taken))))

(* redact, redact.rs:68-76, and redact_line: what reaches the inner writer and
   the buffer is the line, whichever writes and threads brought its parts, with
   nothing replaced but registered secrets and values of sensitive keys.  No
   registered secret is left.  The value of a sensitive key is not left either
   if it is in no earlier pair's value and the registered secrets leave its key
   and its separator alone; "error: password=x" is left as it is, which
   docs/SECURITY.md:17 does not say. *)
RedactedExactly ==
    /\ \A i \in DOMAIN taken : ExactlyRedacted(Trim(taken[i].text), Message(taken[i]))
    /\ \A i \in DOMAIN sink : \A w \in ToSet(Secrets) : ~Occurs(w, sink[i])
    /\ \A i \in DOMAIN entries : \A w \in ToSet(Secrets) : ~Occurs(w, entries[i].text)

(* record and read_recent_from, audit.rs:178-209: records of both processes
   that were reported written are read back, except that an append that was
   cut short may cost itself and one more, as long as no character was cut. *)
AuditSurvivesShortWrites ==
    IsText => Cardinality(reported \ ToSet(Records)) <= 2 * shorts
==================================================================================
