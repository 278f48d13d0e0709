------------------------------- MODULE VtParser -------------------------------
(***************************************************************************)
(* The escape-sequence parser of the terminal (rdt-terminal, parser.rs).   *)
(*                                                                         *)
(* Bytes are numbers, so a guard is the byte range of the match arm it     *)
(* stands for.  One call of `advance` is a batch: bytes are stepped one at *)
(* a time, their actions collect in `out`, and the terminal applies all of *)
(* them when the slice ends; a full reset among them replaces the parser,  *)
(* after the whole slice was parsed (EndBatch).                            *)
(*                                                                         *)
(* Bounds: parameters saturate at ParamMax (65535 in the code); the text   *)
(* of a sequence and a string take at most MaxSeq and MaxString bytes (the *)
(* intermediate bytes one more),                                           *)
(* which the code does not limit.                                          *)
(***************************************************************************)
EXTENDS Integers, Sequences, SequencesExt, Lists

CONSTANTS Bytes,        \* the bytes the remote side may send
          ParamMax,     \* where a numeric parameter saturates
          MaxSeq, MaxString

ASSUME ParserAssumption ==
    /\ Bytes \subseteq 0..255
    /\ ParamMax \in Nat /\ MaxSeq \in Nat /\ MaxString \in Nat

VARIABLES
    pstate,      \* State
    params,      \* the numeric parameters pushed so far
    current,     \* the parameter being read, or NoParam
    inter,       \* markers and intermediate bytes
    ignore,      \* the sequence is malformed
    osc,         \* the OSC string so far
    dcs,         \* device control data not yet emitted
    utf8,        \* the bytes of a partial character
    expected,    \* how many bytes that character has
    pendingDcs,  \* the start of a device control string was not emitted yet
    out,         \* the actions the last byte produced
    resets,      \* the batch holds a full reset
    since        \* history: the graphic bytes of the sequence's header

csiVars == <<params, current, inter, ignore>>
strVars == <<osc, dcs>>
utfVars == <<utf8, expected>>
parserVars == <<pstate, csiVars, strVars, utfVars, pendingDcs, out, resets, since>>

NoParam == -1
CAN == 24    SUB == 26    ESC == 27    BEL == 7
Digits == 48..57
Markers == 60..63
Intermediates == 32..47
Finals == 64..126

\* The states in which ESC is part of the string.
StringStates == {"OscString", "DcsPassthrough", "SosPmApcString"}
CsiStates == {"CsiEntry", "CsiParam", "CsiIntermediate", "CsiIgnore"}
DcsStates == {"DcsEntry", "DcsParam", "DcsIntermediate"}
PStates == {"Ground", "Escape", "EscapeIntermediate", "DcsIgnore"}
               \cup StringStates \cup CsiStates \cup DcsStates

Printed(ch) == [kind |-> "print", char |-> ch]        \* <<>> is the replacement character
Execute(b) == [kind |-> "execute", code |-> b]
Csi(ps, is, ig, b) == [kind |-> "csi", params |-> ps, inter |-> is, ignore |-> ig, final |-> b]
EscAct(is, b) == [kind |-> "esc", inter |-> is, final |-> b]
Osc(ps, bel) == [kind |-> "osc", params |-> ps, bell |-> bel]
DcsStart == [kind |-> "dcs_start"]                  \* ignored by the terminal, like its data
DcsData(ds) == [kind |-> "dcs_data", data |-> ds]
DcsEnd == [kind |-> "dcs_end"]
IsFullReset(a) == a.kind = "esc" /\ a.final = 99     \* ESC c, whatever stands between

-------------------------------------------------------------------------------
\* Parser::new.
Fresh ==
    /\ pstate = "Ground"
    /\ params = <<>> /\ current = NoParam /\ inter = <<>> /\ ignore = FALSE
    /\ osc = <<>> /\ dcs = <<>> /\ utf8 = <<>> /\ expected = 0 /\ pendingDcs = FALSE

ParserInit == Fresh /\ out = <<>> /\ resets = FALSE /\ since = <<>>

Goto(s) == pstate' = s
EmitAll(as) == out' = as
Emit(a) == EmitAll(<<a>>)
Silent == EmitAll(<<>>)

\* A mutant: a parameter that was being read stays.
ClearCsiKeepingCurrent == params' = <<>> /\ inter' = <<>> /\ ignore' = FALSE /\ UNCHANGED current
ClearCsi == params' = <<>> /\ current' = NoParam /\ inter' = <<>> /\ ignore' = FALSE
ClearStrings == osc' = <<>> /\ dcs' = <<>>
ClearUtf8 == utf8' = <<>> /\ expected' = 0

\* clear(): everything collected, except a pending device control start.
Clear == ClearCsi /\ ClearStrings /\ ClearUtf8 /\ UNCHANGED pendingDcs

\* What push_param pushes: a missing parameter counts as 0.
CurrentOr0 == IF current = NoParam THEN 0 ELSE current
PushParam == params' = Append(params, CurrentOr0) /\ current' = NoParam

\* Reading a digit saturates, at 16 bits in the code.
Saturate(n) == IF n > ParamMax THEN ParamMax ELSE n
AddDigit(b) == current' = Saturate(CurrentOr0 * 10 + (b - 48))

\* split(';') of a string: the fields between the semicolons.
SplitOsc(s) == Split(s, 59)

-------------------------------------------------------------------------------
(* Ground.  A byte of 128 and more goes through the UTF-8 decoder, and so   *)
(* does an ASCII byte that breaks off a partial character.                  *)

GroundAction(b) == IF b < 32 THEN Execute(b) ELSE Printed(<<b>>)

Lead(b) == IF b \in 192..223 THEN 2 ELSE IF b \in 224..239 THEN 3 ELSE 4
IsLead(b) == b \in 192..247
IsContinuation(b) == b \in 128..191

\* What from_utf8 accepts: no overlong form, no surrogate, at most U+10FFFF.
WellFormed(s) ==
    /\ s[1] \notin {192, 193} /\ s[1] <= 244
    /\ s[1] = 224 => s[2] >= 160
    /\ s[1] = 237 => s[2] <= 159
    /\ s[1] = 240 => s[2] >= 144
    /\ s[1] = 244 => s[2] <= 143
Decode(s) == Printed(IF WellFormed(s) THEN s ELSE <<>>)

\* The first byte of a character, or a byte that cannot be one.
StartChar(b) ==
    IF IsLead(b) THEN utf8' = <<b>> /\ expected' = Lead(b) ELSE ClearUtf8

Ground(b) ==
    /\ pstate = "Ground"
    /\ IF utf8 = <<>>
       THEN \/ /\ b < 128
               /\ Emit(GroundAction(b)) /\ UNCHANGED utfVars
            \/ /\ b >= 128
               /\ IF IsLead(b) THEN Silent /\ StartChar(b)
                  ELSE Emit(Printed(<<>>)) /\ UNCHANGED utfVars
       ELSE \/ /\ IsContinuation(b)
               /\ IF Len(utf8) + 1 = expected
                  THEN Emit(Decode(Append(utf8, b))) /\ ClearUtf8
                  ELSE utf8' = Append(utf8, b) /\ UNCHANGED expected /\ Silent
            \/ /\ ~IsContinuation(b)      \* replacement, and the byte again
               /\ EmitAll(<<Printed(<<>>)>> \o
                          (IF b < 128 THEN <<GroundAction(b)>>
                           ELSE IF IsLead(b) THEN <<>> ELSE <<Printed(<<>>)>>))
               /\ StartChar(b)
    /\ UNCHANGED <<pstate, csiVars, strVars, pendingDcs>>

-------------------------------------------------------------------------------
(* Escape sequences of two or three bytes.                                  *)

DispatchEsc(b) ==
    /\ Emit(EscAct(inter, b)) /\ Goto("Ground")
    /\ inter' = <<>> /\ UNCHANGED <<params, current, ignore>>

\* What follows ESC: the introducer of a sequence or a string, `ESC \`, which
\* ends a string and does nothing, an intermediate or a final byte.
Introduces(b) ==
    IF b = 91 THEN "CsiEntry" ELSE IF b = 93 THEN "OscString"
    ELSE IF b = 80 THEN "DcsEntry" ELSE IF b \in {88, 94, 95} THEN "SosPmApcString"
    ELSE IF b = 92 THEN "Ground" ELSE "None"

Escape(b) ==
    /\ pstate = "Escape"
    /\ \/ /\ Introduces(b) # "None"
          /\ Goto(Introduces(b)) /\ UNCHANGED csiVars /\ Silent
       \/ /\ b \in Intermediates
          /\ inter' = Append(inter, b) /\ Goto("EscapeIntermediate")
          /\ UNCHANGED <<params, current, ignore>> /\ Silent
       \/ /\ b \in 48..126 /\ Introduces(b) = "None"
          /\ DispatchEsc(b)
       \/ /\ b \notin 32..126
          /\ Goto("Ground") /\ UNCHANGED csiVars /\ Silent
    /\ osc' = (IF b = 93 THEN <<>> ELSE osc)
    /\ UNCHANGED <<dcs, utfVars, pendingDcs>>

EscapeIntermediate(b) ==
    /\ pstate = "EscapeIntermediate"
    /\ \/ /\ b \in Intermediates
          /\ inter' = Append(inter, b) /\ UNCHANGED <<pstate, params, current, ignore>> /\ Silent
       \/ /\ b \in 48..126
          /\ DispatchEsc(b)
       \/ /\ b \notin 32..126
          /\ Goto("Ground") /\ UNCHANGED csiVars /\ Silent
    /\ UNCHANGED <<strVars, utfVars, pendingDcs>>

-------------------------------------------------------------------------------
(* Control sequences and the header of device control strings.  Both read   *)
(* parameters in the same way; they differ in what a marker after the       *)
(* parameters does, in the sub-parameter separator and in the final byte.   *)

\* The final byte: the parameter being read is pushed, and the collected
\* values move into the action.
DispatchCsi(b) ==
    /\ Emit(Csi(Append(params, CurrentOr0), inter, ignore, b))
    /\ Goto("Ground") /\ ClearCsi /\ UNCHANGED <<dcs, pendingDcs>>

DispatchDcs ==
    /\ pendingDcs' = TRUE
    /\ params' = <<>> /\ current' = NoParam /\ inter' = <<>> /\ dcs' = <<>>
    /\ Goto("DcsPassthrough") /\ UNCHANGED ignore /\ Silent

Dispatch(b) == IF pstate \in CsiStates THEN DispatchCsi(b) ELSE DispatchDcs
To(csi, dcsState) == Goto(IF pstate \in CsiStates THEN csi ELSE dcsState)

\* A digit or a semicolon, which may be the first parameter byte.
ReadParam(b) ==
    /\ \/ /\ b \in Digits
          /\ AddDigit(b) /\ UNCHANGED params
       \/ /\ b = 59
          /\ PushParam
    /\ To("CsiParam", "DcsParam") /\ UNCHANGED <<inter, ignore>>

Collect(b) == inter' = Append(inter, b) /\ UNCHANGED <<params, current, ignore>>

\* `:` separates sub-parameters: the rest of a control sequence is skipped, and
\* what was read is dispatched as ignored.
SubParameter ==
    /\ pstate \in {"CsiEntry", "CsiParam"}
    /\ PushParam /\ Goto("CsiIgnore") /\ UNCHANGED <<inter, ignore>>

\* A marker behind the parameters, or a parameter byte behind an
\* intermediate one, makes the sequence invalid.
Invalid ==
    /\ To("CsiIgnore", "DcsIgnore")
    /\ ignore' = (ignore \/ pstate \in CsiStates) /\ UNCHANGED <<params, current, inter>>

IsEntry == pstate \in {"CsiEntry", "DcsEntry"}
IsParam == pstate \in {"CsiParam", "DcsParam"}
IsIntermediate == pstate \in {"CsiIntermediate", "DcsIntermediate"}

Header(b) ==
    /\ IsEntry \/ IsParam \/ IsIntermediate
    /\ \/ /\ b \in Finals
          /\ Dispatch(b)
       \/ /\ b \notin Finals
          /\ \/ ~IsIntermediate /\ b \in Digits \cup {59} /\ ReadParam(b)
             \/ b = 58 /\ SubParameter
             \/ IsEntry /\ b \in Markers /\ Collect(b) /\ To("CsiParam", "DcsParam")
             \/ b \in Intermediates /\ Collect(b) /\ To("CsiIntermediate", "DcsIntermediate")
             \/ IsParam /\ b \in Markers /\ Invalid
             \/ IsIntermediate /\ b \in 48..63 /\ Invalid
             \/ /\ b \notin 32..63 \/ (pstate \in {"DcsEntry", "DcsParam"} /\ b = 58)
                /\ UNCHANGED <<pstate, csiVars>>
          /\ UNCHANGED <<dcs, pendingDcs>> /\ Silent
    /\ UNCHANGED <<osc, utfVars>>

CsiIgnore(b) ==
    /\ pstate = "CsiIgnore"
    /\ IF b \in Finals
       THEN Emit(Csi(params, inter, TRUE, b)) /\ Goto("Ground") /\ ClearCsi
       ELSE UNCHANGED <<pstate, csiVars>> /\ Silent
    /\ UNCHANGED <<strVars, utfVars, pendingDcs>>

-------------------------------------------------------------------------------
(* Strings.                                                                 *)

Started == IF pendingDcs THEN <<DcsStart>> ELSE <<>>

\* The data collected so far goes out before the end of the string.
EndDcs == Started \o (IF dcs = <<>> THEN <<>> ELSE <<DcsData(dcs)>>) \o <<DcsEnd>>

DcsPassthrough(b) ==
    /\ pstate = "DcsPassthrough"
    /\ pendingDcs' = FALSE
    /\ \/ /\ b < 127 /\ b # ESC
          /\ dcs' = Append(dcs, b)
          /\ EmitAll(Started)
          /\ UNCHANGED <<pstate, csiVars, utfVars, osc>>
       \/ /\ b = 127
          /\ EmitAll(Started)
          /\ UNCHANGED <<pstate, csiVars, strVars, utfVars>>
       \/ /\ b = ESC
          /\ EmitAll(EndDcs) /\ Goto("Escape")
          /\ ClearCsi /\ ClearStrings /\ ClearUtf8
       \/ /\ b > 127
          /\ EmitAll(EndDcs) /\ Goto("Ground")
          /\ dcs' = <<>> /\ UNCHANGED <<csiVars, utfVars, osc>>

OscString(b) ==
    /\ pstate = "OscString"
    /\ \/ /\ b \in {BEL, ESC}
          /\ Emit(Osc(SplitOsc(osc), b = BEL))
          /\ Goto(IF b = BEL THEN "Ground" ELSE "Escape") /\ osc' = <<>>
       \/ /\ b \in 32..127
          /\ osc' = Append(osc, b) /\ UNCHANGED pstate /\ Silent
       \/ /\ b \notin 32..127 /\ b \notin {BEL, ESC}
          /\ UNCHANGED <<pstate, osc>> /\ Silent
    /\ UNCHANGED <<dcs, csiVars, utfVars, pendingDcs>>

\* Only BEL ends these strings; an ESC is swallowed like any other byte.
SosPmApcString(b) ==
    /\ pstate = "SosPmApcString"
    /\ Goto(IF b = BEL THEN "Ground" ELSE pstate)
    /\ UNCHANGED <<csiVars, strVars, utfVars, pendingDcs>> /\ Silent

\* Everything is swallowed.
DcsIgnore(b) ==
    /\ pstate = "DcsIgnore"
    /\ UNCHANGED <<pstate, csiVars, strVars, utfVars, pendingDcs>> /\ Silent

-------------------------------------------------------------------------------
\* CAN and SUB abort whatever is being read.
Abort(b) == b \in {CAN, SUB} /\ Clear /\ Goto("Ground") /\ Emit(Execute(b))

\* Outside a string ESC drops what was collected and starts over.
StartEscape(b) == b = ESC /\ pstate \notin StringStates /\ Clear /\ Goto("Escape") /\ Silent

\* One byte (step).
Step(b) ==
    \/ Abort(b)
    \/ StartEscape(b)
    \/ /\ b \notin {CAN, SUB} /\ (b = ESC => pstate \in StringStates)
       /\ \/ Ground(b) \/ Escape(b) \/ EscapeIntermediate(b) \/ Header(b) \/ CsiIgnore(b)
          \/ DcsPassthrough(b) \/ DcsIgnore(b) \/ OscString(b) \/ SosPmApcString(b)

\* The bytes behind the introducer of a control sequence or device control
\* string, without the control and the
\* eight-bit bytes that a control sequence skips.
Remember(b) ==
    since' = IF ~({pstate, pstate'} \subseteq CsiStates \cup DcsStates) THEN <<>>
             ELSE IF b \in 32..126 THEN Append(since, b) ELSE since

\* The bounds; what ends a sequence or a string is always received.
Room(b) ==
    \/ b \in {CAN, SUB, ESC} \/ (b = BEL /\ pstate = "OscString")
    \/ b \in Finals /\ pstate \in CsiStates \cup DcsStates
    \/ /\ Len(since) < MaxSeq
       /\ Len(osc) < MaxString /\ Len(dcs) < MaxString /\ Len(inter) <= MaxString

ReceiveByte(b) ==
    /\ Room(b)
    /\ Step(b)
    /\ Remember(b)
    /\ resets' = (resets \/ \E i \in DOMAIN out' : IsFullReset(out'[i]))

\* A new parser.
Renew ==
    /\ Goto("Ground") /\ ClearCsi /\ ClearStrings /\ ClearUtf8
    /\ pendingDcs' = FALSE /\ since' = <<>> /\ Silent /\ resets' = FALSE

\* The slice ends and the terminal applies its actions.  ESC c replaces the
\* parser, with whatever the bytes behind it in the slice had begun.
EndBatch == resets /\ Renew

\* reset_parser, after a reconnect.
ResetParser == ~resets /\ Renew

ParserNext == (\E b \in Bytes : ReceiveByte(b)) \/ EndBatch \/ ResetParser
ParserSpec == ParserInit /\ [][ParserNext]_parserVars

-------------------------------------------------------------------------------
(* Properties. *)

Byte == 0..255
ParserTypeOK ==
    /\ pstate \in PStates
    /\ params \in Seq(0..ParamMax) /\ current \in 0..ParamMax \cup {NoParam}
    /\ inter \in Seq(Byte) /\ ignore \in BOOLEAN
    /\ osc \in Seq(Byte) /\ dcs \in Seq(Byte)
    /\ pendingDcs \in BOOLEAN /\ resets \in BOOLEAN
    /\ utf8 \in Seq(Byte) /\ expected \in {0, 2, 3, 4} /\ Len(utf8) <= expected

\* A definition of the same control sequence by its text: at most one marker,
\* in front; numbers between semicolons, and sub-parameters behind colons;
\* intermediates at the end.
TextValid(s) ==
    \A i \in DOMAIN s :
        /\ s[i] \in Markers => i = 1
        /\ s[i] \in Intermediates => \A j \in i..Len(s) : s[j] \in Intermediates
Number(digits) == Saturate(Spelled(digits))
TextParams(s) ==
    LET fields == Split(Kept(s, Digits \cup {59}), 59)
    IN [i \in DOMAIN fields |-> Number(fields[i])]
TextInter(s) == Kept(s, Markers \cup Intermediates)

\* The text up to its first sub-parameter.
HasSubParameters(s) == Len(Split(s, 58)) > 1
Leading(s) == Split(s, 58)[1]

\* What the parser accumulates byte by byte is what the text of the sequence
\* says: a dispatched control sequence carries exactly the numbers and markers
\* between its introducer and its final byte, up to the first sub-parameter
\* ("collapse to the first value", parser.rs:310); a malformed one is marked,
\* and one that is well-formed and has no sub-parameters is not, whatever came
\* before it and however control and eight-bit bytes are mixed in (csi_entry,
\* csi_param, csi_intermediate, csi_ignore, csi_dispatch).
DispatchMatchesText ==
    [][LET a == Last(out')
       IN (out' # <<>> /\ out' # out /\ a.kind = "csi")
              => /\ ~TextValid(since) => a.ignore
                 /\ TextValid(since) /\ ~HasSubParameters(since) => ~a.ignore
                 /\ TextValid(since) => /\ a.params = TextParams(Leading(since))
                                        /\ a.inter = TextInter(Leading(since))
      ]_parserVars
===============================================================================
