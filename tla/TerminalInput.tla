----------------------------- MODULE TerminalInput -----------------------------
(***************************************************************************)
(* Keyboard encoding (rdt-terminal, input.rs): the bytes a key press sends *)
(* depend on the modifiers and, for the arrows, on a mode the remote side  *)
(* sets.  Bytes are written as the characters they are; ESC is "^[".       *)
(***************************************************************************)
EXTENDS Integers, Sequences

CONSTANT MaxFunction     \* the highest function key pressed

ASSUME InputAssumption == MaxFunction \in Nat

VARIABLE press           \* the key press being encoded
inputVars == <<press>>

\* The modifier bits; the xterm parameter is one more.
SHIFT == 1   ALT == 2   CONTROL == 4
Modifiers == 0..7
Holds(m, bit) == (m \div bit) % 2 = 1

\* Some letters, what they send with Control held, and other characters.
ControlCode == [a |-> "^A", i |-> "\t", m |-> "\r", z |-> "^Z", A |-> "^A"]
Letters == DOMAIN ControlCode
Characters == Letters \cup {" ", "1"}

Arrows == [Up |-> "A", Down |-> "B", Right |-> "C", Left |-> "D"]
HomeEnd == [Home |-> "H", End |-> "F"]
Editing == [Insert |-> "2", Delete |-> "3", PageUp |-> "5", PageDown |-> "6"]
ShortFunction == <<"P", "Q", "R", "S">>
LongFunction == << <<"1", "5">>, <<"1", "7">>, <<"1", "8">>, <<"1", "9">>,
                   <<"2", "0">>, <<"2", "1">>, <<"2", "3">>, <<"2", "4">> >>

\* The modifier parameter, and the sequence most modified special keys send.
Parameter == <<"1", "2", "3", "4", "5", "6", "7", "8">>
Modified(m, letter) == <<"^[", "[", "1", ";", Parameter[m + 1], letter>>

EncodeChar(ch, m) ==
    IF Holds(m, CONTROL) /\ ch \in Letters THEN <<ControlCode[ch]>>
    ELSE IF Holds(m, CONTROL) /\ ch = " " THEN <<"^@">>
    ELSE <<ch>>

\* Enter, Escape, Backspace and Tab look at one modifier at most.
EncodePlain(key, m) ==
    IF key = "Enter" THEN <<"\r">>
    ELSE IF key = "Escape" THEN <<"^[">>
    ELSE IF key = "Backspace" THEN (IF Holds(m, ALT) THEN <<"^[", "^?">> ELSE <<"^?">>)
    ELSE IF Holds(m, SHIFT) THEN <<"^[", "[", "Z">> ELSE <<"\t">>

EncodeArrow(key, m, application) ==
    IF m # 0 THEN Modified(m, Arrows[key])
    ELSE <<"^[", IF application THEN "O" ELSE "[", Arrows[key]>>

EncodeHomeEnd(key, m) ==
    IF m # 0 THEN Modified(m, HomeEnd[key]) ELSE <<"^[", "[", HomeEnd[key]>>

\* A mutant: the modifiers are left out.
EncodeEditingPlainly(key, m) == <<"^[", "[", Editing[key], "~">>
EncodeEditing(key, m) ==
    IF m # 0 THEN <<"^[", "[", Editing[key], ";", Parameter[m + 1], "~">>
    ELSE <<"^[", "[", Editing[key], "~">>

\* F1 to F4 have a letter, F5 to F12 a number; a modifier goes in front of it.
EncodeFunction(n, m) ==
    IF n \in 1..4
    THEN IF m # 0 THEN Modified(m, ShortFunction[n]) ELSE <<"^[", "O", ShortFunction[n]>>
    ELSE IF n \in 5..12
    THEN LET code == LongFunction[n - 4]
         IN IF m # 0 THEN <<"^[", "[", "1", ";", Parameter[m + 1], ";", code[1], code[2], "~">>
            ELSE <<"^[", "[", code[1], code[2], "~">>
    ELSE <<>>

\* encode_paste and encode_line; the text is one element.
EncodePaste(text, bracketed) ==
    IF bracketed THEN <<"^[", "[", "200~", text, "^[", "[", "201~">> ELSE <<text>>
EncodeLine(text, bracketed) == EncodePaste(text, bracketed) \o <<"\r">>

\* encode_key.  A key is its group and its name.
Encode(p) ==
    IF p.group = "char" THEN EncodeChar(p.key, p.mod)
    ELSE IF p.group = "plain" THEN EncodePlain(p.key, p.mod)
    ELSE IF p.group = "arrow" THEN EncodeArrow(p.key, p.mod, p.application)
    ELSE IF p.group = "homeend" THEN EncodeHomeEnd(p.key, p.mod)
    ELSE IF p.group = "editing" THEN EncodeEditing(p.key, p.mod)
    ELSE EncodeFunction(p.n, p.mod)

Keys == [char |-> Characters, plain |-> {"Enter", "Escape", "Backspace", "Tab"},
         arrow |-> DOMAIN Arrows, homeend |-> DOMAIN HomeEnd, editing |-> DOMAIN Editing,
         function |-> {"F"}]
Presses ==
    {[group |-> g, key |-> k, n |-> n, mod |-> m, application |-> app] :
        g \in DOMAIN Keys, k \in UNION {Keys[h] : h \in DOMAIN Keys},
        n \in 0..MaxFunction, m \in Modifiers, app \in BOOLEAN}
IsPress(p) == p.key \in Keys[p.group] /\ (p.n = 0 <=> p.group # "function")

InputInit == press \in {p \in Presses : IsPress(p)}
\* Encoding changes nothing: a behaviour is one press.
InputSpec == InputInit /\ [][UNCHANGED inputVars]_inputVars


-------------------------------------------------------------------------------
Special(p) == p.group \notin {"char", "plain"}

\* A program on the remote side can tell the special keys and their modifiers
\* apart: two key presses in the same mode that send the same bytes are the same
\* press, unless both are characters or keys that have a control code, and only
\* the function keys that are not in the table send nothing.
KeysUnambiguous ==
    /\ Encode(press) = <<>> => press.group = "function" /\ press.n > 12
    /\ Special(press) /\ Encode(press) # <<>> =>
           \A p \in Presses :
               IsPress(p) /\ p.application = press.application /\ Encode(p) = Encode(press)
                   => p = press
===============================================================================
