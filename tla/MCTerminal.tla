------------------------------ MODULE MCTerminal ------------------------------
(* The parts of the terminal crate for TLC.  They meet in values only (bytes
   give actions, actions change the screen, modes choose an encoding), so they
   are explored one at a time: a behaviour chooses its part first. *)
EXTENDS VtParser, Terminal, Sgr, TerminalInput

VARIABLE part
vars == <<parserVars, termVars, sgrVars, inputVars, part>>

\* CAN ESC BEL SP 1 9 ; : ? [ ] P X \ c m DEL, a lead byte of two and one of
\* three, a continuation byte.
MCBytes == {24, 27, 7, 32, 49, 57, 59, 58, 63, 91, 93, 80, 88, 92, 99, 109, 127, 195, 230, 169}

Seqn(final, ps) ==
    [kind |-> "csi", params |-> ps, private |-> FALSE, ignore |-> FALSE, final |-> final]
Private(mode, final) == [Seqn(final, <<mode>>) EXCEPT !.private = TRUE]
MCInputs ==
    {[kind |-> "print", char |-> c] : c \in {"a", "W"}}
    \cup {[kind |-> "execute", code |-> c] : c \in {7, 8, 9, 10, 13, 14}}
    \cup {Seqn(f, <<0>>) : f \in {"A", "B", "C", "D", "E", "F", "G", "d", "s", "u", "J", "K", "L",
                                  "M", "P", "@", "X", "S", "T", "m"}}
    \cup {Seqn("H", <<2, 2>>), Seqn("J", <<1>>), Seqn("J", <<2>>), Seqn("K", <<1>>),
          Seqn("K", <<2>>), Seqn("P", <<2>>), Seqn("L", <<2>>), Seqn("@", <<2>>),
          Seqn("S", <<2>>), Seqn("r", <<1, 2>>), Seqn("r", <<2, 3>>), Seqn("h", <<4>>)}
    \cup {Private(m, f) : m \in {6, 7, 1048, 1049}, f \in {"h", "l"}} \cup {Private(2, "h")}
    \cup {[kind |-> "esc", final |-> f] : f \in {"7", "8", "D", "M", "E", "=", "c", "B"}}
    \cup {[kind |-> "osc", number |-> 0, text |-> "t"], [kind |-> "dcs"],
          [Seqn("A", <<>>) EXCEPT !.ignore = TRUE]}
MCInitialSize == <<2, 3>>
MCSizes == {<<2, 3>>, <<3, 2>>, <<1, 1>>, <<0, 9>>}

Init == ParserInit /\ TermInit /\ SgrInit /\ InputInit
        /\ part \in {"parser", "screen", "sgr", "input"}
        /\ (part = "input" \/ press = CHOOSE p \in Presses : IsPress(p))
Next == /\ UNCHANGED <<part, press>>
        /\ \/ part = "parser" /\ ParserNext /\ UNCHANGED <<termVars, sgrVars>>
           \/ part = "screen" /\ TermNext /\ UNCHANGED <<parserVars, sgrVars>>
           \/ part = "sgr" /\ SgrNext /\ UNCHANGED <<parserVars, termVars>>
Spec == Init /\ [][Next]_vars

TypeOK == ParserTypeOK /\ TermTypeOK
===============================================================================
