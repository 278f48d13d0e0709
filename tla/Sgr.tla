---------------------------------- MODULE Sgr ----------------------------------
(***************************************************************************)
(* Select graphic rendition, CSI m (rdt-terminal, term.rs): a list of      *)
(* codes changes the attributes of the characters printed next.  The loop  *)
(* reads one code a round; 38 and 48 take further values from the list, as *)
(* many as their kind needs, or none of them when the list is too short.   *)
(***************************************************************************)
EXTENDS Integers, Sequences

CONSTANTS Codes,      \* the codes that may be sent
          MaxCodes    \* bound: codes in one list

ASSUME SgrAssumption == Codes \subseteq Nat /\ MaxCodes \in Nat

VARIABLE codes        \* the list that is being typed
sgrVars == <<codes>>

Default == [kind |-> "default"]
Indexed(n) == [kind |-> "indexed", index |-> n]
Rgb(r, g, b) == [kind |-> "rgb", r |-> r, g |-> g, b |-> b]
Plain == [fg |-> Default, bg |-> Default, flags |-> {}]

\* A value is kept in 8 bits.
U8(n) == n % 256

\* The codes that set a flag, and those that clear flags.
Sets == {<<1, "bold">>, <<2, "dim">>, <<3, "italic">>, <<4, "underline">>, <<5, "blink">>,
         <<6, "blink">>, <<7, "inverse">>, <<8, "hidden">>, <<9, "strikethrough">>}
Clears == {<<21, "bold">>, <<22, "bold">>, <<22, "dim">>, <<23, "italic">>, <<24, "underline">>,
           <<25, "blink">>, <<27, "inverse">>, <<28, "hidden">>, <<29, "strikethrough">>}
FlagsOf(table, code) == {pair[2] : pair \in {p \in table : p[1] = code}}

\* The colour a single code selects for the foreground (base 30, bright 90) or
\* the background (40 and 100); other codes keep the one there is.
ColourOf(code, base, bright, old) ==
    IF code \in base..base + 7 THEN Indexed(code - base)
    ELSE IF code = base + 9 THEN Default
    ELSE IF code \in bright..bright + 7 THEN Indexed(code - bright + 8)
    ELSE old

SimpleCode(a, code) ==
    IF code = 0 THEN Plain
    ELSE [fg |-> ColourOf(code, 30, 90, a.fg),
          bg |-> ColourOf(code, 40, 100, a.bg),
          flags |-> (a.flags \cup FlagsOf(Sets, code)) \ FlagsOf(Clears, code)]

\* A mutant: the index of an indexed colour is read again as a code.
ExtendedShort(ps, at) ==
    IF at + 1 <= Len(ps) /\ ps[at] = 5
    THEN [colour |-> {Indexed(U8(ps[at + 1]))}, at |-> at + 1]
    ELSE [colour |-> {}, at |-> at + 1]

\* take_extended_color: the colour (a set of at most one) and where reading
\* goes on.  The kind is consumed even when its values are missing.
Extended(ps, at) ==
    LET kind == ps[at]
    IN IF at > Len(ps) THEN [colour |-> {}, at |-> at]
       ELSE IF kind = 5 /\ at + 1 <= Len(ps)
            THEN [colour |-> {Indexed(U8(ps[at + 1]))}, at |-> at + 2]
       ELSE IF kind = 2 /\ at + 3 <= Len(ps)
            THEN [colour |-> {Rgb(U8(ps[at + 1]), U8(ps[at + 2]), U8(ps[at + 3]))}, at |-> at + 4]
       ELSE [colour |-> {}, at |-> at + 1]

\* One round of the loop at position st.at.
Round(ps, st) ==
    LET code == ps[st.at]
        ext == Extended(ps, st.at + 1)
        colour == CHOOSE c \in ext.colour : TRUE
    IN IF code \notin {38, 48} THEN [at |-> st.at + 1, attrs |-> SimpleCode(st.attrs, code)]
       ELSE [at |-> ext.at,
             attrs |-> IF ext.colour = {} THEN st.attrs
                       ELSE IF code = 38 THEN [st.attrs EXCEPT !.fg = colour]
                       ELSE [st.attrs EXCEPT !.bg = colour]]

\* Where the loop reads and what the attributes are after each round.  A round
\* reads at least one code, so there are no more rounds than codes.
Rounds(a, ps) ==
    LET after[k \in 0..Len(ps)] ==
            IF k = 0 THEN [at |-> 1, attrs |-> a]
            ELSE IF after[k - 1].at > Len(ps) THEN after[k - 1]
            ELSE Round(ps, after[k - 1])
    IN after

Rendition(a, ps) == IF ps = <<>> THEN Plain ELSE Rounds(a, ps)[Len(ps)].attrs

SgrInit == codes = <<>>
AddCode(c) == Len(codes) < MaxCodes /\ codes' = Append(codes, c)
SgrNext == \E c \in Codes : AddCode(c)
SgrSpec == SgrInit /\ [][SgrNext]_sgrVars

-------------------------------------------------------------------------------
\* How many codes belong to the one at i; an extended colour has a kind, and a
\* kind its values, also when the list ends before them.
CodeWidth(ps, i) ==
    IF ps[i] \notin {38, 48} THEN 1
    ELSE IF i = Len(ps) THEN 2
    ELSE IF ps[i + 1] = 5 THEN 3 ELSE IF ps[i + 1] = 2 THEN 5 ELSE 2

\* A list is complete when it can be divided into such groups: there are places
\* for them to start, the first one and behind each the next, up to the end.
Complete(ps) ==
    \E starts \in SUBSET (1..Len(ps) + 1) :
        1 \in starts /\ \A i \in starts \ {Len(ps) + 1} : i + CodeWidth(ps, i) \in starts

\* Sending codes in one sequence or in several is the same: a list cut behind a
\* complete code gives the attributes of its two parts one after the other, so
\* no code takes values that belong to the next one and none is skipped (the
\* index arithmetic of sgr and take_extended_color).
SgrIsSequential ==
    \A i \in 1..Len(codes) - 1 :
        LET front == SubSeq(codes, 1, i)  rest == SubSeq(codes, i + 1, Len(codes))
        IN Complete(front) => Rendition(Plain, codes) = Rendition(Rendition(Plain, front), rest)
===============================================================================
