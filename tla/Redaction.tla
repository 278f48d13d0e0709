-------------------------------- MODULE Redaction --------------------------------
(***************************************************************************)
(* rdt-types/src/redact.rs: what is taken out of a line before it is       *)
(* written.  A line is a sequence of symbols: "k" and "s", "t", "u" stand  *)
(* for characters an identifier is made of, "P" for a word of              *)
(* SENSITIVE_KEYS, "#" for the marker <redacted>, "m" for a character that *)
(* is not ASCII, "?" for U+FFFD, which stands where such a character was   *)
(* cut, the rest for themselves.                                           *)
(***************************************************************************)
EXTENDS Naturals, SequencesExt

Identifier == {"k", "s", "t", "u", "P"}
Delimiter == {" ", ",", "n"}      \* "n" is a line break
Symbols == Identifier \cup Delimiter \cup {"=", ":", "#", "m", "?"}

Occurs(word, line) == word \in SubSeqs(line)

CONSTANT Secrets    \* a sequence: the values that with_secret has registered

(* A secret with a line break is never found, as lines are redacted one by
   one; one that can overlap the marker, as it has "<" or ">" or is a part of
   "redacted", may come back with it. *)
ASSUME SecretsAssumption == Secrets \in Seq(Seq(Symbols \ {"n", "#"}) \ {<<>>})

(* Both scans go through a line from the left: how far, and the result. *)
ScanStart == [at |-> 1, out |-> <<>>]

(* str::replace: occurrences are taken from the left and do not overlap. *)
Stands(line, word, i) ==
    i + Len(word) - 1 <= Len(line) /\ SubSeq(line, i, i + Len(word) - 1) = word
ReplaceStep(line, word, s) ==
    IF s.at > Len(line) THEN s
    ELSE IF Stands(line, word, s.at)
    THEN [at |-> s.at + Len(word), out |-> Append(s.out, "#")]
    ELSE [at |-> s.at + 1, out |-> Append(s.out, line[s.at])]
Replace(line, word) ==
    LET scan[k \in 0..Len(line)] ==
            IF k = 0 THEN ScanStart
            ELSE LET before == scan[k - 1] IN ReplaceStep(line, word, before)
    IN scan[Len(line)].out

------------------------------------------------------------------------------
(* scrub_sensitive_pairs.  The scan copies symbols until it meets a separator,
   "=" or ": "; then it takes the key back from what it has copied, copies key
   and separator, and copies or replaces the value. *)

Separator(line, i) ==
    IF line[i] = "=" THEN 1
    ELSE IF i < Len(line) /\ line[i] = ":" /\ line[i + 1] = " " THEN 2
    ELSE 0

KeyStart(line, i) ==
    CHOOSE b \in 1..i : /\ \A j \in b..(i - 1) : line[j] \in Identifier
                        /\ b = 1 \/ line[b - 1] \notin Identifier

(* A key is sensitive that is, or ends in, one of the words. *)
Sensitive(line, b, i) == b < i /\ line[i - 1] = "P"

(* The value of "key: value" is the rest of the line; that of "key=value"
   ends at a delimiter. *)
ValueEnd(line, i, header) ==
    LET stops == IF header THEN {"n"} ELSE Delimiter
    IN CHOOSE e \in i..(Len(line) + 1) :
          /\ \A j \in i..(e - 1) : line[j] \notin stops
          /\ e > Len(line) \/ line[e] \in stops

ScrubKeyKept(line, out, b, i, after) == out \o SubSeq(line, b, after)
ScrubKey(line, out, b, i, after) ==
    SubSeq(out, 1, Len(out) - (i - b)) \o SubSeq(line, b, after)

ScrubStep(line, s) ==
    LET i == s.at
        sep == Separator(line, i)
        b == KeyStart(line, i)
        value == i + sep
        e == ValueEnd(line, value, sep = 2)
        key == ScrubKey(line, s.out, b, i, value - 1)
    IN IF i > Len(line) THEN s
       ELSE IF sep = 0 THEN [at |-> i + 1, out |-> Append(s.out, line[i])]
       ELSE [at |-> e,
             out |-> IF Sensitive(line, b, i) /\ e > value THEN Append(key, "#")
                     ELSE key \o SubSeq(line, value, e - 1)]
Scrub(line) ==
    LET scan[k \in 0..Len(line)] ==
            IF k = 0 THEN ScanStart
            ELSE LET before == scan[k - 1] IN ScrubStep(line, before)
    IN scan[Len(line)].out

Redact(line) ==
    LET replaced[k \in 0..Len(Secrets)] ==
            IF k = 0 THEN line
            ELSE LET before == replaced[k - 1] IN Replace(before, Secrets[k])
    IN Scrub(replaced[Len(Secrets)])

------------------------------------------------------------------------------
(* What redaction may and must do to a line, said without the scans: the
   result is the line with some stretches replaced by the marker, each a
   registered secret or the value of a sensitive key; no registered secret is
   left, and the value of such a key is not, unless it lies in the value of an
   earlier pair: "error: password=x" stays as it is. *)

InSecret(line, j, i, k) ==
    \E w \in ToSet(Secrets), p \in i..j :
        j < p + Len(w) /\ p + Len(w) - 1 <= k /\ Stands(line, w, p)

(* A sensitive key and its separator before position i.  The value goes on to
   the first delimiter that is not part of a secret. *)
EqualsKey(line, i) == i > 2 /\ line[i - 2] = "P" /\ line[i - 1] = "="
HeaderKey(line, i) == i > 3 /\ line[i - 3] = "P" /\ line[i - 2] = ":" /\ line[i - 1] = " "

MayGo(line, i, k) ==
    \/ Contains(Secrets, SubSeq(line, i, k))
    \/ EqualsKey(line, i) /\ \A j \in i..k : line[j] \in Delimiter => InSecret(line, j, i, k)
    \/ HeaderKey(line, i) /\ \A j \in i..k : line[j] # "n"

(* The separator at c is looked at: it is not in the value of an earlier pair,
   of which no part is looked at.  Neither it nor the end of its key is part of
   a secret. *)
Looked(line, c, i) ==
    LET plain(j) == ~InSecret(line, j, 1, Len(line))
    IN /\ \A j \in (c - 1)..(i - 1) : plain(j)
       /\ \A j \in 1..(c - 1) :
             /\ line[j] = "=" => \E m \in j..(c - 1) : line[m] \in Delimiter /\ plain(m)
             /\ ~(line[j] = ":" /\ line[j + 1] = " ")
MustGo(line, i) ==
    \E v \in 1..i :
        \/ EqualsKey(line, v) /\ Looked(line, v - 1, v) /\ \A j \in v..i : line[j] \notin Delimiter
        \/ HeaderKey(line, v) /\ Looked(line, v - 2, v) /\ \A j \in v..i : line[j] # "n"

(* How much of the line each part of the result may stand for. *)
Explains(line, result) ==
    LET reach[j \in 0..Len(result)] ==
            IF j = 0 THEN {0}
            ELSE LET before == reach[j - 1]
                 IN {k \in 1..Len(line) : \E i \in before :
                        \/ k = i + 1 /\ line[k] = result[j] /\ ~MustGo(line, k)
                        \/ result[j] = "#" /\ i < k /\ MayGo(line, i + 1, k)}
    IN Len(line) \in reach[Len(result)]

ExactlyRedacted(line, result) ==
    /\ Explains(line, result)
    /\ \A w \in ToSet(Secrets) : ~Occurs(w, result)
==================================================================================
