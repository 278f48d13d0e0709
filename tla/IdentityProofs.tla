----------------------------- MODULE IdentityProofs -----------------------------
(***************************************************************************)
(* What the host keys of SSH connections guarantee, for every number of    *)
(* connections, hosts and keys, for every number of failures and crashes,  *)
(* and for every file to begin with.                                       *)
(***************************************************************************)
EXTENDS HostKeys, SequenceTheorems, TLAPS

(* A line of the file or of a database is one the file had at first or one a
   connection recorded, whole or with its key cut short; once saves have
   overlapped, it may be any line with a key of one of those.  A connection that
   has not got an answer has decided nothing; one that is asked about a key does
   not know it; and one that writes trusts what it writes. *)

GenuineKeys == {Broken} \cup {line.key : line \in Genuine}
Keyed == [marker : {"none", "ca", "revoked"}, hosts : SUBSET Hosts, type : Types,
          key : GenuineKeys]
Cut == UNION {Cuts(line) : line \in Genuine}
Sound == IF overlapped THEN Keyed ELSE Cut

KeyTypes ==
    /\ file \in [exists : BOOLEAN, lines : Seq(Sound)]
    /\ first \in InitialFiles
    /\ target \in [Connections -> Hosts]
    /\ policy \in [Connections -> Policies]
    /\ db \in [Connections -> Seq(Sound)]
    /\ pc \in [Connections -> Steps]
    /\ key \in [Connections -> Keys]
    /\ accepted \in [Connections -> SUBSET Keys]
    /\ decision \in [Connections -> Decisions \cup {"none"}]
    /\ overlapped \in BOOLEAN

Knows(c) == Status(db[c], target[c], key[c])

Undecided(c) ==
    pc[c] \in {"idle", "dialling", "asked"} => decision[c] = "none" /\ accepted[c] = {}
Asked(c) == pc[c] = "asked" => Knows(c) = "Unknown" /\ policy[c] = "AcceptNew"
Saving(c) == pc[c] \in {"open", "write", "restrict"} => Knows(c) = "Trusted"
Verified(c) ==
    accepted[c] # {} =>
        /\ accepted[c] = {key[c]}
        /\ \/ Knows(c) = "Trusted"
           \/ Knows(c) = "Unknown" /\ policy[c] = "AcceptNew" /\ decision[c] = "AcceptOnce"
Allowed(c) == decision[c] # "none" => policy[c] = "AcceptNew"

KeyInv ==
    /\ KeyTypes
    /\ \A c \in Connections :
          Undecided(c) /\ Asked(c) /\ Saving(c) /\ Verified(c) /\ Allowed(c)

(* As long as saves have not overlapped, one connection writes at a time, and
   what it writes over is empty. *)
Alone ==
    ~overlapped =>
        /\ \A c, d \in Connections : pc[c] = "write" /\ pc[d] = "write" => c = d
        /\ \A c \in Connections : pc[c] = "write" => file.lines = <<>>

-------------------------------------------------------------------------------
(* accept. *)

(* Nothing is replaced in a database that does not know the key: a plain line
   for the host and the type would decide or conflict. *)
LEMMA UnknownReplacesNothing ==
    ASSUME NEW lines, NEW h, NEW k, Status(lines, h, k) = "Unknown"
    PROVE  Deciding(lines, h, k) = {} /\ Replaced(lines, h, k) = {}
  <1>1. Deciding(lines, h, k) = {} /\ Conflicting(lines, h, k) = {}
    BY DEF Status
  <1>2. ASSUME NEW i \in Replaced(lines, h, k) PROVE FALSE
    <2>1. /\ i \in Applying(lines, h) /\ lines[i].marker = "none"
          /\ lines[i].type = KeyType[k]
      BY <1>2 DEF Replaced
    <2>2. CASE lines[i].key = k
      BY <1>1, <2>1, <2>2 DEF Deciding
    <2>3. CASE lines[i].key # k
      BY <1>1, <2>1, <2>3 DEF Conflicting
    <2> QED
      BY <2>2, <2>3
  <1> QED
    BY <1>1, <1>2

(* So the new line comes after the old ones, which stay, and is trusted. *)
LEMMA AcceptAppends ==
    ASSUME NEW S, NEW lines \in Seq(S), NEW h, NEW k, Status(lines, h, k) = "Unknown",
           Recorded(h, k) \in S
    PROVE  /\ Accept(lines, h, k) \in Seq(S)
           /\ Len(Accept(lines, h, k)) = Len(lines) + 1
           /\ \A i \in 1..Len(lines) : Accept(lines, h, k)[i] = lines[i]
           /\ Accept(lines, h, k)[Len(lines) + 1] = Recorded(h, k)
  <1> DEFINE line == Recorded(h, k)
  <1>1. Replaced(lines, h, k) = {}
    BY UnknownReplacesNothing
  <1>2. Accept(lines, h, k) = Append(lines, line)
    BY <1>1 DEF Accept
  <1>3. line \in S
    OBVIOUS
  <1> HIDE DEF line
  <1> QED
    BY <1>2, <1>3, AppendProperties DEF line

LEMMA AcceptedIsTrusted ==
    ASSUME NEW S, NEW lines \in Seq(S), NEW h, NEW k, Status(lines, h, k) = "Unknown",
           Recorded(h, k) \in S, h \in Reach[h]
    PROVE  Status(Accept(lines, h, k), h, k) = "Trusted"
  <1> DEFINE new == Accept(lines, h, k)
             n == Len(lines) + 1
  <1>1. /\ new \in Seq(S) /\ Len(new) = n /\ \A i \in 1..Len(lines) : new[i] = lines[i]
        /\ new[n] = Recorded(h, k)
    BY AcceptAppends
  <1>2. /\ Len(lines) \in Nat /\ DOMAIN lines = 1..Len(lines) /\ DOMAIN new = 1..n
    BY <1>1
  <1>3. Deciding(lines, h, k) = {}
    BY UnknownReplacesNothing
  <1> HIDE DEF new
  <1>4. n \in Deciding(new, h, k)
    BY <1>1, <1>2 DEF Deciding, Applying, Recorded
  <1>5. ASSUME NEW i \in Deciding(new, h, k) PROVE i = n
    <2>1. i \in 1..n /\ h \in new[i].hosts /\ new[i].key = k /\ new[i].marker # "ca"
      BY <1>2, <1>5 DEF Deciding, Applying
    <2>2. CASE i \in 1..Len(lines)
      BY <1>1, <1>2, <1>3, <2>1, <2>2 DEF Deciding, Applying
    <2> QED
      BY <1>2, <2>1, <2>2
  <1>6. Deciding(new, h, k) = {n} /\ n \in Nat
    BY <1>2, <1>4, <1>5
  <1>7. Least({n}) = n
    <2>1. \A i \in {n} : n <= i
      BY <1>6
    <2> QED
      BY <2>1 DEF Least
  <1>8. new[n].marker = "none"
    BY <1>1 DEF Recorded
  <1>9. Status(new, h, k) = "Trusted"
    BY <1>6, <1>7, <1>8 DEF Status
  <1> QED
    BY <1>9 DEF new

-------------------------------------------------------------------------------
(* The lines of the file and the databases. *)

LEMMA GenuineIsLine == ASSUME KeyTypes PROVE Genuine \subseteq Line
  <1>1. first \in File
    BY HostKeysAssumption DEF KeyTypes
  <1>2. \A i \in DOMAIN first.lines : first.lines[i] \in Line
    BY <1>1 DEF File
  <1>3. ASSUME NEW c \in Connections PROVE Recorded(target[c], key[c]) \in Line
    <2>1. /\ target[c] \in Hosts /\ key[c] \in Keys /\ KeyType[key[c]] \in Types
          /\ Reach[target[c]] \in SUBSET Hosts
      BY HostKeysAssumption DEF KeyTypes, Types
    <2> QED
      BY <2>1 DEF Recorded, Line
  <1> QED
    BY <1>2, <1>3 DEF Genuine

LEMMA CutIsKeyed == ASSUME KeyTypes PROVE Cut \subseteq Keyed
  <1> SUFFICES ASSUME NEW line \in Genuine, NEW cut \in Cuts(line) PROVE cut \in Keyed
    BY DEF Cut
  <1>1. line \in Line
    BY GenuineIsLine
  <1>2. line = [marker |-> line.marker, hosts |-> line.hosts, type |-> line.type, key |-> line.key]
    BY <1>1 DEF Line
  <1>3. cut = [marker |-> line.marker, hosts |-> line.hosts, type |-> line.type, key |-> cut.key]
        /\ cut.key \in {line.key, Broken}
    BY <1>1, <1>2 DEF Cuts, Line
  <1>4. cut.key \in GenuineKeys
    BY <1>3 DEF GenuineKeys
  <1> QED
    BY <1>1, <1>3, <1>4 DEF Keyed, Line

(* A sound line is one with a genuine key, and it is sound to cut it. *)
LEMMA SoundIsKeyed == ASSUME KeyTypes PROVE Sound \subseteq Keyed
  BY CutIsKeyed DEF Sound

LEMMA CutsAreSound ==
    ASSUME KeyTypes, NEW line \in Sound PROVE Cuts(line) \subseteq Sound
  <1>1. CASE overlapped
    <2> SUFFICES ASSUME NEW cut \in Cuts(line) PROVE cut \in Keyed
      BY <1>1 DEF Sound
    <2>1. line \in Keyed /\ Broken \in GenuineKeys
      BY SoundIsKeyed DEF GenuineKeys
    <2> QED
      BY <2>1 DEF Cuts, Keyed
  <1>2. CASE ~overlapped
    <2> SUFFICES ASSUME NEW cut \in Cuts(line) PROVE cut \in Cut
      BY <1>2 DEF Sound
    <2>1. PICK origin \in Genuine : line \in Cuts(origin)
      BY <1>2 DEF Sound, Cut
    <2>2. origin \in Line
      BY GenuineIsLine
    <2>3. line = origin \/ line = [origin EXCEPT !.key = Broken]
      BY <2>1 DEF Cuts
    <2>4. cut = line \/ cut = [line EXCEPT !.key = Broken]
      BY DEF Cuts
    <2>5. cut = origin \/ cut = [origin EXCEPT !.key = Broken]
      BY <2>2, <2>3, <2>4 DEF Line
    <2> QED
      BY <2>5 DEF Cut, Cuts
  <1> QED
    BY <1>1, <1>2 DEF KeyTypes

LEMMA SoundStays ==
    ASSUME UNCHANGED <<first, target, key, decision, overlapped>> PROVE Sound' = Sound
  <1>1. Genuine' = Genuine
    BY DEF Genuine
  <1> QED
    BY <1>1 DEF Sound, Cut, Keyed, GenuineKeys

(* More genuine lines, or saves that overlap, only allow more. *)
LEMMA SoundGrows ==
    ASSUME KeyTypes, overlapped' \in BOOLEAN, overlapped => overlapped',
           Genuine \subseteq Genuine'
    PROVE  Sound \subseteq Sound'
  <1>1. Cut \subseteq Cut'
    BY DEF Cut
  <1>2. Keyed \subseteq Keyed'
    BY DEF Keyed, GenuineKeys
  <1>3. CASE overlapped'
    BY <1>2, <1>3, SoundIsKeyed DEF Sound
  <1>4. CASE ~overlapped'
    BY <1>1, <1>4 DEF Sound
  <1> QED
    BY <1>3, <1>4

(* The rest of a longer file, and the place where a cut text meets it. *)
LEMMA Tails ==
    ASSUME NEW S, NEW old \in Seq(S), NEW i \in 1..Len(old) + 1
    PROVE  SubSeq(old, i, Len(old)) \in Seq(S)
  <1>1. Len(old) \in Nat /\ i \in Nat
    OBVIOUS
  <1>2. \A j \in i..Len(old) : old[j] \in S
    BY <1>1
  <1> QED
    BY <1>1, <1>2, SubSeqProperties

LEMMA OneThen ==
    ASSUME NEW S, NEW line \in S, NEW old \in Seq(S), NEW i \in DOMAIN old
    PROVE  <<line>> \o SubSeq(old, i + 1, Len(old)) \in Seq(S)
  <1>1. i + 1 \in 1..Len(old) + 1
    OBVIOUS
  <1>2. SubSeq(old, i + 1, Len(old)) \in Seq(S)
    BY <1>1, Tails
  <1>3. <<line>> \in Seq(S)
    OBVIOUS
  <1> QED
    BY <1>2, <1>3, ConcatProperties

(* Nothing lies under a file that was just truncated. *)
LEMMA NothingRests == Rests(<<>>) = {<<>>} /\ \A head : Joints(head, <<>>) = {<<cut>> : cut \in Cuts(head)}
  <1>1. DOMAIN <<>> = {} /\ Len(<<>>) = 0 /\ 1..0 + 1 = {1}
    OBVIOUS
  <1>2. SubSeq(<<>>, 1, 0) = <<>>
    OBVIOUS
  <1> QED
    BY <1>1, <1>2 DEF Rests, Joints

LEMMA RestsAreSound ==
    ASSUME KeyTypes, Alone, NEW c \in Connections, pc[c] = "write", NEW rest \in Rests(file.lines)
    PROVE  rest \in Seq(Sound)
  <1>1. file.lines \in Seq(Sound)
    BY DEF KeyTypes
  <1>2. CASE overlapped
    <2>1. Sound = Keyed
      BY <1>2 DEF Sound
    <2>2. ASSUME NEW i \in DOMAIN file.lines, NEW end \in Ends(file.lines[i])
          PROVE  <<end>> \o SubSeq(file.lines, i + 1, Len(file.lines)) \in Seq(Sound)
      <3>1. file.lines[i] \in Keyed
        BY <1>1, <2>1
      <3>2. Broken \in GenuineKeys
        BY DEF GenuineKeys
      <3>3. end \in Keyed
        BY <2>2, <3>1, <3>2 DEF Ends, Keyed
      <3> QED
        BY <1>1, <2>1, <3>3, OneThen
    <2>3. \A i \in 1..Len(file.lines) + 1 : SubSeq(file.lines, i, Len(file.lines)) \in Seq(Sound)
      BY <1>1, Tails
    <2>4. \/ \E i \in 1..Len(file.lines) + 1 : rest = SubSeq(file.lines, i, Len(file.lines))
          \/ \E i \in DOMAIN file.lines : \E end \in Ends(file.lines[i]) :
                rest = <<end>> \o SubSeq(file.lines, i + 1, Len(file.lines))
      BY Zenon DEF Rests
    <2> QED
      BY ONLY <2>2, <2>3, <2>4
  <1>3. CASE ~overlapped
    <2>1. rest = <<>>
      BY <1>3, NothingRests DEF Alone
    <2> QED
      BY <2>1
  <1> QED
    BY <1>2, <1>3 DEF KeyTypes

LEMMA JointsAreSound ==
    ASSUME KeyTypes, Alone, NEW c \in Connections, pc[c] = "write", NEW head \in Sound,
           NEW end \in Joints(head, file.lines)
    PROVE  end \in Seq(Sound)
  <1>1. file.lines \in Seq(Sound)
    BY DEF KeyTypes
  <1>2. ASSUME NEW cut \in Cuts(head) PROVE <<cut>> \in Seq(Sound)
    <2>1. cut \in Sound
      BY CutsAreSound
    <2> QED
      BY <2>1
  <1>3. CASE overlapped
    <2>1. Sound = Keyed
      BY <1>3 DEF Sound
    <2>2. ASSUME NEW i \in DOMAIN file.lines, NEW mixed \in Mixtures(head, file.lines[i])
          PROVE  <<mixed>> \o SubSeq(file.lines, i + 1, Len(file.lines)) \in Seq(Sound)
      <3>1. file.lines[i] \in Keyed /\ head \in Keyed
        BY <1>1, <2>1
      <3>2. Broken \in GenuineKeys
        BY DEF GenuineKeys
      <3>3. mixed \in Keyed
        BY <2>2, <3>1, <3>2 DEF Mixtures, Keyed
      <3> QED
        BY <1>1, <2>1, <3>3, OneThen
    <2>3. \/ \E cut \in Cuts(head) : end = <<cut>>
          \/ \E i \in DOMAIN file.lines : \E mixed \in Mixtures(head, file.lines[i]) :
                end = <<mixed>> \o SubSeq(file.lines, i + 1, Len(file.lines))
      BY Zenon DEF Joints
    <2> QED
      BY ONLY <1>2, <2>2, <2>3
  <1>4. CASE ~overlapped
    <2>1. end \in {<<cut>> : cut \in Cuts(head)}
      BY <1>4, NothingRests DEF Alone
    <2> QED
      BY <1>2, <2>1
  <1> QED
    BY <1>3, <1>4 DEF KeyTypes

(* save: what is written, whole or in part, over what is there is sound. *)
LEMMA PartlyIsSound ==
    ASSUME KeyTypes, Alone, NEW c \in Connections, pc[c] = "write", Partly(c)
    PROVE  file' \in [exists : BOOLEAN, lines : Seq(Sound)]
  <1>1. db[c] \in Seq(Sound) /\ Len(db[c]) \in Nat /\ DOMAIN db[c] = 1..Len(db[c])
    BY DEF KeyTypes
  <1>2. PICK n \in 0..Len(db[c]) :
            \E end \in Rests(file.lines)
                       \cup (IF n < Len(db[c]) THEN Joints(db[c][n + 1], file.lines) ELSE {}) :
                file' = [file EXCEPT !.lines = SubSeq(db[c], 1, n) \o end]
    BY DEF Partly
  <1>3. PICK end \in Rests(file.lines)
                     \cup (IF n < Len(db[c]) THEN Joints(db[c][n + 1], file.lines) ELSE {}) :
            file' = [file EXCEPT !.lines = SubSeq(db[c], 1, n) \o end]
    BY <1>2
  <1>4. SubSeq(db[c], 1, n) \in Seq(Sound)
    <2>1. \A i \in 1..n : db[c][i] \in Sound
      BY <1>1
    <2> QED
      BY <1>1, <2>1, SubSeqProperties
  <1>5. end \in Seq(Sound)
    <2>1. CASE end \in Rests(file.lines)
      BY <2>1, RestsAreSound
    <2>2. CASE n < Len(db[c]) /\ end \in Joints(db[c][n + 1], file.lines)
      <3>1. db[c][n + 1] \in Sound
        BY <1>1, <2>2
      <3> QED
        BY <2>2, <3>1, JointsAreSound
    <2> QED
      BY <2>1, <2>2
  <1>6. SubSeq(db[c], 1, n) \o end \in Seq(Sound)
    BY <1>4, <1>5, ConcatProperties
  <1> QED
    BY <1>3, <1>6 DEF KeyTypes

LEMMA WriteIsSound ==
    ASSUME KeyTypes, Alone, NEW c \in Connections, Write(c)
    PROVE  file' \in [exists : BOOLEAN, lines : Seq(Sound)]
  <1>1. pc[c] = "write"
    BY DEF Write
  <1>2. PICK rest \in Rests(file.lines) : file' = [file EXCEPT !.lines = db[c] \o rest]
    BY DEF Write
  <1>3. rest \in Seq(Sound) /\ db[c] \in Seq(Sound)
    BY <1>1, RestsAreSound DEF KeyTypes
  <1>4. db[c] \o rest \in Seq(Sound)
    BY <1>3, ConcatProperties
  <1> QED
    BY <1>2, <1>4 DEF KeyTypes

-------------------------------------------------------------------------------
(* At first nothing is decided, and the file is genuine by definition. *)
LEMMA KeysInitial == Init => KeyInv
  <1> SUFFICES ASSUME Init PROVE KeyInv
    OBVIOUS
  <1>1. first \in File /\ file = first
    BY HostKeysAssumption DEF Init
  <1>2. /\ first = [exists |-> first.exists, lines |-> first.lines]
        /\ first.exists \in BOOLEAN /\ first.lines \in Seq(Line)
    BY <1>1 DEF File
  <1>3. first.lines \in Seq(Sound)
    <2>1. \A i \in 1..Len(first.lines) : first.lines[i] \in Sound
      <3>1. ~overlapped
        BY DEF Init
      <3>2. \A line : line \in Cuts(line)
        BY DEF Cuts
      <3>3. \A i \in 1..Len(first.lines) : first.lines[i] \in Genuine
        BY <1>2 DEF Genuine
      <3> QED
        BY <3>1, <3>2, <3>3 DEF Sound, Cut
    <2>2. SubSeq(first.lines, 1, Len(first.lines)) = first.lines
      BY <1>2, SubSeqFull
    <2>3. Len(first.lines) \in Nat
      BY <1>2
    <2> QED
      BY <2>1, <2>2, <2>3, SubSeqProperties
  <1>4. file \in [exists : BOOLEAN, lines : Seq(Sound)]
    BY <1>1, <1>2, <1>3
  <1>5. <<>> \in Seq(Sound)
    OBVIOUS
  <1>6. KeyTypes
    BY <1>4, <1>5 DEF Init, KeyTypes, Steps
  <1>7. \A c \in Connections : pc[c] = "idle" /\ decision[c] = "none" /\ accepted[c] = {}
    BY DEF Init
  <1> QED
    BY <1>6, <1>7 DEF KeyInv, Undecided, Asked, Saving, Verified, Allowed

LEMMA LoadKeepsKeys == ASSUME KeyInv, NEW c \in Connections, Load(c) PROVE KeyInv'
  <1> USE DEF KeyInv
  <1>1. Sound' = Sound
    BY SoundStays DEF Load, profile
  <1>2. file.lines \in Seq(Sound)
    BY DEF KeyTypes
  <1>3. KeyTypes'
    BY <1>1, <1>2 DEF KeyTypes, Load, Goto, profile, Steps
  <1>4. ASSUME NEW d \in Connections
        PROVE  (Undecided(d) /\ Asked(d) /\ Saving(d) /\ Verified(d) /\ Allowed(d))'
    <2>1. CASE d = c
      <3>1. /\ pc[c] = "idle" /\ pc'[c] = "dialling"
            /\ decision' = decision /\ accepted' = accepted
        BY DEF Load, Goto, KeyTypes
      <3>2. decision[c] = "none" /\ accepted[c] = {}
        BY <3>1 DEF Undecided
      <3> QED
        BY <2>1, <3>1, <3>2 DEF Undecided, Asked, Saving, Verified, Allowed
    <2>2. CASE d # c
      <3>1. pc'[d] = pc[d] /\ db'[d] = db[d]
        BY <2>2 DEF Load, Goto, KeyTypes
      <3> QED
        BY <3>1 DEF Load, profile, Undecided, Asked, Saving, Verified, Allowed, Knows
    <2> QED
      BY <2>1, <2>2
  <1> QED
    BY <1>3, <1>4

LEMMA CheckKeepsKeys == ASSUME KeyInv, NEW c \in Connections, CheckServerKey(c) PROVE KeyInv'
  <1> USE DEF KeyInv
  <1>1. Sound' = Sound
    BY SoundStays DEF CheckServerKey, profile
  <1>2. /\ UNCHANGED <<file, first, target, policy, db, key, decision, overlapped>>
        /\ pc[c] = "dialling"
        /\ \/ /\ Knows(c) = "Trusted" /\ pc' = [pc EXCEPT ![c] = "connected"]
              /\ accepted' = [accepted EXCEPT ![c] = {key[c]}]
           \/ /\ Knows(c) \notin Fatal /\ Knows(c) # "Trusted" /\ policy[c] # "Strict"
              /\ pc' = [pc EXCEPT ![c] = "asked"] /\ accepted' = accepted
           \/ pc' = [pc EXCEPT ![c] = "refused"] /\ accepted' = accepted
    BY DEF CheckServerKey, Goto, profile, Knows
  <1>3. KeyTypes'
    <2>1. /\ pc \in [Connections -> Steps] /\ key[c] \in Keys
          /\ accepted \in [Connections -> SUBSET Keys]
          /\ {"connected", "asked", "refused"} \subseteq Steps
      BY DEF KeyTypes, Steps, Ended
    <2>2. pc' \in [Connections -> Steps]
      BY <1>2, <2>1
    <2>3. {key[c]} \in SUBSET Keys
      BY <2>1
    <2>4. accepted' \in [Connections -> SUBSET Keys]
      BY <1>2, <2>1, <2>3
    <2> QED
      BY <1>1, <1>2, <2>2, <2>4 DEF KeyTypes
  <1>4. \A d \in Connections : Knows(d)' = Knows(d)
    BY <1>2 DEF Knows
  <1>5. Knows(c) \notin Fatal /\ Knows(c) # "Trusted" => Knows(c) = "Unknown"
    BY DEF Knows, Status, Fatal
  <1>6. policy[c] # "Strict" => policy[c] = "AcceptNew"
    BY DEF KeyTypes, Policies
  <1>7. decision[c] = "none" /\ accepted[c] = {}
    BY <1>2 DEF Undecided
  <1>8. ASSUME NEW d \in Connections
        PROVE  (Undecided(d) /\ Asked(d) /\ Saving(d) /\ Verified(d) /\ Allowed(d))'
    <2>1. CASE d = c
      BY <1>2, <1>4, <1>5, <1>6, <1>7, <2>1
      DEF KeyTypes, Undecided, Asked, Saving, Verified, Allowed
    <2>2. CASE d # c
      <3>1. pc'[d] = pc[d] /\ accepted'[d] = accepted[d]
        BY <1>2, <2>2 DEF KeyTypes
      <3> QED
        BY <1>2, <1>4, <3>1 DEF Undecided, Asked, Saving, Verified, Allowed
    <2> QED
      BY <2>1, <2>2
  <1> QED
    BY <1>3, <1>8

(* A step that only moves on with the save, or gives up. *)
LEMMA MoveKeepsKeys ==
    ASSUME KeyInv, NEW c \in Connections, NEW step \in Steps, Goto(c, step),
           UNCHANGED <<profile, db, key, accepted, decision>>,
           file' \in [exists : BOOLEAN, lines : Seq(Sound)],
           overlapped' \in BOOLEAN, overlapped => overlapped',
           \/ step \in {"write", "restrict"} /\ pc[c] \in {"open", "write"}
           \/ step = "timedout"
    PROVE  KeyInv'
  <1> USE DEF KeyInv
  <1>1. \A s \in Seq(Sound) : s \in Seq(Sound')
    <2>1. Genuine' = Genuine
      BY DEF profile, Genuine
    <2>2. Sound \subseteq Sound'
      BY <2>1, SoundGrows
    <2> HIDE DEF KeyInv
    <2> QED
      BY <2>2, SeqMonotonic
  <1>2. KeyTypes'
    <2>1. file' \in [exists : BOOLEAN, lines : Seq(Sound')]
      BY <1>1
    <2>2. db' \in [Connections -> Seq(Sound')]
      BY <1>1 DEF KeyTypes
    <2> QED
      BY <2>1, <2>2 DEF KeyTypes, Goto, profile
  <1>3. \A d \in Connections : Knows(d)' = Knows(d)
    BY DEF Knows, profile
  <1>4. ASSUME NEW d \in Connections
        PROVE  (Undecided(d) /\ Asked(d) /\ Saving(d) /\ Verified(d) /\ Allowed(d))'
    <2>1. CASE d = c
      <3>1. pc'[c] = step
        BY DEF KeyTypes, Goto
      <3>2. step \in {"write", "restrict"} => Knows(c) = "Trusted"
        BY DEF Saving
      <3> QED
        BY <1>3, <2>1, <3>1, <3>2 DEF profile, Undecided, Asked, Saving, Verified, Allowed
    <2>2. CASE d # c
      <3>1. pc'[d] = pc[d]
        BY <2>2 DEF KeyTypes, Goto
      <3> QED
        BY <1>3, <3>1 DEF profile, Undecided, Asked, Saving, Verified, Allowed
    <2> QED
      BY <2>1, <2>2
  <1> QED
    BY <1>2, <1>4

(* However the save ends, the connection goes on with a key it trusts. *)
LEMMA GoKeepsKeys ==
    ASSUME KeyInv, NEW c \in Connections, Go(c), pc[c] \in {"open", "write", "restrict"},
           file' \in [exists : BOOLEAN, lines : Seq(Sound)], UNCHANGED overlapped
    PROVE  KeyInv'
  <1> USE DEF KeyInv
  <1>1. Sound' = Sound
    BY SoundStays DEF Go, profile
  <1>2. /\ UNCHANGED <<first, target, policy, db, key, decision>>
        /\ pc' = [pc EXCEPT ![c] = "connected"]
        /\ accepted' = [accepted EXCEPT ![c] = {key[c]}]
    BY DEF Go, Goto, profile
  <1>3. KeyTypes'
    <2>1. /\ pc \in [Connections -> Steps] /\ key[c] \in Keys /\ "connected" \in Steps
          /\ accepted \in [Connections -> SUBSET Keys]
      BY DEF KeyTypes, Steps, Ended
    <2>2. pc' \in [Connections -> Steps]
      BY <1>2, <2>1
    <2>3. {key[c]} \in SUBSET Keys
      BY <2>1
    <2>4. accepted' \in [Connections -> SUBSET Keys]
      BY <1>2, <2>1, <2>3
    <2> QED
      BY <1>1, <1>2, <2>2, <2>4 DEF KeyTypes
  <1>4. \A d \in Connections : Knows(d)' = Knows(d)
    BY <1>2 DEF Knows
  <1>5. ASSUME NEW d \in Connections
        PROVE  (Undecided(d) /\ Asked(d) /\ Saving(d) /\ Verified(d) /\ Allowed(d))'
    <2>1. CASE d = c
      <3>1. pc'[c] = "connected" /\ accepted'[c] = {key[c]}
        BY <1>2 DEF KeyTypes
      <3>2. Knows(c) = "Trusted"
        BY DEF Saving
      <3> QED
        BY <1>2, <1>4, <2>1, <3>1, <3>2 DEF Undecided, Asked, Saving, Verified, Allowed
    <2>2. CASE d # c
      <3>1. pc'[d] = pc[d] /\ accepted'[d] = accepted[d]
        BY <1>2, <2>2 DEF KeyTypes
      <3> QED
        BY <1>2, <1>4, <3>1 DEF Undecided, Asked, Saving, Verified, Allowed
    <2> QED
      BY <2>1, <2>2
  <1> QED
    BY <1>3, <1>5

LEMMA SaveKeepsKeys ==
    ASSUME KeyInv, Alone, NEW c \in Connections,
           SaveWithoutPath(c) \/ Truncate(c) \/ Write(c) \/ RestrictToOwner(c) \/ SaveFails(c)
    PROVE  KeyInv'
  <1> DEFINE Files == [exists : BOOLEAN, lines : Seq(Sound)]
  <1>1. file \in Files /\ KeyTypes
    BY DEF KeyInv, KeyTypes
  <1>2. {"write", "restrict"} \subseteq Steps
    BY DEF Steps
  <1>3. CASE SaveWithoutPath(c)
    BY <1>1, <1>3, GoKeepsKeys DEF SaveWithoutPath
  <1>4. CASE Truncate(c)
    <2>1. <<>> \in Seq(Sound)
      OBVIOUS
    <2>2. file' \in Files
      BY <1>4, <2>1 DEF Truncate
    <2>3. overlapped' \in BOOLEAN /\ (overlapped => overlapped')
      BY <1>1, <1>4 DEF Truncate, KeyTypes
    <2> QED
      BY <1>2, <1>4, <2>2, <2>3, MoveKeepsKeys DEF Truncate
  <1>5. CASE Write(c)
    <2>1. file' \in Files
      BY <1>1, <1>5, WriteIsSound
    <2>2. /\ overlapped' \in BOOLEAN /\ (overlapped => overlapped')
          /\ Goto(c, "restrict") /\ pc[c] = "write" /\ "restrict" \in Steps
          /\ UNCHANGED <<profile, db, key, accepted, decision>>
      BY <1>1, <1>2, <1>5 DEF Write, KeyTypes
    <2> QED
      BY <2>1, <2>2, MoveKeepsKeys
  <1>6. CASE RestrictToOwner(c)
    BY <1>1, <1>6, GoKeepsKeys DEF RestrictToOwner
  <1>7. CASE SaveFails(c)
    <2>1. /\ Go(c) /\ pc[c] \in {"open", "write", "restrict"} /\ UNCHANGED overlapped
          /\ UNCHANGED file \/ (pc[c] = "write" /\ Partly(c))
      BY <1>7 DEF SaveFails
    <2>2. file' \in Files
      BY <1>1, <2>1, PartlyIsSound
    <2> QED
      BY <2>1, <2>2, GoKeepsKeys
  <1> QED
    BY <1>3, <1>4, <1>5, <1>6, <1>7

LEMMA TimeoutKeepsKeys == ASSUME KeyInv, NEW c \in Connections, Timeout(c) PROVE KeyInv'
  <1>1. "timedout" \in Steps
    BY DEF Steps, Ended
  <1>2. file' \in [exists : BOOLEAN, lines : Seq(Sound)] /\ overlapped' = overlapped
        /\ overlapped \in BOOLEAN
    BY DEF Timeout, KeyInv, KeyTypes
  <1> QED
    BY <1>1, <1>2, MoveKeepsKeys DEF Timeout

(* An answer adds at most the line that it makes genuine, and the key of that
   line is known from then on. *)
LEMMA AnswerKeepsKeys ==
    ASSUME KeyInv, NEW c \in Connections, NEW d \in Decisions, Answer(c, d)
    PROVE  KeyInv'
  <1> USE DEF KeyInv
  <1> DEFINE was == Sound
             are == Sound'
             next == IF d = "AcceptOnce" THEN "connected"
                     ELSE IF d = "AcceptAndSave" THEN "open" ELSE "refused"
  <1>1. /\ UNCHANGED <<file, first, target, policy, key, overlapped>>
        /\ pc[c] = "asked"
        /\ decision' = [decision EXCEPT ![c] = d]
        /\ accepted' = [accepted EXCEPT ![c] = IF d = "AcceptOnce" THEN {key[c]} ELSE {}]
        /\ db' = [db EXCEPT ![c] =
                    IF d = "AcceptAndSave" THEN Accept(db[c], target[c], key[c]) ELSE db[c]]
    BY DEF Answer, profile
  <1>2. pc' = [pc EXCEPT ![c] = next]
    BY DEF Answer, Goto, Decisions
  <1>3. decision[c] = "none" /\ accepted[c] = {}
    BY <1>1 DEF Undecided
  <1>4. Knows(c) = "Unknown" /\ policy[c] = "AcceptNew"
    BY <1>1 DEF Asked
  <1>5. decision'[c] = d /\ \A e \in Connections : e # c => decision'[e] = decision[e]
    BY <1>1 DEF KeyTypes
  <1>6. was \subseteq are
    <2>1. \A e \in Connections : decision[e] = "AcceptAndSave" => decision'[e] = "AcceptAndSave"
      BY <1>3, <1>5
    <2>2. Genuine \subseteq Genuine'
      BY <1>1, <2>1 DEF Genuine
    <2> QED
      BY <1>1, <2>2, SoundGrows DEF KeyTypes
  <1>7. d = "AcceptAndSave" => Recorded(target[c], key[c]) \in are
    <2>1. SUFFICES ASSUME d = "AcceptAndSave" PROVE Recorded(target[c], key[c]) \in Sound'
      OBVIOUS
    <2>2. Recorded(target[c], key[c]) \in Genuine'
      BY <1>1, <1>5, <2>1 DEF Genuine
    <2>3. Recorded(target[c], key[c]) \in Cut'
      BY <2>2 DEF Cut, Cuts
    <2>4. Recorded(target[c], key[c]) \in Line
      <3>1. /\ target[c] \in Hosts /\ key[c] \in Keys /\ KeyType[key[c]] \in Types
            /\ Reach[target[c]] \in SUBSET Hosts
        BY HostKeysAssumption DEF KeyTypes, Types
      <3> QED
        BY <3>1 DEF Recorded, Line
    <2>5. Recorded(target[c], key[c]) \in Keyed'
      BY <2>2, <2>4 DEF Keyed, GenuineKeys, Line, Recorded
    <2> QED
      BY <2>3, <2>5 DEF Sound
  <1>8. /\ file \in [exists : BOOLEAN, lines : Seq(was)]
        /\ db \in [Connections -> Seq(was)]
    BY DEF KeyTypes
  <1> HIDE DEF was, are
  <1>9. \A s \in Seq(was) : s \in Seq(are)
    BY <1>6, SeqMonotonic
  <1>10. db[c] \in Seq(are) /\ Status(db[c], target[c], key[c]) = "Unknown"
    BY <1>4, <1>8, <1>9 DEF Knows
  <1>11. d = "AcceptAndSave" =>
            /\ Accept(db[c], target[c], key[c]) \in Seq(are)
            /\ Status(Accept(db[c], target[c], key[c]), target[c], key[c]) = "Trusted"
    <2>1. target[c] \in Reach[target[c]]
      BY HostKeysAssumption DEF KeyTypes
    <2> QED
      BY <1>7, <1>10, <2>1, AcceptAppends, AcceptedIsTrusted
  <1>12. KeyTypes'
    <2>1. file' \in [exists : BOOLEAN, lines : Seq(are)]
      BY <1>1, <1>8, <1>9
    <2>2. db \in [Connections -> Seq(are)]
      BY <1>8, <1>9
    <2>3. db' \in [Connections -> Seq(are)]
      BY <1>1, <1>10, <1>11, <2>2
    <2>4. next \in Steps
      BY DEF Steps, Ended
    <2>5. pc' \in [Connections -> Steps]
      BY <1>2, <2>4 DEF KeyTypes
    <2>6. decision' \in [Connections -> Decisions \cup {"none"}]
      BY <1>1 DEF KeyTypes
    <2>7. (IF d = "AcceptOnce" THEN {key[c]} ELSE {}) \in SUBSET Keys
      BY DEF KeyTypes
    <2>8. accepted' \in [Connections -> SUBSET Keys]
      BY <1>1, <2>7 DEF KeyTypes
    <2> QED
      BY <1>1, <2>1, <2>3, <2>5, <2>6, <2>8 DEF KeyTypes, are
  <1>13. ASSUME NEW e \in Connections
         PROVE  (Undecided(e) /\ Asked(e) /\ Saving(e) /\ Verified(e) /\ Allowed(e))'
    <2>1. CASE e = c
      <3>1. pc'[c] = next /\ pc'[c] \notin {"idle", "dialling", "asked", "write", "restrict"}
        BY <1>2 DEF KeyTypes
      <3>2. accepted'[c] = (IF d = "AcceptOnce" THEN {key[c]} ELSE {})
        BY <1>1 DEF KeyTypes
      <3>3. db'[c] = (IF d = "AcceptAndSave" THEN Accept(db[c], target[c], key[c]) ELSE db[c])
        BY <1>1 DEF KeyTypes
      <3>4. d = "AcceptAndSave" => Knows(c)' = "Trusted"
        BY <1>1, <1>11, <3>3 DEF Knows
      <3>5. d # "AcceptAndSave" => Knows(c)' = "Unknown"
        BY <1>1, <1>10, <3>3 DEF Knows
      <3>6. (Undecided(c) /\ Asked(c))'
        BY <3>1 DEF Undecided, Asked
      <3>7. Saving(c)'
        BY <3>1, <3>4 DEF Saving
      <3>8. Verified(c)'
        BY <1>1, <1>4, <1>5, <3>2, <3>5 DEF Verified
      <3>9. Allowed(c)'
        BY <1>1, <1>4 DEF Allowed
      <3> QED
        BY <2>1, <3>6, <3>7, <3>8, <3>9
    <2>2. CASE e # c
      <3>1. /\ pc'[e] = pc[e] /\ accepted'[e] = accepted[e] /\ db'[e] = db[e]
            /\ decision'[e] = decision[e]
        BY <1>1, <1>2, <2>2 DEF KeyTypes
      <3>2. Knows(e)' = Knows(e)
        BY <1>1, <3>1 DEF Knows
      <3> QED
        BY <1>1, <3>1, <3>2 DEF Undecided, Asked, Saving, Verified, Allowed
    <2> QED
      BY <2>1, <2>2
  <1> QED
    BY <1>12, <1>13

LEMMA CrashKeepsKeys == ASSUME KeyInv, Alone, Crash PROVE KeyInv'
  <1> USE DEF KeyInv
  <1>1. /\ UNCHANGED <<first, target, policy, db, key, decision, overlapped>>
        /\ pc' = [c \in Connections |-> IF pc[c] = "idle" THEN "idle" ELSE "dead"]
        /\ accepted' = [c \in Connections |-> {}]
    BY DEF Crash, profile
  <1>2. Sound' = Sound
    BY <1>1, SoundStays
  <1>3. file' \in [exists : BOOLEAN, lines : Seq(Sound)]
    <2>1. KeyTypes /\ file \in [exists : BOOLEAN, lines : Seq(Sound)]
      BY DEF KeyTypes
    <2>2. UNCHANGED file \/ \E c \in Connections : pc[c] = "write" /\ Partly(c)
      BY DEF Crash
    <2> QED
      BY <1>2, <2>1, <2>2, PartlyIsSound
  <1>4. KeyTypes'
    BY <1>1, <1>2, <1>3 DEF KeyTypes, Steps, Ended
  <1>5. ASSUME NEW c \in Connections
        PROVE  (Undecided(c) /\ Asked(c) /\ Saving(c) /\ Verified(c) /\ Allowed(c))'
    <2>1. accepted'[c] = {} /\ pc'[c] = (IF pc[c] = "idle" THEN "idle" ELSE "dead")
      BY <1>1
    <2> QED
      BY <1>1, <2>1 DEF Undecided, Asked, Saving, Verified, Allowed
  <1> QED
    BY <1>4, <1>5

(* A save that begins while another one writes counts as an overlap. *)
LEMMA AloneInductive == KeyTypes /\ Alone /\ [Next]_vars => Alone'
  <1> SUFFICES ASSUME KeyTypes, Alone, [Next]_vars PROVE Alone'
    OBVIOUS
  <1> SUFFICES ASSUME ~overlapped' PROVE
         /\ \A c, d \in Connections : pc'[c] = "write" /\ pc'[d] = "write" => c = d
         /\ \A c \in Connections : pc'[c] = "write" => file'.lines = <<>>
    BY DEF Alone
  <1>1. CASE UNCHANGED vars
    BY <1>1 DEF vars, Alone
  <1>2. CASE Crash
    <2>1. \A c \in Connections : pc'[c] # "write"
      BY <1>2 DEF Crash
    <2> QED
      BY <2>1
  <1>3. ASSUME NEW c \in Connections, NEW step \in Steps, step # "write", Goto(c, step),
               UNCHANGED overlapped, UNCHANGED file \/ pc[c] = "write"
        PROVE  /\ \A e, d \in Connections : pc'[e] = "write" /\ pc'[d] = "write" => e = d
               /\ \A e \in Connections : pc'[e] = "write" => file'.lines = <<>>
    <2>1. \A e \in Connections : pc'[e] = "write" => pc[e] = "write" /\ e # c
      BY <1>3 DEF Goto, KeyTypes
    <2> QED
      BY <1>3, <2>1 DEF Alone
  <1>4. ASSUME NEW c \in Connections, Truncate(c)
        PROVE  /\ \A e, d \in Connections : pc'[e] = "write" /\ pc'[d] = "write" => e = d
               /\ \A e \in Connections : pc'[e] = "write" => file'.lines = <<>>
    <2>1. \A d \in Connections \ {c} : pc[d] # "write"
      BY <1>4 DEF Truncate
    <2>2. \A e \in Connections : pc'[e] = "write" => e = c
      BY <1>4, <2>1 DEF Truncate, Goto, KeyTypes
    <2>3. file'.lines = <<>>
      BY <1>4 DEF Truncate
    <2> QED
      BY <2>2, <2>3
  <1>5. {"dialling", "asked", "connected", "refused", "timedout", "open", "restrict"} \subseteq Steps
    BY DEF Steps, Ended
  <1>6. ASSUME NEW c \in Connections, ~Truncate(c),
               Load(c) \/ Proceed(c) \/ Timeout(c) \/ SaveFails(c)
                 \/ \E d \in Decisions : Answer(c, d)
        PROVE  \E step \in Steps \ {"write"} : Goto(c, step) /\ UNCHANGED overlapped
                  /\ (UNCHANGED file \/ pc[c] = "write")
    <2>1. CASE Load(c)
      BY <1>5, <2>1 DEF Load
    <2>2. CASE CheckServerKey(c)
      BY <1>5, <2>2 DEF CheckServerKey
    <2>3. CASE SaveWithoutPath(c) \/ RestrictToOwner(c)
      BY <1>5, <2>3 DEF SaveWithoutPath, RestrictToOwner, Go
    <2>4. CASE Write(c)
      BY <1>5, <2>4 DEF Write
    <2>5. CASE Timeout(c)
      BY <1>5, <2>5 DEF Timeout
    <2>6. CASE SaveFails(c)
      BY <1>5, <2>6 DEF SaveFails, Go
    <2>7. ASSUME NEW d \in Decisions, Answer(c, d)
          PROVE  \E step \in Steps \ {"write"} : Goto(c, step) /\ UNCHANGED overlapped
                    /\ (UNCHANGED file \/ pc[c] = "write")
      BY <1>5, <2>7 DEF Answer, Decisions
    <2> QED
      BY <1>6, <2>1, <2>2, <2>3, <2>4, <2>5, <2>6, <2>7 DEF Proceed
  <1> QED
    BY <1>1, <1>2, <1>3, <1>4, <1>6 DEF Next, Proceed

LEMMA KeysInductive == KeyInv /\ Alone /\ [Next]_vars => KeyInv'
  <1> SUFFICES ASSUME KeyInv, Alone, [Next]_vars PROVE KeyInv'
    OBVIOUS
  <1>1. CASE UNCHANGED vars
    <2>1. UNCHANGED <<file, first, target, policy, db, pc, key, accepted, decision, overlapped>>
      BY <1>1 DEF vars, profile
    <2>2. Sound' = Sound
      BY <2>1, SoundStays
    <2>3. KeyTypes'
      BY <2>1, <2>2 DEF KeyInv, KeyTypes
    <2>4. \A c \in Connections : Knows(c)' = Knows(c)
      BY <2>1 DEF Knows
    <2> QED
      BY <2>1, <2>3, <2>4 DEF KeyInv, Undecided, Asked, Saving, Verified, Allowed
  <1>2. CASE \E c \in Connections : Load(c) \/ Proceed(c) \/ Timeout(c) \/ SaveFails(c)
    BY <1>2, LoadKeepsKeys, CheckKeepsKeys, SaveKeepsKeys, TimeoutKeepsKeys DEF Proceed
  <1>3. CASE \E c \in Connections, d \in Decisions : Answer(c, d)
    BY <1>3, AnswerKeepsKeys
  <1>4. CASE Crash
    BY <1>4, CrashKeepsKeys
  <1> QED
    BY <1>1, <1>2, <1>3, <1>4 DEF Next

LEMMA KeysAlways == Spec => []KeyInv
  <1>1. Init => Alone
    BY DEF Init, Alone
  <1>2. KeyInv => KeyTypes
    BY DEF KeyInv
  <1> QED
    BY <1>1, <1>2, KeysInitial, KeysInductive, AloneInductive, PTL DEF Spec

(* handler.rs, check_server_key: a connection goes on only with the key its
   server presented, trusted by its database or accepted once by a user who was
   asked about a key that was unknown. *)
THEOREM VerifiedTheorem == Spec => []ConnectedWasVerified
  <1>1. KeyInv => ConnectedWasVerified
    BY DEF KeyInv, Verified, Allowed, Knows, ConnectedWasVerified
  <1> QED
    BY <1>1, KeysAlways, PTL

(* known_hosts.rs, accept and save: whatever connections, failures and crashes
   do to the file, no line of it has a key other than those it had and those
   that users accepted, unless the key was cut; and until two saves overlap, no
   line has another marker, algorithm or host either. *)
THEOREM GenuineTheorem == Spec => []LinesAreGenuine
  <1>1. ASSUME KeyInv PROVE LinesAreGenuine
    <2>1. file.lines \in Seq(Sound) /\ KeyTypes
      BY <1>1 DEF KeyInv, KeyTypes
    <2>2. \A i \in DOMAIN file.lines : file.lines[i] \in Sound
      BY <2>1
    <2>3. \A line \in Sound : line.key \in GenuineKeys
      BY <2>1, SoundIsKeyed DEF Keyed
    <2>4. ~overlapped => \A line \in Sound : \E origin \in Genuine : line \in Cuts(origin)
      BY DEF Sound, Cut
    <2> QED
      BY <2>2, <2>3, <2>4 DEF LinesAreGenuine, GenuineKeys
  <1> QED
    BY <1>1, KeysAlways, PTL

(* known_hosts.rs, accept, as check_server_key calls it: an answer leaves every
   line of the database where it was. *)
THEOREM AcceptTheorem == Spec => AcceptOnlyAdds
  <1> DEFINE Adds == \A c \in Connections : pc[c] = "asked" =>
                        SubSeq(db'[c], 1, Len(db[c])) = db[c]
  <1>1. ASSUME KeyInv, Next PROVE Adds
    <2> SUFFICES ASSUME NEW c \in Connections, pc[c] = "asked"
                 PROVE  SubSeq(db'[c], 1, Len(db[c])) = db[c]
      OBVIOUS
    <2>1. db[c] \in Seq(Sound) /\ SubSeq(db[c], 1, Len(db[c])) = db[c]
      BY <1>1, SubSeqFull DEF KeyInv, KeyTypes
    <2>2. CASE db'[c] = db[c]
      BY <2>1, <2>2
    <2>3. CASE db' # db /\ db'[c] # db[c]
      <3>1. PICK d \in Decisions : Answer(c, d)
        BY <1>1, <2>3
        DEF Next, Load, Proceed, CheckServerKey, SaveWithoutPath, Truncate, Write, RestrictToOwner,
            Timeout, SaveFails, Go, Crash, Answer, KeyInv, KeyTypes
      <3>2. db'[c] = Accept(db[c], target[c], key[c])
        BY <1>1, <2>3, <3>1 DEF Answer, KeyInv, KeyTypes
      <3>3. Status(db[c], target[c], key[c]) = "Unknown"
        BY <1>1 DEF KeyInv, Asked, Knows
      <3> DEFINE lines == Sound \cup {Recorded(target[c], key[c])}
                 new == Accept(db[c], target[c], key[c])
      <3>4. db[c] \in Seq(lines)
        BY <2>1, SeqMonotonic
      <3>5. Recorded(target[c], key[c]) \in lines
        OBVIOUS
      <3> HIDE DEF lines
      <3>6. /\ new \in Seq(lines) /\ Len(new) = Len(db[c]) + 1
            /\ \A i \in 1..Len(db[c]) : new[i] = db[c][i]
        BY <3>3, <3>4, <3>5, AcceptAppends
      <3> HIDE DEF new
      <3>7. Len(db[c]) \in Nat /\ \A i \in 1..Len(db[c]) : new[i] \in lines
        BY <3>4, <3>6
      <3>8. /\ SubSeq(new, 1, Len(db[c])) \in Seq(lines)
            /\ Len(SubSeq(new, 1, Len(db[c]))) = Len(db[c])
            /\ \A i \in 1..Len(db[c]) : SubSeq(new, 1, Len(db[c]))[i] = new[i]
        BY <3>7, SubSeqProperties
      <3>9. SubSeq(new, 1, Len(db[c])) = db[c]
        BY <3>4, <3>6, <3>8, SeqEqual
      <3> QED
        BY <3>2, <3>9 DEF new
    <2> QED
      BY <2>2, <2>3
  <1> HIDE DEF Adds
  <1>2. KeyInv /\ [Next]_vars => [Adds]_vars
    BY <1>1
  <1> QED
    BY <1>2, KeysAlways, PTL DEF Spec, AcceptOnlyAdds, Adds
===============================================================================
