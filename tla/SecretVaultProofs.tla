-------------------------- MODULE SecretVaultProofs ---------------------------
(***************************************************************************)
(* What SecretVault keeps, for any threads, entries, secrets, passphrases, *)
(* calls and faults; and what SecretStore keeps, for any callers, names,   *)
(* secrets and readers of the keystore.                                    *)
(***************************************************************************)
EXTENDS SecretVault, SecretStore, TLAPS

(* A thread that is in no call has none to carry out, and no file open; the
   file a thread has open exists. *)
Calling ==
    /\ \A t \in Threads : (pc[t] = "idle") <=> (call[t] = None)
    /\ \A t \in Threads : pc[t] \notin {"write", "finish"} => fd[t] = "none"
    /\ \A t \in Threads : pc[t] = "reopen" => call[t].op = "create"
    /\ \A t \in Threads : fd[t] = "tmp" => tmp # None
    /\ \A t \in Threads : fd[t] = "file" => file # None

(* The mutex: one call on the open vault at a time, and meanwhile the vault
   stays open and shows what the call has changed. *)
InCall(t) == call[t] # None /\ call[t].op # "create"
Mutex ==
    /\ \A t, u \in Threads : InCall(t) /\ InCall(u) => t = u
    /\ \A t \in Threads : InCall(t) => handle # None
    /\ \A t \in Threads : InCall(t) /\ call[t].op = "set" =>
          handle.entries[call[t].key] = call[t].value
    /\ \A t \in Threads : InCall(t) /\ call[t].op = "change" => handle.pass = call[t].pass

(* Without an overlap one call at most is under way. *)
Solo == \A t, u \in Threads : pc[t] # "idle" /\ pc[u] # "idle" => t = u

(* What the temporary file already is, at each step of a save. *)
SaveProgress ==
    \A t \in Threads :
        /\ pc[t] \in {"write", "finish"} => fd[t] = "tmp" /\ tmp # None
        /\ pc[t] = "write" => tmp.form = "empty"
        /\ pc[t] = "finish" => tmp.form = "torn"
        /\ pc[t] \in {"restrict", "rename"} =>
              tmp # None /\ tmp = Sealed(Saved(t), tmp.private)
        /\ pc[t] = "rename" => tmp.private
        /\ pc[t] = "reopen" => file # None /\ file = Sealed(Saved(t), file.private)

(* While a vault is being created, its callers may have either answer. *)
Creating ==
    \A t \in Threads : call[t] # None /\ call[t].op = "create" =>
        call[t].pass \in tried /\ \A k \in Keys : None \in may[k]

HandleAccounted == handle # None => handle.pass \in tried

Orderly ==
    /\ Solo
    /\ SaveProgress
    /\ Creating
    /\ VaultIsWhole
    /\ EntriesAccounted
    /\ PassphraseAccounted
    /\ HandleAccounted

Base == TypeOK /\ Calling /\ Mutex
VaultInv == Base /\ (~overlapped => Orderly)

------------------------------------------------------------------------------

LEMMA CallKinds ==
    ASSUME NEW c \in Call
    PROVE  /\ c # None
           /\ \/ c.op = "set" /\ c.key \in Keys /\ c.value \in Values \cup {None}
              \/ c.op \in {"change", "create"} /\ c.pass \in Passphrases
  BY VaultAssumption DEF Call

LEMMA EmptyIsEntries == Empty \in Entries
  BY DEF Empty, Entries

LEMMA VaultFields ==
    ASSUME NEW v \in Vault
    PROVE  v # None /\ v.pass \in Passphrases /\ v.entries \in Entries
  BY VaultAssumption DEF Vault

LEMMA ImageFields ==
    ASSUME NEW i \in Image
    PROVE  /\ i # None /\ i.form \in {"whole", "empty", "torn", "mixed"}
           /\ i.pass \in Passphrases /\ i.entries \in Entries /\ i.private \in BOOLEAN
  BY VaultAssumption DEF Image

(* What a thread in a save writes is a vault. *)
LEMMA SavedIsVault ==
    ASSUME TypeOK, Calling, Mutex, NEW t \in Threads, pc[t] # "idle"
    PROVE  Saved(t) \in Vault
  <1>1. call[t] \in Call
    BY DEF TypeOK, Calling
  <1>2. CASE call[t].op = "create"
    <2>1. call[t].pass \in Passphrases
      BY <1>1, <1>2, CallKinds
    <2> QED
      BY <1>2, <2>1, EmptyIsEntries DEF Saved, Vault
  <1>3. CASE call[t].op # "create"
    <2>1. InCall(t)
      BY <1>1, <1>3, CallKinds DEF InCall
    <2>2. handle \in Vault
      BY <2>1 DEF Mutex, TypeOK
    <2> QED
      BY <1>3, <2>2 DEF Saved
  <1> QED
    BY <1>2, <1>3

LEMMA SealedIsImage ==
    ASSUME NEW v \in Vault, NEW private \in BOOLEAN
    PROVE  Sealed(v, private) \in Image
  BY VaultFields DEF Sealed, Image

LEMMA FormIsImage ==
    ASSUME NEW i \in Image, NEW form \in {"whole", "empty", "torn", "mixed"}
    PROVE  [i EXCEPT !.form = form] \in Image
  BY DEF Image

(* Filling a file keeps both of them files or absent. *)
LEMMA FillIsTyped ==
    ASSUME TypeOK, NEW t \in Threads, NEW image \in Image, Fill(t, image)
    PROVE  /\ file' \in Image \cup {None} /\ tmp' \in Image \cup {None}
           /\ tmp # None => tmp' # None
           /\ file # None => file' # None
  BY ImageFields DEF TypeOK, Fill

(* A call that begins: from the thread's idle step to its first one. *)
LEMMA EnterIsTyped ==
    ASSUME TypeOK, NEW t \in Threads, NEW c \in Call, Enter(t, c)
    PROVE  /\ pc' \in [Threads -> SaveStep \cup {"idle", "reopen"}]
           /\ call' \in [Threads -> Call \cup {None}]
           /\ overlapped' \in BOOLEAN
           /\ calls' \in 0..MaxCalls
           /\ pc'[t] = "create" /\ call'[t] = c
           /\ \A u \in Threads \ {t} : pc'[u] = pc[u] /\ call'[u] = call[u]
  <1>1. calls' \in 0..MaxCalls
    BY VaultAssumption DEF Enter, TypeOK
  <1>2. overlapped' \in BOOLEAN
    BY DEF Enter
  <1> QED
    BY <1>1, <1>2 DEF Enter, TypeOK, SaveStep

(* A call of the open vault begins only when nobody holds the mutex. *)
LEMMA EnterKeepsCalling ==
    ASSUME TypeOK, Calling, NEW t \in Threads, NEW c \in Call, Enter(t, c)
    PROVE  Calling'
  <1>1. c # None
    BY CallKinds
  <1>2. fd' = fd /\ tmp' = tmp /\ file' = file
    BY DEF Enter, disk
  <1>3. pc[t] = "idle"
    BY DEF Enter
  <1> QED
    BY <1>1, <1>2, <1>3, EnterIsTyped DEF Calling

LEMMA BeginKeepsBase ==
    ASSUME Base, NEW t \in Threads, Begin(t)
    PROVE  Base'
  <1> USE DEF Base
  <1>1. ASSUME NEW k \in Keys, NEW v \in Values \cup {None}, Set(t, k, v)
        PROVE  Base'
    <2> DEFINE c == [op |-> "set", key |-> k, value |-> v]
    <2>1. c \in Call
      BY DEF Call
    <2>2. Enter(t, c) /\ ~Held /\ handle # None /\ tried' = tried
      BY <1>1 DEF Set
    <2> HIDE DEF c
    <2>3. handle \in Vault
      BY <2>2 DEF TypeOK
    <2>4. With(handle.entries, k, v) \in Entries /\ With(handle.entries, k, v)[k] = v
      BY <2>3, VaultFields DEF With, Entries
    <2>5. handle' = [handle EXCEPT !.entries = With(handle.entries, k, v)]
      BY <1>1 DEF Set
    <2>6. handle' \in Vault /\ handle'.entries[k] = v
      BY <2>3, <2>4, <2>5 DEF Vault
    <2>7. may' \in [Keys -> SUBSET (Values \cup {None})]
      BY <1>1 DEF Set, TypeOK
    <2>8. TypeOK'
      BY <2>1, <2>2, <2>6, <2>7, EnterIsTyped DEF TypeOK, Enter, disk
    <2>9. \A u \in Threads : InCall(u)' => u = t
      BY <2>1, <2>2, EnterIsTyped DEF Held, InCall
    <2>10. Mutex'
      <3>1. c.op = "set" /\ c.key = k /\ c.value = v
        BY DEF c
      <3>2. call'[t] = c
        BY <2>1, <2>2, EnterIsTyped
      <3>3. handle' # None
        BY <2>6, VaultFields
      <3> QED
        BY <2>6, <2>9, <3>1, <3>2, <3>3 DEF Mutex, InCall
    <2> QED
      BY <2>1, <2>2, <2>8, <2>10, EnterKeepsCalling
  <1>2. ASSUME NEW p \in Passphrases, ChangePassphrase(t, p)
        PROVE  Base'
    <2> DEFINE c == [op |-> "change", pass |-> p]
    <2>1. c \in Call
      BY DEF Call
    <2>2. Enter(t, c) /\ ~Held /\ handle # None /\ tried' = tried \cup {p} /\ may' = may
      BY <1>2 DEF ChangePassphrase
    <2> HIDE DEF c
    <2>3. handle \in Vault
      BY <2>2 DEF TypeOK
    <2>4. handle' = [handle EXCEPT !.pass = p]
      BY <1>2 DEF ChangePassphrase
    <2>5. handle' \in Vault /\ handle'.pass = p
      BY <2>3, <2>4 DEF Vault
    <2>6. TypeOK'
      BY <2>1, <2>2, <2>5, EnterIsTyped DEF TypeOK, Enter, disk
    <2>7. \A u \in Threads : InCall(u)' => u = t
      BY <2>1, <2>2, EnterIsTyped DEF Held, InCall
    <2>8. Mutex'
      <3>1. c.op = "change" /\ c.pass = p
        BY DEF c
      <3>2. call'[t] = c
        BY <2>1, <2>2, EnterIsTyped
      <3>3. handle' # None
        BY <2>5, VaultFields
      <3> QED
        BY <2>5, <2>7, <3>1, <3>2, <3>3 DEF Mutex, InCall
    <2> QED
      BY <2>1, <2>2, <2>6, <2>8, EnterKeepsCalling
  <1>3. ASSUME NEW p \in Passphrases, CreateVault(t, p)
        PROVE  Base'
    <2> DEFINE c == [op |-> "create", pass |-> p]
    <2>1. c \in Call
      BY DEF Call
    <2>2. Enter(t, c) /\ handle' = handle /\ tried' = tried \cup {p}
      BY <1>3 DEF CreateVault
    <2>3. c.op = "create"
      OBVIOUS
    <2> HIDE DEF c
    <2>4. may' \in [Keys -> SUBSET (Values \cup {None})]
      BY <1>3 DEF CreateVault, TypeOK
    <2>5. TypeOK'
      BY <2>1, <2>2, <2>4, EnterIsTyped DEF TypeOK, Enter, disk
    <2>6. \A u \in Threads : InCall(u)' => InCall(u) /\ call'[u] = call[u]
      BY <2>1, <2>2, <2>3, EnterIsTyped DEF InCall
    <2>7. Mutex'
      BY <2>2, <2>6 DEF Mutex, InCall
    <2> QED
      BY <2>1, <2>2, <2>5, <2>7, EnterKeepsCalling
  <1> QED
    BY <1>1, <1>2, <1>3 DEF Begin, Delete

(* An error ends the call and changes nothing else. *)
LEMMA FailKeepsBase ==
    ASSUME Base, NEW t \in Threads, Fail(t), faults' \in 0..MaxFaults
    PROVE  Base'
  <1> USE DEF Base
  <1>1. TypeOK'
    BY DEF TypeOK, Fail, Return, Goto, answers
  <1>2. Calling'
    BY DEF TypeOK, Calling, Fail, Return, Goto
  <1>3. \A u \in Threads : InCall(u)' => InCall(u) /\ call'[u] = call[u]
    BY DEF TypeOK, Fail, Return, InCall
  <1>4. Mutex'
    BY <1>3 DEF Mutex, Fail
  <1> QED
    BY <1>1, <1>2, <1>4

(* A step of a save that leaves memory and the calls alone. *)
LEMMA QuietKeepsMutex ==
    ASSUME Mutex, UNCHANGED <<handle, call>>
    PROVE  Mutex'
  BY DEF Mutex, InCall

(* What the answer to a call leaves open is typed. *)
LEMMA AcknowledgeIsTyped ==
    ASSUME TypeOK, NEW c \in Call, Acknowledge(c)
    PROVE  may' \in [Keys -> SUBSET (Values \cup {None})] /\ tried' \subseteq Passphrases
  <1>1. CASE c.op = "set"
    BY <1>1, CallKinds DEF Acknowledge, TypeOK
  <1>2. CASE c.op = "change"
    BY <1>2, CallKinds DEF Acknowledge, TypeOK
  <1>3. CASE c.op = "create"
    BY <1>3, CallKinds DEF Acknowledge, TypeOK
  <1> QED
    BY <1>1, <1>2, <1>3, CallKinds

LEMMA RenameKeepsBase ==
    ASSUME Base, NEW t \in Threads, Rename(t), tmp # None
    PROVE  Base'
  <1> USE DEF Base
  <1>1. call[t] \in Call
    BY DEF Rename, TypeOK, Calling
  <1>2. fd' \in [Threads -> {"none", "tmp", "file", "gone"}]
    BY DEF Rename, TypeOK, Moved
  <1>3. \A u \in Threads : (fd[u] = "none" => fd'[u] = "none") /\ fd'[u] # "tmp"
    BY DEF Rename, TypeOK, Moved
  <1>4. file' = tmp /\ tmp' = None /\ handle' = handle
        /\ UNCHANGED <<overlapped, calls, faults>>
    BY DEF Rename
  <1>5. CASE call[t].op = "create"
    <2>1. Goto(t, "reopen") /\ UNCHANGED <<call, answers>>
      BY <1>5 DEF Rename
    <2>2. TypeOK'
      BY <1>2, <1>4, <2>1 DEF TypeOK, Goto, answers
    <2>3. Calling'
      BY <1>3, <1>4, <1>5, <2>1 DEF TypeOK, Calling, Goto, Rename
    <2> QED
      BY <1>4, <2>1, <2>2, <2>3, QuietKeepsMutex
  <1>6. CASE call[t].op # "create"
    <2>1. Goto(t, "idle") /\ call' = [call EXCEPT ![t] = None] /\ Acknowledge(call[t])
      BY <1>6 DEF Rename
    <2>2. TypeOK'
      BY <1>1, <1>2, <1>4, <2>1, AcknowledgeIsTyped DEF TypeOK, Goto
    <2>3. Calling'
      BY <1>3, <1>4, <2>1 DEF TypeOK, Calling, Goto, Rename
    <2>4. \A u \in Threads : InCall(u)' => InCall(u) /\ call'[u] = call[u]
      BY <2>1 DEF TypeOK, InCall
    <2>5. Mutex'
      BY <1>4, <2>4 DEF Mutex
    <2> QED
      BY <2>2, <2>3, <2>5
  <1> QED
    BY <1>5, <1>6

LEMMA SaveKeepsBase ==
    ASSUME Base, NEW t \in Threads, Save(t)
    PROVE  Base'
  <1> USE DEF Base
  <1>1. ASSUME Create(t) PROVE Base'
    <2> DEFINE old == tmp # None /\ tmp.private
               image == [form |-> "empty", pass |-> Saved(t).pass, entries |-> Empty,
                         private |-> old]
    <2>1. Saved(t).pass \in Passphrases
      BY <1>1, SavedIsVault, VaultFields DEF Create
    <2>2. old \in BOOLEAN
      OBVIOUS
    <2>3. tmp' = image
      BY <1>1 DEF Create
    <2> HIDE DEF old
    <2>4. image \in Image
      BY <2>1, <2>2, EmptyIsEntries DEF Image
    <2> HIDE DEF image
    <2>5. TypeOK'
      BY <1>1, <2>3, <2>4 DEF TypeOK, Create, Goto, SaveStep, answers
    <2>6. Calling'
      BY <1>1, <2>3, <2>4, ImageFields DEF TypeOK, Calling, Create, Goto
    <2> QED
      BY <1>1, <2>5, <2>6, QuietKeepsMutex DEF Create
  <1>2. ASSUME BeginWrite(t) PROVE Base'
    <2> DEFINE form == IF Alone(t) /\ Contents(t).form = "empty" THEN "torn" ELSE "mixed"
               image == [Contents(t) EXCEPT !.form = form]
    <2>1. Fill(t, image)
      BY <1>2 DEF BeginWrite
    <2>2. form \in {"whole", "empty", "torn", "mixed"}
      OBVIOUS
    <2> HIDE DEF form
    <2>3. /\ file' \in Image \cup {None} /\ tmp' \in Image \cup {None}
          /\ tmp # None => tmp' # None
          /\ file # None => file' # None
      <3>1. CASE fd[t] \in {"tmp", "file"}
        <4>1. Contents(t) \in Image
          BY <3>1 DEF Contents, TypeOK, Calling
        <4>2. image \in Image
          BY <2>2, <4>1, FormIsImage
        <4> HIDE DEF image
        <4> QED
          BY <2>1, <4>2, FillIsTyped
      <3>2. CASE fd[t] \notin {"tmp", "file"}
        BY <2>1, <3>2 DEF Fill, TypeOK
      <3> QED
        BY <3>1, <3>2
    <2> HIDE DEF image
    <2>4. TypeOK'
      BY <1>2, <2>3 DEF TypeOK, BeginWrite, Goto, SaveStep, answers
    <2>5. Calling'
      BY <1>2, <2>3 DEF TypeOK, Calling, BeginWrite, Goto
    <2> QED
      BY <1>2, <2>4, <2>5, QuietKeepsMutex DEF BeginWrite
  <1>3. ASSUME FinishWrite(t) PROVE Base'
    <2>1. /\ file' \in Image \cup {None} /\ tmp' \in Image \cup {None}
          /\ tmp # None => tmp' # None
          /\ file # None => file' # None
      <3>1. CASE fd[t] \in {"tmp", "file"}
        <4>1. Contents(t) \in Image
          BY <3>1 DEF Contents, TypeOK, Calling
        <4>2. Sealed(Saved(t), Contents(t).private) \in Image
          BY <1>3, <4>1, SavedIsVault, ImageFields, SealedIsImage DEF FinishWrite
        <4>3. [Contents(t) EXCEPT !.form = "mixed"] \in Image
          BY <4>1, FormIsImage
        <4>4. CASE Fill(t, Sealed(Saved(t), Contents(t).private))
          BY <4>2, <4>4, FillIsTyped
        <4>5. CASE Fill(t, [Contents(t) EXCEPT !.form = "mixed"])
          BY <4>3, <4>5, FillIsTyped
        <4> QED
          BY <1>3, <4>4, <4>5 DEF FinishWrite
      <3>2. CASE fd[t] \notin {"tmp", "file"}
        BY <1>3, <3>2 DEF FinishWrite, Fill, TypeOK
      <3> QED
        BY <3>1, <3>2
    <2>2. TypeOK'
      BY <1>3, <2>1 DEF TypeOK, FinishWrite, Goto, SaveStep, answers
    <2>3. Calling'
      BY <1>3, <2>1 DEF TypeOK, Calling, FinishWrite, Goto
    <2> QED
      BY <1>3, <2>2, <2>3, QuietKeepsMutex DEF FinishWrite
  <1>4. ASSUME Restrict(t) PROVE Base'
    <2>1. CASE tmp = None
      BY <1>4, <2>1, FailKeepsBase DEF Restrict, TypeOK
    <2>2. CASE tmp # None
      <3>1. tmp' = [tmp EXCEPT !.private = TRUE]
        BY <1>4, <2>2 DEF Restrict
      <3>2. tmp' \in Image
        BY <2>2, <3>1 DEF TypeOK, Image
      <3>3. TypeOK'
        BY <1>4, <2>2, <3>2 DEF TypeOK, Restrict, Goto, SaveStep, answers
      <3>4. Calling'
        BY <1>4, <2>2, <3>2, ImageFields DEF TypeOK, Calling, Restrict, Goto
      <3> QED
        BY <1>4, <2>2, <3>3, <3>4, QuietKeepsMutex DEF Restrict
    <2> QED
      BY <2>1, <2>2
  <1>5. ASSUME Rename(t) PROVE Base'
    <2>1. CASE tmp = None
      BY <1>5, <2>1, FailKeepsBase DEF Rename, TypeOK
    <2>2. CASE tmp # None
      BY <1>5, <2>2, RenameKeepsBase
    <2> QED
      BY <2>1, <2>2
  <1> QED
    BY <1>1, <1>2, <1>3, <1>4, <1>5 DEF Save

LEMMA ReopenKeepsBase ==
    ASSUME Base, NEW t \in Threads, Reopen(t)
    PROVE  Base'
  <1> USE DEF Base
  <1>1. CASE ~Opens(call[t].pass)
    BY <1>1, FailKeepsBase DEF Reopen, TypeOK
  <1>2. CASE Opens(call[t].pass)
    <2>1. /\ handle' = Opened
          /\ Acknowledge(call[t])
          /\ Return(t)
          /\ UNCHANGED <<file, tmp, overlapped, calls, faults>>
      BY <1>2 DEF Reopen
    <2>2. call[t] \in Call /\ call[t].op = "create"
      BY DEF Reopen, TypeOK, Calling
    <2>3. Opened \in Vault
      BY <1>2, ImageFields DEF Opens, Opened, Vault, TypeOK
    <2>4. TypeOK'
      BY <2>1, <2>2, <2>3, AcknowledgeIsTyped DEF TypeOK, Return, Goto
    <2>5. Calling'
      BY <2>1 DEF TypeOK, Calling, Return, Goto
    <2>6. \A u \in Threads : ~InCall(u)'
      BY <2>1 DEF TypeOK, Reopen, Held, InCall, Return
    <2>7. Mutex'
      BY <2>6 DEF Mutex
    <2> QED
      BY <2>4, <2>5, <2>7
  <1> QED
    BY <1>1, <1>2

LEMMA BaseInit == Init => Base
  <1>1. ASSUME Init PROVE TypeOK
    <2>1. calls \in 0..MaxCalls /\ faults \in 0..MaxFaults
      BY <1>1, VaultAssumption DEF Init
    <2>2. may \in [Keys -> SUBSET (Values \cup {None})]
      BY <1>1 DEF Init
    <2> QED
      BY <1>1, <2>1, <2>2 DEF Init, TypeOK
  <1>2. Init => Calling /\ Mutex
    BY DEF Init, Calling, Mutex, InCall
  <1> QED
    BY <1>1, <1>2 DEF Base

LEMMA BaseStep == Base /\ [Next]_vars => Base'
  <1> SUFFICES ASSUME Base, [Next]_vars PROVE Base'
    OBVIOUS
  <1> USE DEF Base
  <1>1. ASSUME NEW p \in Passphrases, Unlock(p) PROVE Base'
    <2>1. Opened \in Vault
      BY <1>1, ImageFields DEF Unlock, Opens, Opened, Vault, TypeOK
    <2>2. TypeOK'
      BY <1>1, <2>1 DEF TypeOK, Unlock, disk, answers
    <2>3. Calling'
      BY <1>1 DEF Calling, Unlock, disk
    <2>4. \A u \in Threads : ~InCall(u)'
      BY <1>1 DEF Unlock, Held, InCall
    <2> QED
      BY <2>2, <2>3, <2>4 DEF Mutex
  <1>2. ASSUME Lock PROVE Base'
    <2>1. TypeOK' /\ Calling'
      BY <1>2 DEF TypeOK, Calling, Lock, disk, answers
    <2>2. \A u \in Threads : ~InCall(u)'
      BY <1>2 DEF Lock, Held, InCall
    <2> QED
      BY <2>1, <2>2 DEF Mutex
  <1>3. ASSUME NEW t \in Threads, StepFails(t) PROVE Base'
    <2>1. faults' \in 0..MaxFaults
      BY <1>3, VaultAssumption DEF StepFails, TypeOK
    <2> QED
      BY <1>3, <2>1, FailKeepsBase DEF StepFails
  <1>4. ASSUME Crash PROVE Base'
    <2>1. faults' \in 0..MaxFaults
      BY <1>4, VaultAssumption DEF Crash, TypeOK
    <2>2. TypeOK' /\ Calling'
      BY <1>4, <2>1 DEF TypeOK, Calling, Crash, answers
    <2>3. \A u \in Threads : ~InCall(u)'
      BY <1>4 DEF Crash, InCall
    <2> QED
      BY <2>2, <2>3 DEF Mutex
  <1>5. CASE UNCHANGED vars
    BY <1>5 DEF vars, disk, answers, TypeOK, Calling, Mutex, InCall
  <1> QED
    BY <1>1, <1>2, <1>3, <1>4, <1>5, BeginKeepsBase, SaveKeepsBase, ReopenKeepsBase
    DEF Next

(* Every variable has its type, whatever threads, entries, calls and faults
   there are. *)
THEOREM TypeCorrect == Spec => []TypeOK
  <1>1. Base => TypeOK
    BY DEF Base
  <1> QED
    BY <1>1, BaseInit, BaseStep, PTL DEF Spec

------------------------------------------------------------------------------
(* From here on: no overlap so far. *)

LEMMA OthersIdle ==
    ASSUME Solo, Base, NEW t \in Threads, pc[t] # "idle", NEW u \in Threads, u # t
    PROVE  pc[u] = "idle" /\ call[u] = None /\ fd[u] = "none"
  BY DEF Solo, Base, Calling

(* The call that begins is the only one. *)
LEMMA BeginKeepsOrderly ==
    ASSUME Base, Base', Orderly, ~overlapped, ~overlapped', NEW t \in Threads, Begin(t)
    PROVE  Orderly'
  <1> SUFFICES ASSUME NEW c \in Call, Enter(t, c),
                      \A k \in Keys : may[k] \subseteq may'[k], tried \subseteq tried',
                      c.op = "create" =>
                          c.pass \in tried' /\ \A k \in Keys : None \in may'[k],
                      handle' # None =>
                          /\ handle'.pass \in tried'
                          /\ \A k \in Keys : handle'.entries[k] \in may'[k]
               PROVE  Orderly'
    <2>1. ASSUME NEW k \in Keys, NEW v \in Values \cup {None}, Set(t, k, v)
          PROVE  Orderly'
      <3> DEFINE c == [op |-> "set", key |-> k, value |-> v]
      <3>1. c \in Call /\ c.op # "create"
        BY DEF Call
      <3>2. Enter(t, c) /\ handle # None /\ tried' = tried
            /\ may' = [may EXCEPT ![k] = may[k] \cup {v}]
            /\ handle' = [handle EXCEPT !.entries = With(handle.entries, k, v)]
        BY <2>1 DEF Set
      <3> HIDE DEF c
      <3>3. handle \in Vault
        BY <3>2 DEF Base, TypeOK
      <3>4. handle.pass \in tried /\ \A j \in Keys : handle.entries[j] \in may[j]
        BY <3>2 DEF Orderly, EntriesAccounted, HandleAccounted
      <3>5. handle'.pass = handle.pass /\ handle'.entries = With(handle.entries, k, v)
        BY <3>2, <3>3 DEF Vault
      <3>6. \A j \in Keys : handle'.entries[j] = IF j = k THEN v ELSE handle.entries[j]
        BY <3>3, <3>5, VaultFields DEF With, Entries
      <3>7. \A j \in Keys : may'[j] = IF j = k THEN may[j] \cup {v} ELSE may[j]
        BY <3>2 DEF Base, TypeOK
      <3> QED
        BY <3>1, <3>2, <3>4, <3>5, <3>6, <3>7
    <2>2. ASSUME NEW p \in Passphrases, ChangePassphrase(t, p)
          PROVE  Orderly'
      <3> DEFINE c == [op |-> "change", pass |-> p]
      <3>1. c \in Call /\ c.op # "create"
        BY DEF Call
      <3>2. Enter(t, c) /\ handle # None /\ tried' = tried \cup {p} /\ may' = may
            /\ handle' = [handle EXCEPT !.pass = p]
        BY <2>2 DEF ChangePassphrase
      <3> HIDE DEF c
      <3>3. handle \in Vault
        BY <3>2 DEF Base, TypeOK
      <3>4. handle'.pass = p /\ handle'.entries = handle.entries
        BY <3>2, <3>3 DEF Vault
      <3> QED
        BY <3>1, <3>2, <3>4 DEF Orderly, EntriesAccounted
    <2>3. ASSUME NEW p \in Passphrases, CreateVault(t, p)
          PROVE  Orderly'
      <3> DEFINE c == [op |-> "create", pass |-> p]
      <3>1. c \in Call /\ c.pass = p
        BY DEF Call
      <3>2. Enter(t, c) /\ handle' = handle /\ tried' = tried \cup {p}
            /\ \A k \in Keys : may'[k] = may[k] \cup {None}
        BY <2>3 DEF CreateVault
      <3> HIDE DEF c
      <3> QED
        BY <3>1, <3>2 DEF Orderly, EntriesAccounted, HandleAccounted
    <2> QED
      BY <2>1, <2>2, <2>3 DEF Begin, Delete
  <1>1. \A u \in Threads : pc[u] = "idle" /\ call[u] = None
    BY DEF Enter, Base, Calling
  <1>2. /\ pc'[t] = "create" /\ call'[t] = c
        /\ \A u \in Threads \ {t} : pc'[u] = "idle" /\ call'[u] = None
    BY <1>1, EnterIsTyped DEF Base
  <1>3. file' = file
    BY DEF Enter, disk
  <1>4. Solo' /\ SaveProgress' /\ Creating'
    BY <1>2 DEF Solo, SaveProgress, Creating
  <1>5. VaultIsWhole' /\ EntriesAccounted' /\ PassphraseAccounted' /\ HandleAccounted'
    BY <1>3 DEF Orderly, VaultIsWhole, EntriesAccounted, PassphraseAccounted, HandleAccounted
  <1> QED
    BY <1>4, <1>5 DEF Orderly

(* A call that ends with an error. *)
LEMMA FailKeepsOrderly ==
    ASSUME Base, Orderly, ~overlapped, NEW t \in Threads, pc[t] # "idle", Fail(t)
    PROVE  Orderly'
  <1>1. \A u \in Threads : pc'[u] = "idle" /\ call'[u] = None
    BY OthersIdle DEF Orderly, Fail, Return, Goto, Base, TypeOK
  <1>2. Solo' /\ SaveProgress' /\ Creating'
    BY <1>1 DEF Solo, SaveProgress, Creating
  <1>3. UNCHANGED <<file, handle, may, tried, overlapped>>
    BY DEF Fail, answers
  <1> QED
    BY <1>2, <1>3 DEF Orderly, VaultIsWhole, EntriesAccounted, PassphraseAccounted,
                      HandleAccounted

(* A step of a save before its rename: the vault, memory and the answers stay,
   and the other threads are idle. *)
LEMMA WorkKeepsOrderly ==
    ASSUME Base, Orderly, NEW t \in Threads, pc[t] # "idle",
           NEW step \in SaveStep, Goto(t, step),
           UNCHANGED <<file, handle, call, may, tried, overlapped>>,
           step \in {"write", "finish"} => fd'[t] = "tmp" /\ tmp' # None,
           step = "write" => tmp'.form = "empty",
           step = "finish" => tmp'.form = "torn",
           step \in {"restrict", "rename"} =>
               tmp' # None /\ tmp' = Sealed(Saved(t), tmp'.private),
           step = "rename" => tmp'.private
    PROVE  Orderly'
  <1>1. pc'[t] = step /\ \A u \in Threads \ {t} : pc'[u] = "idle"
    BY OthersIdle DEF Orderly, Goto, Base, TypeOK
  <1>2. Solo'
    BY <1>1 DEF Solo
  <1>3. Saved(t)' = Saved(t)
    BY DEF Saved
  <1>4. SaveProgress'
    BY <1>1, <1>3 DEF SaveProgress, SaveStep
  <1>5. Creating' /\ VaultIsWhole' /\ EntriesAccounted' /\ PassphraseAccounted'
        /\ HandleAccounted'
    BY DEF Orderly, Creating, VaultIsWhole, EntriesAccounted, PassphraseAccounted,
           HandleAccounted
  <1> QED
    BY <1>2, <1>4, <1>5 DEF Orderly

LEMMA RenameKeepsOrderly ==
    ASSUME Base, Orderly, ~overlapped, NEW t \in Threads, Rename(t)
    PROVE  Orderly'
  <1>1. pc[t] = "rename" /\ call[t] \in Call
    BY DEF Rename, Base, TypeOK, Calling
  <1>2. tmp # None /\ tmp.private /\ tmp = Sealed(Saved(t), tmp.private)
    BY <1>1 DEF Orderly, SaveProgress
  <1>3. file' = tmp /\ UNCHANGED <<handle, overlapped>>
    BY <1>2 DEF Rename
  <1>4. /\ file'.form = "whole" /\ file'.private
        /\ file'.pass = Saved(t).pass /\ file'.entries = Saved(t).entries
    BY <1>2, <1>3 DEF Sealed
  <1>5. VaultIsWhole'
    BY <1>4 DEF VaultIsWhole
  <1>6. \A u \in Threads \ {t} : pc[u] = "idle" /\ call[u] = None
    BY <1>1, OthersIdle DEF Orderly
  <1>7. CASE call[t].op = "create"
    <2>1. Goto(t, "reopen") /\ UNCHANGED <<call, may, tried>>
      BY <1>2, <1>7 DEF Rename, answers
    <2>2. pc'[t] = "reopen" /\ \A u \in Threads \ {t} : pc'[u] = "idle"
      BY <1>6, <2>1 DEF Goto, Base, TypeOK
    <2>3. Saved(t)' = Saved(t)
      BY <1>3, <2>1 DEF Saved
    <2>4. file' # None /\ file' = Sealed(Saved(t), file'.private)
      BY <1>2, <1>3
    <2>5. Solo' /\ SaveProgress'
      BY <2>2, <2>3, <2>4 DEF Solo, SaveProgress
    <2>6. call[t].pass \in tried /\ \A k \in Keys : None \in may[k]
      BY <1>1, <1>7, CallKinds DEF Orderly, Creating
    <2>7. Saved(t).pass = call[t].pass /\ \A k \in Keys : Saved(t).entries[k] = None
      BY <1>7 DEF Saved, Empty
    <2>8. Creating' /\ EntriesAccounted' /\ PassphraseAccounted' /\ HandleAccounted'
      BY <1>3, <1>4, <2>1, <2>6, <2>7
      DEF Orderly, Creating, EntriesAccounted, PassphraseAccounted, HandleAccounted
    <2> QED
      BY <1>5, <2>5, <2>8 DEF Orderly
  <1>8. CASE call[t].op # "create"
    <2>1. Goto(t, "idle") /\ call' = [call EXCEPT ![t] = None] /\ Acknowledge(call[t])
      BY <1>2, <1>8 DEF Rename
    <2>2. \A u \in Threads : pc'[u] = "idle" /\ call'[u] = None
      BY <1>6, <2>1 DEF Goto, Base, TypeOK
    <2>3. Solo' /\ SaveProgress' /\ Creating'
      BY <2>2 DEF Solo, SaveProgress, Creating
    <2>4. InCall(t)
      BY <1>1, <1>8, CallKinds DEF InCall
    <2>5. handle # None
      BY <2>4 DEF Base, Mutex
    <2>6. Saved(t) = handle
      BY <1>8 DEF Saved
    <2>7. handle.pass \in tried /\ \A k \in Keys : handle.entries[k] \in may[k]
      BY <2>5 DEF Orderly, EntriesAccounted, HandleAccounted
    <2>8. handle.pass \in tried' /\ \A k \in Keys : handle.entries[k] \in may'[k]
      <3>1. CASE call[t].op = "set"
        <4>1. /\ may' = [may EXCEPT ![call[t].key] = {call[t].value}] /\ tried' = tried
              /\ handle.entries[call[t].key] = call[t].value
          BY <2>1, <2>4, <3>1 DEF Acknowledge, Base, Mutex
        <4> QED
          BY <2>7, <4>1 DEF Base, TypeOK
      <3>2. CASE call[t].op = "change"
        <4>1. may' = may /\ tried' = {call[t].pass} /\ handle.pass = call[t].pass
          BY <2>1, <2>4, <3>2 DEF Acknowledge, Base, Mutex
        <4> QED
          BY <2>7, <4>1
      <3> QED
        BY <1>1, <1>8, <3>1, <3>2, CallKinds
    <2>9. EntriesAccounted' /\ PassphraseAccounted' /\ HandleAccounted'
      BY <1>3, <1>4, <2>6, <2>8 DEF EntriesAccounted, PassphraseAccounted, HandleAccounted
    <2> QED
      BY <1>5, <2>3, <2>9 DEF Orderly
  <1> QED
    BY <1>7, <1>8

LEMMA SaveKeepsOrderly ==
    ASSUME Base, Base', Orderly, ~overlapped, NEW t \in Threads, Save(t)
    PROVE  Orderly'
  <1>1. pc[t] # "idle"
    BY DEF Save, Create, BeginWrite, FinishWrite, Restrict, Rename
  <1>2. ASSUME NEW u \in Threads \ {t} PROVE fd[u] = "none"
    BY <1>1, OthersIdle DEF Orderly
  <1>3. Saved(t) \in Vault
    BY <1>1, SavedIsVault DEF Base
  <1>4. CASE Create(t)
    <2>1. fd'[t] = "tmp" /\ tmp'.form = "empty"
      BY <1>4 DEF Create, Base, TypeOK
    <2>2. tmp' # None
      BY <2>1 DEF Base, Calling
    <2> QED
      BY <1>1, <1>4, <2>1, <2>2, WorkKeepsOrderly DEF Create, answers, SaveStep
  <1>5. CASE BeginWrite(t)
    <2>1. fd[t] = "tmp" /\ tmp # None /\ tmp.form = "empty"
      BY <1>5 DEF BeginWrite, Orderly, SaveProgress
    <2>2. Alone(t)
      BY <1>2, <2>1 DEF Alone
    <2>3. tmp' = [tmp EXCEPT !.form = "torn"] /\ file' = file
      BY <1>5, <2>1, <2>2 DEF BeginWrite, Fill, Contents
    <2>4. tmp \in Image
      BY <2>1 DEF Base, TypeOK
    <2>5. tmp'.form = "torn"
      BY <2>3, <2>4 DEF Image
    <2>6. fd'[t] = "tmp"
      BY <1>5, <2>1 DEF BeginWrite
    <2>7. tmp' # None
      BY <2>6 DEF Base, Calling
    <2> QED
      BY <1>1, <1>5, <2>3, <2>5, <2>6, <2>7, WorkKeepsOrderly DEF BeginWrite, answers, SaveStep
  <1>6. CASE FinishWrite(t)
    <2>1. fd[t] = "tmp" /\ tmp # None /\ tmp.form = "torn"
      BY <1>6 DEF FinishWrite, Orderly, SaveProgress
    <2>2. Alone(t)
      BY <1>2, <2>1 DEF Alone
    <2>3. tmp' = Sealed(Saved(t), tmp.private) /\ file' = file
      BY <1>6, <2>1, <2>2 DEF FinishWrite, Fill, Contents
    <2>4. tmp \in Image
      BY <2>1 DEF Base, TypeOK
    <2>5. tmp' \in Image
      BY <1>3, <2>3, <2>4, ImageFields, SealedIsImage
    <2>6. tmp'.private = tmp.private
      BY <2>3 DEF Sealed
    <2>7. tmp' # None
      BY <2>5, ImageFields
    <2> QED
      BY <1>1, <1>6, <2>3, <2>6, <2>7, WorkKeepsOrderly DEF FinishWrite, answers, SaveStep
  <1>7. CASE Restrict(t)
    <2>1. tmp # None /\ tmp = Sealed(Saved(t), tmp.private)
      BY <1>7 DEF Restrict, Orderly, SaveProgress
    <2>2. tmp' = [tmp EXCEPT !.private = TRUE] /\ UNCHANGED <<file, fd>>
      BY <1>7, <2>1 DEF Restrict
    <2>3. tmp' = Sealed(Saved(t), TRUE)
      <3>1. tmp.form = "whole" /\ tmp.pass = Saved(t).pass
            /\ tmp.entries = Saved(t).entries
        BY <2>1 DEF Sealed
      <3>2. tmp \in Image
        BY <2>1 DEF Base, TypeOK
      <3>3. tmp' = [form |-> tmp.form, pass |-> tmp.pass, entries |-> tmp.entries,
                    private |-> TRUE]
        BY <2>2, <3>2 DEF Image
      <3> QED
        BY <3>1, <3>3 DEF Sealed
    <2>4. tmp'.private
      BY <2>3 DEF Sealed
    <2>5. tmp' = Sealed(Saved(t), tmp'.private)
      BY <2>3 DEF Sealed
    <2>6. tmp' \in Image
      BY <1>3, <2>3, SealedIsImage
    <2>7. tmp' # None
      BY <2>6, ImageFields
    <2> QED
      BY <1>1, <1>7, <2>1, <2>2, <2>4, <2>5, <2>7, WorkKeepsOrderly
      DEF Restrict, answers, SaveStep
  <1>8. CASE Rename(t)
    BY <1>8, RenameKeepsOrderly
  <1> QED
    BY <1>4, <1>5, <1>6, <1>7, <1>8 DEF Save

(* create_vault opens what it wrote. *)
LEMMA ReopenKeepsOrderly ==
    ASSUME Base, Base', Orderly, ~overlapped, NEW t \in Threads, Reopen(t)
    PROVE  Orderly'
  <1>1. pc[t] = "reopen" /\ call[t].op = "create"
    BY DEF Reopen, Base, Calling
  <1>2. file # None /\ file = Sealed(Saved(t), file.private)
    BY <1>1 DEF Orderly, SaveProgress
  <1>3. file.form = "whole" /\ file.pass = call[t].pass /\ file.entries = Empty
    BY <1>1, <1>2 DEF Sealed, Saved
  <1>4. /\ handle' = Opened /\ Return(t) /\ Acknowledge(call[t])
        /\ UNCHANGED <<file, overlapped>>
    BY <1>2, <1>3 DEF Reopen, Opens
  <1>5. \A u \in Threads : pc'[u] = "idle" /\ call'[u] = None
    BY <1>1, <1>4, OthersIdle DEF Orderly, Return, Goto, Base, TypeOK
  <1>6. Solo' /\ SaveProgress' /\ Creating'
    BY <1>5 DEF Solo, SaveProgress, Creating
  <1>7. tried' = {call[t].pass} /\ \A k \in Keys : may'[k] = {None}
    BY <1>1, <1>4 DEF Acknowledge
  <1>8. handle'.pass = call[t].pass /\ handle'.entries = Empty
    BY <1>3, <1>4 DEF Opened
  <1>9. /\ VaultIsWhole' /\ EntriesAccounted' /\ PassphraseAccounted'
        /\ HandleAccounted'
    BY <1>3, <1>4, <1>7, <1>8
    DEF Orderly, VaultIsWhole, EntriesAccounted, PassphraseAccounted, HandleAccounted, Empty
  <1> QED
    BY <1>6, <1>9 DEF Orderly

LEMMA VaultInit == Init => VaultInv
  <1> SUFFICES ASSUME Init PROVE VaultInv
    OBVIOUS
  <1>1. Base
    BY BaseInit
  <1>2. Solo /\ SaveProgress /\ Creating
    BY DEF Init, Solo, SaveProgress, Creating
  <1>3. VaultIsWhole /\ EntriesAccounted /\ PassphraseAccounted /\ HandleAccounted
    BY DEF Init, VaultIsWhole, EntriesAccounted, PassphraseAccounted, HandleAccounted
  <1> QED
    BY <1>1, <1>2, <1>3 DEF VaultInv, Orderly

(* An overlap is never forgotten. *)
LEMMA OverlapStays ==
    ASSUME Base, [Next]_vars, overlapped
    PROVE  overlapped'
  BY DEF Next, Begin, Set, Delete, ChangePassphrase, CreateVault, Enter, Save, Create,
         BeginWrite, FinishWrite, Restrict, Rename, Reopen, StepFails, Fail, Unlock, Lock,
         Crash, vars

LEMMA VaultStep == VaultInv /\ [Next]_vars => VaultInv'
  <1> SUFFICES ASSUME VaultInv, [Next]_vars PROVE VaultInv'
    OBVIOUS
  <1>1. Base /\ Base'
    BY BaseStep DEF VaultInv
  <1> SUFFICES ASSUME ~overlapped' PROVE Orderly'
    BY <1>1 DEF VaultInv
  <1>2. ~overlapped /\ Orderly
    BY <1>1, OverlapStays DEF VaultInv
  <1>3. ASSUME NEW p \in Passphrases, Unlock(p) PROVE Orderly'
    <2>1. \A u \in Threads : call[u] # None => call[u].op = "create"
      BY <1>3 DEF Unlock, Held
    <2>2. /\ handle' = Opened /\ file # None
          /\ UNCHANGED <<file, tmp, fd, pc, call, may, tried, overlapped>>
      BY <1>3 DEF Unlock, Opens, disk, answers
    <2>3. SaveProgress'
      <3>1. \A u \in Threads : pc[u] # "idle" => Saved(u)' = Saved(u)
        BY <1>1, <2>1, <2>2 DEF Saved, Base, Calling
      <3> QED
        BY <1>2, <2>2, <3>1 DEF Orderly, SaveProgress
    <2>4. handle'.pass = file.pass /\ handle'.entries = file.entries
      BY <2>2 DEF Opened
    <2>5. /\ Solo' /\ Creating' /\ VaultIsWhole' /\ EntriesAccounted'
          /\ PassphraseAccounted' /\ HandleAccounted'
      BY <1>2, <2>2, <2>4
      DEF Orderly, Solo, Creating, VaultIsWhole, EntriesAccounted, PassphraseAccounted,
          HandleAccounted
    <2> QED
      BY <2>3, <2>5 DEF Orderly
  <1>4. ASSUME Lock PROVE Orderly'
    <2>1. \A u \in Threads : call[u] # None => call[u].op = "create"
      BY <1>4 DEF Lock, Held
    <2>2. handle' = None /\ UNCHANGED <<file, tmp, fd, pc, call, may, tried, overlapped>>
      BY <1>4 DEF Lock, disk, answers
    <2>3. SaveProgress'
      <3>1. \A u \in Threads : pc[u] # "idle" => Saved(u)' = Saved(u)
        BY <1>1, <2>1, <2>2 DEF Saved, Base, Calling
      <3> QED
        BY <1>2, <2>2, <3>1 DEF Orderly, SaveProgress
    <2>4. /\ Solo' /\ Creating' /\ VaultIsWhole' /\ EntriesAccounted'
          /\ PassphraseAccounted' /\ HandleAccounted'
      BY <1>2, <2>2
      DEF Orderly, Solo, Creating, VaultIsWhole, EntriesAccounted, PassphraseAccounted,
          HandleAccounted
    <2> QED
      BY <2>3, <2>4 DEF Orderly
  <1>5. ASSUME NEW t \in Threads, StepFails(t) PROVE Orderly'
    BY <1>1, <1>2, <1>5, FailKeepsOrderly DEF StepFails
  <1>6. ASSUME Crash PROVE Orderly'
    <2>1. /\ \A u \in Threads : pc'[u] = "idle" /\ call'[u] = None
          /\ handle' = None /\ UNCHANGED <<file, may, tried, overlapped>>
      BY <1>6 DEF Crash, answers
    <2>2. Solo' /\ SaveProgress' /\ Creating'
      BY <2>1 DEF Solo, SaveProgress, Creating
    <2>3. VaultIsWhole' /\ EntriesAccounted' /\ PassphraseAccounted' /\ HandleAccounted'
      BY <1>2, <2>1
      DEF Orderly, VaultIsWhole, EntriesAccounted, PassphraseAccounted, HandleAccounted
    <2> QED
      BY <2>2, <2>3 DEF Orderly
  <1>7. CASE UNCHANGED vars
    BY <1>2, <1>7
    DEF vars, disk, answers, Orderly, Solo, SaveProgress, Saved, Creating, VaultIsWhole,
        EntriesAccounted, PassphraseAccounted, HandleAccounted
  <1>8. ASSUME NEW t \in Threads, Begin(t) \/ Save(t) \/ Reopen(t) PROVE Orderly'
    BY <1>1, <1>2, <1>8, BeginKeepsOrderly, SaveKeepsOrderly, ReopenKeepsOrderly
  <1> QED
    BY <1>3, <1>4, <1>5, <1>6, <1>7, <1>8 DEF Next

(* Whatever fails, the vault file is absent, or whole and private: a save never
   shows half of itself unless a creation overlapped it. *)
THEOREM WholeTheorem == Spec => []VaultIsWhole
  <1>1. VaultInv => VaultIsWhole
    BY DEF VaultInv, Orderly, VaultIsWhole
  <1> QED
    BY <1>1, VaultInit, VaultStep, PTL DEF Spec

(* Each entry is what the callers of set and delete were told, or what one that
   failed tried to make it. *)
THEOREM EntriesTheorem == Spec => []EntriesAccounted
  <1>1. VaultInv => EntriesAccounted
    BY DEF VaultInv, Orderly, EntriesAccounted
  <1> QED
    BY <1>1, VaultInit, VaultStep, PTL DEF Spec

(* The vault opens with the passphrase its owner was told, or with one a failed
   call tried to give it. *)
THEOREM PassphraseTheorem == Spec => []PassphraseAccounted
  <1>1. VaultInv => PassphraseAccounted
    BY DEF VaultInv, Orderly, PassphraseAccounted
  <1> QED
    BY <1>1, VaultInit, VaultStep, PTL DEF Spec

-------------------------------------------------------------------------------
(* The store in front of the vault and its keystores. *)

RingValues == Secrets \cup {Gone, "torn"}
StoreItems == [name : Names, secret : Secrets \cup {Gone}]
StoreTypes ==
    /\ ring \in [Names -> RingValues]
    /\ memory \in [Names -> Secrets \cup {Gone}] /\ stored \in [Names -> Secrets \cup {Gone}]
    /\ todo \in [Callers -> Seq(StoreItems)] /\ DOMAIN doing = Callers /\ clash \subseteq Callers
    /\ known \in [Places -> [Names -> Secrets \cup {Gone, Unsure}]]
    /\ moving \in [Callers -> [Names -> Secrets \cup {Gone}]]
    /\ touched \in [Callers -> SUBSET Names]

(* A caller that is at an entry, and where. *)
AtEntry(t) == todo[t] # <<>>

(* What is known is there; an entry somebody is at is not known. *)
RingKnown == \A n \in Names : known["keystore"][n] # Unsure => ring[n] = known["keystore"][n]
VaultKnown ==
    \A n \in Names : known["vault"][n] # Unsure =>
        memory[n] = known["vault"][n] /\ stored[n] = known["vault"][n]
BusyUnsure == \A t \in Callers : AtEntry(t) => known["keystore"][Entry(t).name] = Unsure
NoKeystore ==
    ~Available => known["keystore"] = NoEntries /\ \A t \in Callers : ~AtEntry(t)

(* Two callers at one entry have met, and each knows that the other touched it. *)
HaveMet ==
    \A t, u \in Callers : t # u /\ AtEntry(t) /\ AtEntry(u) /\ Entry(t).name = Entry(u).name
                             => t \in clash
OthersTouched ==
    \A t, u \in Callers : t # u /\ AtEntry(u) => Entry(u).name \in touched[t]
ClashTouched == \A t \in Callers : AtEntry(t) /\ t \in clash => Entry(t).name \in touched[t]
Meetings == BusyUnsure /\ HaveMet /\ OthersTouched /\ ClashTouched

(* A blob that was written alone is the secret. *)
Written ==
    \A t \in Callers : AtEntry(t) /\ doing[t] = "third" /\ t \notin clash
                          => ring[Entry(t).name] = Entry(t).secret

(* What a migration has taken is written, still to be written, or somebody
   else's. *)
Waits(t, n) == \E i \in DOMAIN todo[t] : todo[t][i].name = n
Copied(t) ==
    \A n \in Names : moving[t][n] # Gone /\ n \notin touched[t]
                        => Waits(t, n) \/ ring[n] = moving[t][n]
ListTaken(t) ==
    moving[t] # NoEntries => \A i \in DOMAIN todo[t] : todo[t][i].secret = moving[t][todo[t][i].name]
Unfailed(t) == AtEntry(t) \/ doing[t] # "failed"
(* A migration has ended when no entry is left. *)
Underway == \A t \in Callers : AtEntry(t) => doing[t] # "migrated"
Migrating == \A t \in Callers : ListTaken(t) /\ (Unfailed(t) => Copied(t))

StoreInv ==
    /\ StoreTypes /\ RingKnown /\ VaultKnown /\ NoKeystore
    /\ Meetings /\ Written /\ Migrating /\ Underway

LEMMA StoreInitInv == StoreInit => StoreInv
  <1> SUFFICES ASSUME StoreInit PROVE StoreInv
    OBVIOUS
  <1>1. NoEntries \in [Names -> Secrets \cup {Gone}] /\ \A n \in Names : NoEntries[n] = Gone
    BY DEF NoEntries
  <1>2. /\ ring = NoEntries /\ memory = NoEntries /\ stored = NoEntries
        /\ todo = [t \in Callers |-> <<>>] /\ doing = [t \in Callers |-> "nothing"]
        /\ clash = {} /\ known = [p \in Places |-> NoEntries]
        /\ moving = [t \in Callers |-> NoEntries] /\ touched = [t \in Callers |-> {}]
    BY DEF StoreInit
  <1>3. \A t \in Callers : todo[t] = <<>> /\ moving[t] = NoEntries
    BY <1>2
  <1>4. known["keystore"] = NoEntries /\ known["vault"] = NoEntries
    BY <1>2 DEF Places
  <1>5. StoreTypes
    <2>1. <<>> \in Seq(StoreItems)
      OBVIOUS
    <2>2. known \in [Places -> [Names -> Secrets \cup {Gone, Unsure}]]
      <3>1. NoEntries \in [Names -> Secrets \cup {Gone, Unsure}]
        BY <1>1
      <3> QED
        BY <1>2, <3>1
    <2> QED
      BY <1>1, <1>2, <2>1, <2>2 DEF StoreTypes, RingValues
  <1>6. RingKnown /\ VaultKnown
    BY <1>1, <1>2, <1>4 DEF RingKnown, VaultKnown
  <1>7. NoKeystore /\ Meetings /\ Written /\ Underway
    BY <1>3, <1>4 DEF NoKeystore, Meetings, Written, AtEntry, BusyUnsure, HaveMet, OthersTouched,
                      ClashTouched, Underway
  <1>8. Migrating
    BY <1>1, <1>3 DEF Migrating, ListTaken, Copied
  <1> QED
    BY <1>5, <1>6, <1>7, <1>8 DEF StoreInv

(* A caller that goes to the first entry of a list. *)
LEMMA EntryIsItem ==
    ASSUME StoreTypes, NEW t \in Callers, AtEntry(t)
    PROVE  /\ todo[t] \in Seq(StoreItems) /\ Len(todo[t]) \in Nat \ {0} /\ Entry(t) = todo[t][1]
           /\ Entry(t) \in StoreItems /\ Entry(t).name \in Names
           /\ Entry(t).secret \in Secrets \cup {Gone}
  <1>1. todo[t] \in Seq(StoreItems)
    BY DEF StoreTypes
  <1>2. Len(todo[t]) \in Nat \ {0} /\ Entry(t) = todo[t][1] /\ Entry(t) \in StoreItems
    BY <1>1 DEF AtEntry, Entry
  <1> QED
    BY <1>1, <1>2 DEF StoreItems

LEMMA NextNames ==
    ASSUME NEW list \in Seq(StoreItems)
    PROVE  {list[i].name : i \in {1} \cap DOMAIN list}
              = IF list = <<>> THEN {} ELSE {Head(list).name}
  <1>1. CASE list = <<>>
    BY <1>1
  <1>2. CASE list # <<>>
    <2>1. Len(list) \in Nat \ {0} /\ DOMAIN list = 1..Len(list) /\ Head(list) = list[1]
      BY <1>2
    <2>2. {1} \cap DOMAIN list = {1}
      BY <2>1
    <2> QED
      BY <1>2, <2>1, <2>2
  <1> QED
    BY <1>1, <1>2

LEMMA EntersMeets ==
    ASSUME StoreTypes, Meetings, NEW t \in Callers, NEW list \in Seq(StoreItems),
           NEW given \in [Names -> Secrets \cup {Gone, Unsure}], Enters(t, list, given),
           \A u \in Callers \ {t} : AtEntry(u) => given[Entry(u).name] = Unsure
    PROVE  /\ Meetings'
           /\ todo' \in [Callers -> Seq(StoreItems)] /\ clash' \subseteq Callers
           /\ known' \in [Places -> [Names -> Secrets \cup {Gone, Unsure}]]
           /\ touched' \in [Callers -> SUBSET Names]
           /\ known'["vault"] = known["vault"]
           /\ \A n \in Names : known'["keystore"][n] \in {Unsure, given[n]}
           /\ \A u \in Callers \ {t} : /\ todo'[u] = todo[u] /\ touched[u] \subseteq touched'[u]
                                       /\ u \in clash => u \in clash'
           /\ todo'[t] = list
           /\ ~Free(t) => touched'[t] = touched[t]
           /\ Free(t) => touched'[t] = {n \in Names : At(n) # {}}
  <1> DEFINE next == {list[i].name : i \in {1} \cap DOMAIN list}
             met == UNION {At(n) \ {t} : n \in next}
  <1>1. /\ todo' = [todo EXCEPT ![t] = list]
        /\ clash' = (IF met = {} THEN clash \ {t} ELSE clash \cup met \cup {t})
        /\ known' = [known EXCEPT !["keystore"] =
                        [n \in Names |-> IF n \in next THEN Unsure ELSE given[n]]]
        /\ touched' = [u \in Callers |->
                          IF u # t THEN touched[u] \cup next
                          ELSE IF Free(t) THEN {n \in Names : At(n) # {}} ELSE touched[t]]
    BY DEF Enters
  <1>2. /\ todo \in [Callers -> Seq(StoreItems)] /\ clash \subseteq Callers
        /\ known \in [Places -> [Names -> Secrets \cup {Gone, Unsure}]]
        /\ touched \in [Callers -> SUBSET Names]
    BY DEF StoreTypes
  <1>3. next = IF list = <<>> THEN {} ELSE {Head(list).name}
    BY NextNames
  <1>4. list # <<>> => Head(list) \in StoreItems /\ Head(list).name \in Names
    <2>1. list # <<>> => Head(list) \in StoreItems
      OBVIOUS
    <2>2. \A item \in StoreItems : item.name \in Names
      BY DEF StoreItems
    <2> QED
      BY <2>1, <2>2
  <1> HIDE DEF next
  <1>5. next \subseteq Names
    BY <1>3, <1>4
  <1>6. \A u \in Callers : u \in met <=> u # t /\ AtEntry(u) /\ Entry(u).name \in next
    BY DEF At, AtEntry
  <1>7. met \subseteq Callers
    BY DEF At
  <1> HIDE DEF met
  <1>8. /\ todo' \in [Callers -> Seq(StoreItems)] /\ clash' \subseteq Callers
        /\ touched' \in [Callers -> SUBSET Names]
    BY <1>1, <1>2, <1>5, <1>7
  <1>9. /\ known' \in [Places -> [Names -> Secrets \cup {Gone, Unsure}]]
        /\ known'["vault"] = known["vault"]
        /\ \A n \in Names : known'["keystore"][n] = IF n \in next THEN Unsure ELSE given[n]
    <2> DEFINE k == [n \in Names |-> IF n \in next THEN Unsure ELSE given[n]]
    <2>1. k \in [Names -> Secrets \cup {Gone, Unsure}]
      OBVIOUS
    <2>2. \A n \in Names : k[n] = IF n \in next THEN Unsure ELSE given[n]
      OBVIOUS
    <2>3. known' = [known EXCEPT !["keystore"] = k]
      BY <1>1
    <2> HIDE DEF k
    <2> QED
      BY <1>2, <2>1, <2>2, <2>3 DEF Places
  <1>10. /\ \A u \in Callers \ {t} : todo'[u] = todo[u] /\ touched'[u] = touched[u] \cup next
         /\ todo'[t] = list
         /\ touched'[t] = IF Free(t) THEN {n \in Names : At(n) # {}} ELSE touched[t]
    BY <1>1, <1>2
  <1>11. /\ \A u \in Callers \ {t} : u \in clash => u \in clash'
         /\ met # {} => t \in clash' /\ met \subseteq clash'
         /\ \A u \in clash' : u \in clash \/ u \in met \/ (u = t /\ met # {})
         /\ t \in clash' => met # {}
    BY <1>1, <1>6
  <1>12. /\ AtEntry(t)' <=> list # <<>>
         /\ list # <<>> => Entry(t)' = Head(list)
         /\ \A u \in Callers \ {t} : (AtEntry(u)' <=> AtEntry(u)) /\ Entry(u)' = Entry(u)
    BY <1>10 DEF AtEntry, Entry
  <1>13. AtEntry(t)' => next = {Entry(t)'.name}
    BY <1>3, <1>12
  <1>14. \A u \in Callers \ {t} : AtEntry(u) => Entry(u).name \in Names
    BY EntryIsItem
  <1>15. \A u \in Callers \ {t} : AtEntry(u) => Entry(u).name \in touched'[t]
    <2> SUFFICES ASSUME NEW u \in Callers, u # t, AtEntry(u)
                 PROVE  Entry(u).name \in touched'[t]
      OBVIOUS
    <2>1. CASE Free(t)
      <3>1. u \in At(Entry(u).name)
        BY DEF At, AtEntry
      <3> QED
        BY <1>10, <1>14, <2>1, <3>1
    <2>2. CASE ~Free(t)
      <3>1. Entry(u).name \in touched[t]
        BY DEF Meetings, OthersTouched
      <3> QED
        BY <1>10, <2>2, <3>1
    <2> QED
      BY <2>1, <2>2
  <1>16. BusyUnsure'
    <2> SUFFICES ASSUME NEW u \in Callers, AtEntry(u)'
                 PROVE  known'["keystore"][Entry(u)'.name] = Unsure
      BY DEF BusyUnsure
    <2>1. CASE u = t
      BY <1>5, <1>9, <1>13, <2>1
    <2>2. CASE u # t
      BY <1>9, <1>12, <1>14, <2>2
    <2> QED
      BY <2>1, <2>2
  <1>17. HaveMet'
    <2> SUFFICES ASSUME NEW v \in Callers, NEW u \in Callers, v # u, AtEntry(v)', AtEntry(u)',
                        Entry(v)'.name = Entry(u)'.name
                 PROVE  v \in clash'
      BY DEF HaveMet
    <2>1. CASE v = t
      <3>1. u \in met
        BY <1>6, <1>12, <1>13, <2>1
      <3> QED
        BY <1>11, <2>1, <3>1
    <2>2. CASE u = t
      <3>1. v \in met
        BY <1>6, <1>12, <1>13, <2>2
      <3> QED
        BY <1>11, <3>1
    <2>3. CASE v # t /\ u # t
      <3>1. v \in clash
        BY <1>12, <2>3 DEF Meetings, HaveMet
      <3> QED
        BY <1>11, <2>3, <3>1
    <2> QED
      BY <2>1, <2>2, <2>3
  <1>18. OthersTouched'
    <2> SUFFICES ASSUME NEW v \in Callers, NEW u \in Callers, v # u, AtEntry(u)'
                 PROVE  Entry(u)'.name \in touched'[v]
      BY DEF OthersTouched
    <2>1. CASE u = t
      BY <1>10, <1>13, <2>1
    <2>2. CASE u # t /\ v = t
      BY <1>12, <1>15, <2>2
    <2>3. CASE u # t /\ v # t
      <3>1. Entry(u).name \in touched[v]
        BY <1>12, <2>3 DEF Meetings, OthersTouched
      <3> QED
        BY <1>10, <1>12, <2>3, <3>1
    <2> QED
      BY <2>1, <2>2, <2>3
  <1>19. ClashTouched'
    <2> SUFFICES ASSUME NEW v \in Callers, AtEntry(v)', v \in clash'
                 PROVE  Entry(v)'.name \in touched'[v]
      BY DEF ClashTouched
    <2>1. CASE v = t
      <3>1. PICK u \in met : TRUE
        BY <1>11, <2>1
      <3>2. u \in Callers /\ u # t /\ AtEntry(u) /\ Entry(u).name \in next
        BY <1>6, <1>7, <3>1
      <3> QED
        BY <1>13, <1>15, <2>1, <3>2
    <2>2. CASE v # t
      <3>1. CASE v \in clash
        <4>1. Entry(v).name \in touched[v]
          BY <1>12, <2>2, <3>1 DEF Meetings, ClashTouched
        <4> QED
          BY <1>10, <1>12, <2>2, <4>1
      <3>2. CASE v \in met
        BY <1>6, <1>10, <1>12, <2>2, <3>2
      <3> QED
        BY <1>11, <2>2, <3>1, <3>2
    <2> QED
      BY <2>1, <2>2
  <1>20. \A n \in Names : known'["keystore"][n] \in {Unsure, given[n]}
    BY <1>9
  <1> QED
    BY <1>8, <1>9, <1>10, <1>11, <1>16, <1>17, <1>18, <1>19, <1>20 DEF Meetings

(* What a step inside a keystore is: it writes the entry its caller is at and no
   other, and the call returns, fails or goes on. *)
WritesEntry(t) ==
    /\ ring' \in [Names -> RingValues]
    /\ \A n \in Names : n # Entry(t).name => ring'[n] = ring[n]
IsThere(t) == ring'[Entry(t).name] = Entry(t).secret
EntryFailed(t) ==
    /\ todo' = [todo EXCEPT ![t] = <<>>] /\ doing' = [doing EXCEPT ![t] = "failed"]
    /\ UNCHANGED <<clash, known, touched>>
EntryReturned(t) == NextEntry(t) /\ (t \notin clash => IsThere(t))
EntryGoesOn(t) ==
    \E step \in {"second", "third"} : Goes(t, step) /\ (step = "third" /\ t \notin clash => IsThere(t))

LEMMA HoldsWrites ==
    ASSUME StoreTypes, NEW t \in Callers, AtEntry(t), NEW s \in RingValues, Holds(Entry(t).name, s)
    PROVE  WritesEntry(t) /\ ring'[Entry(t).name] = s
  <1>1. Entry(t).name \in Names
    BY EntryIsItem
  <1> QED
    BY <1>1 DEF Holds, WritesEntry, StoreTypes

LEMMA KeepsWrites ==
    ASSUME StoreTypes, NEW t, UNCHANGED ring
    PROVE  WritesEntry(t) /\ ring' = ring
  BY DEF WritesEntry, StoreTypes

LEMMA StepKinds ==
    ASSUME StoreTypes, Written, NEW t \in Callers, KeystoreStep(t)
    PROVE  /\ AtEntry(t) /\ StoreSame /\ WritesEntry(t)
           /\ EntryReturned(t) \/ EntryFailed(t) \/ EntryGoesOn(t)
  <1>1. AtEntry(t)
    BY DEF KeystoreStep, SecretTool, DpapiTruncate, DpapiWrite, DpapiRestrict, DpapiDelete,
           KeychainReplace, KeychainAdd, KeychainDelete, At1, AtEntry
  <1>2. Entry(t).secret \in RingValues /\ Gone \in RingValues /\ "torn" \in RingValues
    BY <1>1, EntryIsItem DEF RingValues
  <1>3. ASSUME FailsEntry(t) PROVE StoreSame /\ EntryFailed(t)
    BY <1>3 DEF FailsEntry, EntryFailed
  <1>4. ASSUME Returns(t) PROVE StoreSame /\ NextEntry(t)
    BY <1>4 DEF Returns
  <1>5. ASSUME SecretTool(t)
        PROVE  /\ StoreSame /\ WritesEntry(t)
               /\ EntryReturned(t) \/ EntryFailed(t)
    <2>1. CASE Holds(Entry(t).name, Entry(t).secret) /\ (Returns(t) \/ FailsEntry(t))
      BY <1>1, <1>2, <1>3, <1>4, <2>1, HoldsWrites DEF EntryReturned, IsThere
    <2>2. CASE FailsEntry(t) /\ UNCHANGED ring
      BY <1>3, <2>2, KeepsWrites
    <2> QED
      BY <1>5, <2>1, <2>2 DEF SecretTool
  <1>6. ASSUME DpapiTruncate(t)
        PROVE  /\ StoreSame /\ WritesEntry(t)
               /\ EntryFailed(t) \/ EntryGoesOn(t)
    <2>1. CASE Holds(Entry(t).name, "torn") /\ Goes(t, "second") /\ StoreSame
      <3>1. EntryGoesOn(t)
        BY <2>1 DEF EntryGoesOn
      <3> QED
        BY <1>1, <1>2, <2>1, <3>1, HoldsWrites
    <2>2. CASE FailsEntry(t) /\ UNCHANGED ring
      BY <1>3, <2>2, KeepsWrites
    <2> QED
      BY <1>6, <2>1, <2>2 DEF DpapiTruncate
  <1>7. ASSUME DpapiWrite(t)
        PROVE  /\ StoreSame /\ WritesEntry(t)
               /\ EntryFailed(t) \/ EntryGoesOn(t)
    <2>1. CASE /\ \E left \in {Entry(t).secret} \cup (IF t \in clash THEN {"torn"} ELSE {}) :
                      Holds(Entry(t).name, left)
               /\ Goes(t, "third") /\ StoreSame
      <3>1. PICK left \in {Entry(t).secret} \cup (IF t \in clash THEN {"torn"} ELSE {}) :
                    Holds(Entry(t).name, left)
        BY <2>1
      <3>2. left \in RingValues /\ (t \notin clash => left = Entry(t).secret)
        BY <1>2
      <3>3. WritesEntry(t) /\ (t \notin clash => IsThere(t))
        BY <1>1, <3>1, <3>2, HoldsWrites DEF IsThere
      <3>4. EntryGoesOn(t)
        BY <2>1, <3>3 DEF EntryGoesOn
      <3> QED
        BY <2>1, <3>3, <3>4
    <2>2. CASE FailsEntry(t) /\ UNCHANGED ring
      BY <1>3, <2>2, KeepsWrites
    <2> QED
      BY <1>7, <2>1, <2>2 DEF DpapiWrite
  <1>8. ASSUME DpapiRestrict(t)
        PROVE  /\ StoreSame /\ WritesEntry(t)
               /\ EntryReturned(t) \/ EntryFailed(t)
    <2>1. WritesEntry(t) /\ ring' = ring
      BY <1>8, KeepsWrites DEF DpapiRestrict
    <2>2. doing[t] = "third"
      BY <1>8 DEF DpapiRestrict, At1
    <2>3. t \notin clash => IsThere(t)
      BY <1>1, <2>1, <2>2 DEF Written, IsThere
    <2> QED
      BY <1>3, <1>4, <1>8, <2>1, <2>3 DEF DpapiRestrict, EntryReturned
  <1>9. ASSUME DpapiDelete(t) \/ KeychainDelete(t)
        PROVE  /\ StoreSame /\ WritesEntry(t)
               /\ EntryReturned(t) \/ EntryFailed(t)
    <2>1. Entry(t).secret = Gone
      BY <1>9 DEF DpapiDelete, KeychainDelete
    <2>2. CASE Holds(Entry(t).name, Gone) /\ Returns(t)
      BY <1>1, <1>2, <1>4, <2>1, <2>2, HoldsWrites DEF EntryReturned, IsThere
    <2>3. CASE FailsEntry(t) /\ UNCHANGED ring
      BY <1>3, <2>3, KeepsWrites
    <2> QED
      BY <1>9, <2>2, <2>3 DEF DpapiDelete, KeychainDelete
  <1>10. ASSUME KeychainReplace(t)
         PROVE  StoreSame /\ WritesEntry(t) /\ EntryGoesOn(t)
    <2>1. Goes(t, "second") /\ StoreSame
      BY <1>10 DEF KeychainReplace
    <2>2. EntryGoesOn(t)
      BY <2>1 DEF EntryGoesOn
    <2>3. Holds(Entry(t).name, Gone) \/ UNCHANGED ring
      BY <1>10 DEF KeychainReplace
    <2>4. WritesEntry(t)
      BY <1>1, <1>2, <2>3, HoldsWrites, KeepsWrites
    <2> QED
      BY <2>1, <2>2, <2>4
  <1>11. ASSUME KeychainAdd(t)
         PROVE  /\ StoreSame /\ WritesEntry(t)
                /\ EntryReturned(t) \/ EntryFailed(t)
    <2>1. CASE Holds(Entry(t).name, Entry(t).secret) /\ Returns(t)
      BY <1>1, <1>2, <1>4, <2>1, HoldsWrites DEF EntryReturned, IsThere
    <2>2. CASE FailsEntry(t) /\ UNCHANGED ring
      BY <1>3, <2>2, KeepsWrites
    <2> QED
      BY <1>11, <2>1, <2>2 DEF KeychainAdd
  <1> QED
    BY <1>1, <1>5, <1>6, <1>7, <1>8, <1>9, <1>10, <1>11 DEF KeystoreStep

(* The other callers' part of the invariant, when one caller writes an entry. *)
LEMMA OthersKeep ==
    ASSUME StoreInv, NEW t \in Callers, AtEntry(t), WritesEntry(t), StoreSame,
           \A u \in Callers \ {t} : /\ todo'[u] = todo[u] /\ doing'[u] = doing[u]
                                    /\ u \in clash => u \in clash'
                                    /\ touched[u] \subseteq touched'[u]
    PROVE  \A u \in Callers \ {t} :
              /\ AtEntry(u)' /\ doing'[u] = "third" /\ u \notin clash'
                    => ring'[Entry(u)'.name] = Entry(u)'.secret
              /\ ListTaken(u)' /\ (Unfailed(u)' => Copied(u)')
  <1> SUFFICES ASSUME NEW u \in Callers, u # t
               PROVE  /\ AtEntry(u)' /\ doing'[u] = "third" /\ u \notin clash'
                            => ring'[Entry(u)'.name] = Entry(u)'.secret
                      /\ ListTaken(u)' /\ (Unfailed(u)' => Copied(u)')
    OBVIOUS
  <1>1. /\ todo'[u] = todo[u] /\ doing'[u] = doing[u] /\ (u \in clash => u \in clash')
        /\ touched[u] \subseteq touched'[u] /\ moving' = moving
    BY DEF StoreSame
  <1>2. StoreTypes /\ Meetings /\ Written /\ Migrating
    BY DEF StoreInv
  <1>3. \A n \in Names : n # Entry(t).name => ring'[n] = ring[n]
    BY DEF WritesEntry
  <1>4. ASSUME AtEntry(u)', doing'[u] = "third", u \notin clash'
        PROVE  ring'[Entry(u)'.name] = Entry(u)'.secret
    <2>1. AtEntry(u) /\ Entry(u)' = Entry(u) /\ doing[u] = "third" /\ u \notin clash
      BY <1>1, <1>4 DEF AtEntry, Entry
    <2>2. Entry(u).name # Entry(t).name /\ Entry(u).name \in Names
      BY <1>2, <2>1, EntryIsItem DEF Meetings, HaveMet
    <2>3. ring[Entry(u).name] = Entry(u).secret
      BY <1>2, <2>1 DEF Written
    <2> QED
      BY <1>3, <2>1, <2>2, <2>3
  <1>5. ListTaken(u)'
    BY <1>1, <1>2 DEF Migrating, ListTaken
  <1>6. ASSUME Unfailed(u)' PROVE Copied(u)'
    <2>1. Copied(u)
      BY <1>1, <1>2, <1>6 DEF Migrating, Unfailed, AtEntry
    <2>2. Entry(t).name \in touched[u]
      BY <1>2 DEF Meetings, OthersTouched
    <2>3. \A n \in Names : n \notin touched'[u] => n \notin touched[u] /\ ring'[n] = ring[n]
      BY <1>1, <1>3, <2>2
    <2>4. \A n : Waits(u, n)' <=> Waits(u, n)
      BY <1>1 DEF Waits
    <2> QED
      BY <1>1, <2>1, <2>3, <2>4 DEF Copied
  <1> QED
    BY <1>4, <1>5, <1>6

(* What is known elsewhere stays true. *)
LEMMA KnownKeeps ==
    ASSUME StoreInv, NEW t \in Callers, AtEntry(t), WritesEntry(t), StoreSame,
           known'["vault"] = known["vault"],
           \A n \in Names : \/ known'["keystore"][n] = Unsure
                            \/ known'["keystore"][n] = known["keystore"][n]
                            \/ known'["keystore"][n] = ring'[n]
    PROVE  RingKnown' /\ VaultKnown' /\ NoKeystore'
  <1>1. StoreTypes /\ RingKnown /\ VaultKnown /\ NoKeystore /\ BusyUnsure
    BY DEF StoreInv, Meetings
  <1>2. RingKnown'
    <2> SUFFICES ASSUME NEW n \in Names, known'["keystore"][n] # Unsure
                 PROVE  ring'[n] = known'["keystore"][n]
      BY DEF RingKnown
    <2>1. CASE known'["keystore"][n] = known["keystore"][n]
      <3>1. n # Entry(t).name /\ ring[n] = known["keystore"][n]
        BY <1>1, <2>1 DEF BusyUnsure, RingKnown
      <3> QED
        BY <2>1, <3>1 DEF WritesEntry
    <2> QED
      BY <2>1
  <1>3. VaultKnown'
    BY <1>1 DEF VaultKnown, StoreSame
  <1>4. Available
    BY <1>1 DEF NoKeystore
  <1>5. Available'
    BY <1>4 DEF Available, Keystore, StoreSame
  <1> QED
    BY <1>2, <1>3, <1>5 DEF NoKeystore

LEMMA GoesOnKeeps ==
    ASSUME StoreInv, NEW t \in Callers, AtEntry(t), WritesEntry(t), StoreSame, EntryGoesOn(t)
    PROVE  StoreInv'
  <1>1. PICK step \in {"second", "third"} : Goes(t, step) /\ (step = "third" /\ t \notin clash => IsThere(t))
    BY DEF EntryGoesOn
  <1>2. /\ doing' = [doing EXCEPT ![t] = step] /\ UNCHANGED <<todo, clash, known, touched>>
        /\ UNCHANGED <<machine, memory, stored, open, moving, storeCalls>>
    BY <1>1 DEF Goes, StoreSame
  <1>3. StoreTypes /\ Meetings /\ Migrating
    BY DEF StoreInv
  <1>4. StoreTypes'
    BY <1>2, <1>3 DEF StoreTypes, WritesEntry
  <1>5. \A u : Entry(u)' = Entry(u) /\ (AtEntry(u)' <=> AtEntry(u))
    BY <1>2 DEF Entry, AtEntry
  <1>6. Meetings'
    BY <1>2, <1>3, <1>5 DEF Meetings, BusyUnsure, HaveMet, OthersTouched, ClashTouched
  <1>7. RingKnown' /\ VaultKnown' /\ NoKeystore'
    BY <1>2, KnownKeeps
  <1>8. doing'[t] = step /\ \A u \in Callers \ {t} : doing'[u] = doing[u]
    BY <1>2, <1>3 DEF StoreTypes
  <1>9. \A u \in Callers \ {t} :
              /\ AtEntry(u)' /\ doing'[u] = "third" /\ u \notin clash'
                    => ring'[Entry(u)'.name] = Entry(u)'.secret
              /\ ListTaken(u)' /\ (Unfailed(u)' => Copied(u)')
    BY <1>2, <1>8, OthersKeep
  <1>10. Written'
    <2>1. doing'[t] = "third" /\ t \notin clash' => ring'[Entry(t)'.name] = Entry(t)'.secret
      BY <1>1, <1>2, <1>5, <1>8 DEF IsThere
    <2> QED
      BY <1>9, <2>1 DEF Written
  <1>11. ListTaken(t)'
    BY <1>2, <1>3 DEF Migrating, ListTaken
  <1>12. Copied(t)'
    <2>1. Copied(t)
      BY <1>3 DEF Migrating, Unfailed
    <2>2. 1 \in DOMAIN todo[t] /\ Entry(t) = todo[t][1]
      BY <1>3, EntryIsItem
    <2>3. Waits(t, Entry(t).name)
      BY <2>2 DEF Waits
    <2>4. \A n : Waits(t, n)' <=> Waits(t, n)
      BY <1>2 DEF Waits
    <2> QED
      BY <1>2, <2>1, <2>3, <2>4 DEF Copied, WritesEntry
  <1>13. Underway'
    BY <1>1, <1>3, <1>5, <1>8 DEF Underway, StoreInv
  <1> QED
    BY <1>4, <1>6, <1>7, <1>9, <1>10, <1>11, <1>12, <1>13 DEF StoreInv, Migrating

LEMMA FailedKeeps ==
    ASSUME StoreInv, NEW t \in Callers, AtEntry(t), WritesEntry(t), StoreSame, EntryFailed(t)
    PROVE  StoreInv'
  <1>1. /\ todo' = [todo EXCEPT ![t] = <<>>] /\ doing' = [doing EXCEPT ![t] = "failed"]
        /\ UNCHANGED <<clash, known, touched>>
        /\ UNCHANGED <<machine, memory, stored, open, moving, storeCalls>>
    BY DEF EntryFailed, StoreSame
  <1>2. StoreTypes /\ Meetings /\ Migrating
    BY DEF StoreInv
  <1>3. StoreTypes'
    BY <1>1, <1>2 DEF StoreTypes, WritesEntry
  <1>4. /\ todo'[t] = <<>> /\ doing'[t] = "failed"
        /\ \A u \in Callers \ {t} : todo'[u] = todo[u] /\ doing'[u] = doing[u]
    BY <1>1, <1>2 DEF StoreTypes
  <1>5. /\ ~AtEntry(t)'
        /\ \A u \in Callers \ {t} : Entry(u)' = Entry(u) /\ (AtEntry(u)' <=> AtEntry(u))
    BY <1>4 DEF Entry, AtEntry
  <1>6. Meetings'
    BY <1>1, <1>2, <1>5 DEF Meetings, BusyUnsure, HaveMet, OthersTouched, ClashTouched
  <1>7. RingKnown' /\ VaultKnown' /\ NoKeystore'
    BY <1>1, KnownKeeps
  <1>8. \A u \in Callers \ {t} :
              /\ AtEntry(u)' /\ doing'[u] = "third" /\ u \notin clash'
                    => ring'[Entry(u)'.name] = Entry(u)'.secret
              /\ ListTaken(u)' /\ (Unfailed(u)' => Copied(u)')
    BY <1>1, <1>4, OthersKeep
  <1>9. Written'
    BY <1>5, <1>8 DEF Written
  <1>10. ListTaken(t)' /\ ~Unfailed(t)'
    BY <1>4, <1>5 DEF ListTaken, Unfailed
  <1>11. Underway'
    BY <1>4, <1>5 DEF Underway, StoreInv
  <1> QED
    BY <1>3, <1>6, <1>7, <1>8, <1>9, <1>10, <1>11 DEF StoreInv, Migrating

LEMMA ReturnedKeeps ==
    ASSUME StoreInv, NEW t \in Callers, AtEntry(t), WritesEntry(t), StoreSame, EntryReturned(t)
    PROVE  StoreInv'
  <1> DEFINE n == Entry(t).name
             answer == IF t \in clash THEN Unsure ELSE Entry(t).secret
             given == [known["keystore"] EXCEPT ![n] = answer]
             rest == Tail(todo[t])
  <1>1. StoreTypes /\ Meetings /\ Migrating
    BY DEF StoreInv
  <1>2. /\ todo[t] \in Seq(StoreItems) /\ Len(todo[t]) \in Nat \ {0} /\ Entry(t) = todo[t][1]
        /\ n \in Names /\ Entry(t).secret \in Secrets \cup {Gone}
    BY <1>1, EntryIsItem
  <1>3. /\ Enters(t, rest, given)
        /\ doing' = [doing EXCEPT ![t] =
                        IF Len(todo[t]) > 1 THEN "first"
                        ELSE IF moving[t] = NoEntries THEN "nothing" ELSE "migrated"]
        /\ t \notin clash => IsThere(t)
    BY DEF EntryReturned, NextEntry
  <1>4. UNCHANGED <<machine, memory, stored, open, moving, storeCalls>>
    BY DEF StoreSame
  <1>5. /\ rest \in Seq(StoreItems) /\ Len(rest) = Len(todo[t]) - 1
        /\ \A i \in 1..Len(rest) : rest[i] = todo[t][i + 1]
    BY <1>2
  <1>6. known["keystore"] \in [Names -> Secrets \cup {Gone, Unsure}]
    BY <1>1 DEF StoreTypes, Places
  <1>7. /\ given \in [Names -> Secrets \cup {Gone, Unsure}] /\ given[n] = answer
        /\ \A m \in Names : m # n => given[m] = known["keystore"][m]
    BY <1>2, <1>6
  <1>8. answer # Unsure => ring'[n] = answer
    BY <1>3 DEF IsThere
  <1>9. \A u \in Callers \ {t} : AtEntry(u) => given[Entry(u).name] = Unsure
    <2> SUFFICES ASSUME NEW u \in Callers, u # t, AtEntry(u)
                 PROVE  given[Entry(u).name] = Unsure
      OBVIOUS
    <2>1. Entry(u).name \in Names /\ known["keystore"][Entry(u).name] = Unsure
      BY <1>1, EntryIsItem DEF Meetings, BusyUnsure
    <2>2. Entry(u).name = n => t \in clash
      BY <1>1 DEF Meetings, HaveMet
    <2> QED
      BY <1>7, <2>1, <2>2
  <1> HIDE DEF given, rest
  <1>10. /\ Meetings'
         /\ todo' \in [Callers -> Seq(StoreItems)] /\ clash' \subseteq Callers
         /\ known' \in [Places -> [Names -> Secrets \cup {Gone, Unsure}]]
         /\ touched' \in [Callers -> SUBSET Names]
         /\ known'["vault"] = known["vault"]
         /\ \A m \in Names : known'["keystore"][m] \in {Unsure, given[m]}
         /\ \A u \in Callers \ {t} : /\ todo'[u] = todo[u] /\ touched[u] \subseteq touched'[u]
                                     /\ u \in clash => u \in clash'
         /\ todo'[t] = rest /\ touched'[t] = touched[t]
    <2>1. ~Free(t)
      BY DEF Free, AtEntry
    <2> QED
      BY <1>1, <1>3, <1>5, <1>7, <1>9, <2>1, EntersMeets
  <1>11. StoreTypes'
    BY <1>1, <1>3, <1>4, <1>10 DEF StoreTypes, WritesEntry
  <1>12. \A m \in Names : \/ known'["keystore"][m] = Unsure
                          \/ known'["keystore"][m] = known["keystore"][m]
                          \/ known'["keystore"][m] = ring'[m]
    <2> SUFFICES ASSUME NEW m \in Names, known'["keystore"][m] # Unsure
                 PROVE  \/ known'["keystore"][m] = known["keystore"][m]
                        \/ known'["keystore"][m] = ring'[m]
      OBVIOUS
    <2>1. known'["keystore"][m] = given[m]
      BY <1>10
    <2>2. CASE m = n
      BY <1>7, <1>8, <2>1, <2>2
    <2>3. CASE m # n
      BY <1>7, <2>1, <2>3
    <2> QED
      BY <2>2, <2>3
  <1>13. RingKnown' /\ VaultKnown' /\ NoKeystore'
    BY <1>10, <1>12, KnownKeeps
  <1>14. /\ doing'[t] # "third" /\ doing'[t] # "failed"
         /\ \A u \in Callers \ {t} : doing'[u] = doing[u]
    BY <1>1, <1>3 DEF StoreTypes
  <1>15. \A u \in Callers \ {t} :
              /\ AtEntry(u)' /\ doing'[u] = "third" /\ u \notin clash'
                    => ring'[Entry(u)'.name] = Entry(u)'.secret
              /\ ListTaken(u)' /\ (Unfailed(u)' => Copied(u)')
    BY <1>10, <1>14, OthersKeep
  <1>16. Written'
    BY <1>14, <1>15 DEF Written
  <1>17. ListTaken(t) /\ Copied(t)
    BY <1>1 DEF Migrating, Unfailed
  <1>18. ListTaken(t)'
    <2> SUFFICES ASSUME moving[t] # NoEntries, NEW i \in DOMAIN rest
                 PROVE  rest[i].secret = moving[t][rest[i].name]
      BY <1>4, <1>10 DEF ListTaken, NoEntries
    <2>1. rest[i] = todo[t][i + 1] /\ i + 1 \in DOMAIN todo[t]
      BY <1>2, <1>5
    <2> QED
      BY <1>17, <2>1 DEF ListTaken
  <1>19. Copied(t)'
    <2> SUFFICES ASSUME NEW m \in Names, moving[t][m] # Gone, m \notin touched[t],
                        \A i \in DOMAIN rest : rest[i].name # m
                 PROVE  ring'[m] = moving[t][m]
      BY <1>4, <1>10 DEF Copied, Waits
    <2>1. CASE m = n
      <3>1. t \notin clash
        BY <1>1, <2>1 DEF Meetings, ClashTouched
      <3>2. ring'[m] = Entry(t).secret
        BY <1>3, <2>1, <3>1 DEF IsThere
      <3>3. moving[t] # NoEntries
        BY DEF NoEntries
      <3>4. Entry(t).secret = moving[t][m]
        BY <1>2, <1>17, <2>1, <3>3 DEF ListTaken
      <3> QED
        BY <3>2, <3>4
    <2>2. CASE m # n
      <3>1. ~Waits(t, m)
        <4> SUFFICES ASSUME NEW i \in 1..Len(todo[t]) PROVE todo[t][i].name # m
          BY <1>2 DEF Waits
        <4>1. CASE i = 1
          BY <1>2, <2>2, <4>1
        <4>2. CASE i # 1
          <5>1. i - 1 \in 1..Len(rest) /\ (i - 1) + 1 = i
            BY <1>2, <1>5, <4>2
          <5>2. i - 1 \in DOMAIN rest /\ rest[i - 1] = todo[t][i]
            BY <1>5, <5>1
          <5> QED
            BY <5>2
        <4> QED
          BY <4>1, <4>2
      <3>2. ring[m] = moving[t][m]
        BY <1>17, <3>1 DEF Copied
      <3> QED
        BY <2>2, <3>2 DEF WritesEntry
    <2> QED
      BY <2>1, <2>2
  <1>20. Underway'
    <2>1. rest # <<>> => Len(todo[t]) > 1
      BY <1>2, <1>5
    <2>2. AtEntry(t)' => doing'[t] = "first"
      BY <1>1, <1>3, <1>10, <2>1 DEF AtEntry, StoreTypes
    <2>3. \A u \in Callers \ {t} : AtEntry(u)' => doing'[u] # "migrated"
      BY <1>10, <1>14 DEF AtEntry, Underway, StoreInv
    <2> QED
      BY <2>2, <2>3 DEF Underway
  <1> QED
    BY <1>10, <1>11, <1>13, <1>15, <1>16, <1>18, <1>19, <1>20 DEF StoreInv, Migrating

(* A call begins with a list, having taken entries that are all in it. *)
LEMMA BeginsKeeps ==
    ASSUME StoreInv, NEW t \in Callers, Free(t), Available,
           NEW list \in Seq(StoreItems), NEW taken \in [Names -> Secrets \cup {Gone}],
           NEW step, step # "third", list # <<>> => step # "migrated",
           Enters(t, list, known["keystore"]),
           doing' = [doing EXCEPT ![t] = step], moving' = [moving EXCEPT ![t] = taken],
           UNCHANGED <<machine, ring, memory, stored, open>>,
           taken # NoEntries => \A i \in DOMAIN list : list[i].secret = taken[list[i].name],
           \A n \in Names : taken[n] # Gone => \E i \in DOMAIN list : list[i].name = n
    PROVE  StoreInv'
  <1>1. StoreTypes /\ Meetings /\ Written /\ Migrating /\ Underway
    BY DEF StoreInv
  <1>2. known["keystore"] \in [Names -> Secrets \cup {Gone, Unsure}]
    BY <1>1 DEF StoreTypes, Places
  <1>3. \A u \in Callers \ {t} : AtEntry(u) => known["keystore"][Entry(u).name] = Unsure
    BY <1>1 DEF Meetings, BusyUnsure
  <1>4. /\ Meetings'
        /\ todo' \in [Callers -> Seq(StoreItems)] /\ clash' \subseteq Callers
        /\ known' \in [Places -> [Names -> Secrets \cup {Gone, Unsure}]]
        /\ touched' \in [Callers -> SUBSET Names]
        /\ known'["vault"] = known["vault"]
        /\ \A n \in Names : known'["keystore"][n] \in {Unsure, known["keystore"][n]}
        /\ \A u \in Callers \ {t} : /\ todo'[u] = todo[u] /\ touched[u] \subseteq touched'[u]
                                    /\ u \in clash => u \in clash'
        /\ todo'[t] = list
    BY <1>1, <1>2, <1>3, EntersMeets
  <1>5. /\ doing'[t] = step /\ moving'[t] = taken
        /\ \A u \in Callers \ {t} : doing'[u] = doing[u] /\ moving'[u] = moving[u]
    BY <1>1 DEF StoreTypes
  <1>6. StoreTypes'
    BY <1>1, <1>4 DEF StoreTypes
  <1>7. RingKnown' /\ VaultKnown'
    BY <1>4 DEF RingKnown, VaultKnown, StoreInv
  <1>8. NoKeystore'
    BY DEF NoKeystore, Available, Keystore
  <1>9. /\ AtEntry(t)' => list # <<>>
        /\ \A u \in Callers \ {t} : (AtEntry(u)' <=> AtEntry(u)) /\ Entry(u)' = Entry(u)
    BY <1>4 DEF AtEntry, Entry
  <1>10. Written'
    BY <1>1, <1>4, <1>5, <1>9 DEF Written
  <1>11. Underway'
    BY <1>1, <1>5, <1>9 DEF Underway
  <1>12. ListTaken(t)' /\ Copied(t)'
    BY <1>4, <1>5 DEF ListTaken, Copied, Waits, NoEntries
  <1>13. ASSUME NEW u \in Callers \ {t}
         PROVE  ListTaken(u)' /\ (Unfailed(u)' => Copied(u)')
    <2>1. /\ todo'[u] = todo[u] /\ touched[u] \subseteq touched'[u]
          /\ moving'[u] = moving[u] /\ doing'[u] = doing[u] /\ ring' = ring
      BY <1>4, <1>5
    <2>2. NoEntries' = NoEntries
      BY DEF NoEntries
    <2>3. ListTaken(u)'
      BY <1>1, <2>1, <2>2 DEF Migrating, ListTaken
    <2>4. Unfailed(u)' => Copied(u)
      BY <1>1, <1>9, <2>1 DEF Migrating, Unfailed
    <2>5. \A n : Waits(u, n)' <=> Waits(u, n)
      BY <2>1 DEF Waits
    <2>6. Copied(u) => Copied(u)'
      BY <2>1, <2>5 DEF Copied
    <2> QED
      BY <2>3, <2>4, <2>6
  <1>14. Migrating'
    BY <1>12, <1>13 DEF Migrating
  <1> QED
    BY <1>4, <1>6, <1>7, <1>8, <1>10, <1>11, <1>14 DEF StoreInv

LEMMA KeystoreCallKeeps ==
    ASSUME StoreInv, NEW t \in Callers, NEW n \in Names, NEW s \in Secrets \cup {Gone},
           KeystoreCall(t, n, s)
    PROVE  StoreInv'
  <1> DEFINE list == <<Item(n, s)>>
  <1>1. list \in Seq(StoreItems)
    BY DEF Item, StoreItems
  <1>2. NoEntries \in [Names -> Secrets \cup {Gone}] /\ \A m \in Names : NoEntries[m] = Gone
    BY DEF NoEntries
  <1>3. /\ Free(t) /\ Available /\ Enters(t, list, known["keystore"])
        /\ doing' = [doing EXCEPT ![t] = "first"] /\ moving' = [moving EXCEPT ![t] = NoEntries]
        /\ UNCHANGED <<machine, ring, memory, stored, open>>
    BY DEF KeystoreCall
  <1> HIDE DEF list
  <1> QED
    BY <1>1, <1>2, <1>3, BeginsKeeps

(* The entries of the vault, listed in order, are items of a list. *)
LEMMA MigrateKeeps ==
    ASSUME StoreInv, NEW t \in Callers, Migrate(t)
    PROVE  StoreInv'
  <1>1. PICK order \in Lists :
            /\ InOrder(order, {n \in Names : memory[n] # Gone})
            /\ Enters(t, [i \in DOMAIN order |-> Item(order[i], memory[order[i]])],
                      known["keystore"])
            /\ doing' = [doing EXCEPT ![t] = IF order = <<>> THEN "migrated" ELSE "first"]
    BY DEF Migrate
  <1> DEFINE list == [i \in DOMAIN order |-> Item(order[i], memory[order[i]])]
             step == IF order = <<>> THEN "migrated" ELSE "first"
  <1>2. memory \in [Names -> Secrets \cup {Gone}]
    BY DEF StoreInv, StoreTypes
  <1>3. PICK k \in Nat : order \in [1..k -> Names]
    <2>1. Len(NameOrder) \in Nat
      BY SecretStoreAssumption
    <2> QED
      BY <2>1 DEF Lists
  <1>4. DOMAIN order = 1..k /\ \A i \in 1..k : order[i] \in Names
    BY <1>3
  <1>5. \A i \in 1..k : Item(order[i], memory[order[i]]) \in StoreItems
    BY <1>2, <1>4 DEF Item, StoreItems
  <1>6. /\ list \in [1..k -> StoreItems] /\ DOMAIN list = 1..k
        /\ \A i \in 1..k : list[i].name = order[i] /\ list[i].secret = memory[order[i]]
    BY <1>4, <1>5 DEF Item
  <1>7. {order[i] : i \in DOMAIN order} = {n \in Names : memory[n] # Gone}
    BY <1>1 DEF InOrder
  <1>8. \A n \in Names : memory[n] # Gone => \E i \in DOMAIN list : list[i].name = n
    BY <1>4, <1>6, <1>7
  <1>9. /\ Free(t) /\ Available /\ moving' = [moving EXCEPT ![t] = memory]
        /\ UNCHANGED <<machine, ring, memory, stored, open>>
    BY DEF Migrate
  <1>10. Enters(t, list, known["keystore"]) /\ doing' = [doing EXCEPT ![t] = step]
    BY <1>1
  <1>11. step # "third" /\ (list # <<>> => step # "migrated")
    <2>1. CASE order = <<>>
      BY <2>1
    <2>2. CASE order # <<>>
      BY <2>2
    <2> QED
      BY <2>1, <2>2
  <1> HIDE DEF list, step
  <1>12. list \in Seq(StoreItems)
    BY <1>6
  <1>13. \A i \in DOMAIN list : list[i].secret = memory[list[i].name]
    BY <1>6
  <1> QED
    BY <1>2, <1>8, <1>9, <1>10, <1>11, <1>12, <1>13, BeginsKeeps

(* Calls on the vault. *)
LEMMA VaultSetKeeps ==
    ASSUME StoreInv, NEW n \in Names, NEW s \in Secrets \cup {Gone}, VaultSet(n, s)
    PROVE  StoreInv'
  <1> DEFINE learned == [known["vault"] EXCEPT ![n] = s]
             doubted == [known["vault"] EXCEPT ![n] = Unsure]
  <1>1. StoreTypes /\ VaultKnown
    BY DEF StoreInv
  <1>2. /\ memory' = [memory EXCEPT ![n] = s]
        /\ UNCHANGED <<machine, ring, open, todo, doing, clash, moving, touched>>
    BY DEF VaultSet
  <1>3. \/ stored' = memory' /\ known' = [known EXCEPT !["vault"] = learned]
        \/ stored' = stored /\ known' = [known EXCEPT !["vault"] = doubted]
    BY DEF VaultSet, Learn
  <1>4. /\ memory \in [Names -> Secrets \cup {Gone}] /\ stored \in [Names -> Secrets \cup {Gone}]
        /\ known["vault"] \in [Names -> Secrets \cup {Gone, Unsure}]
    BY <1>1 DEF StoreTypes, Places
  <1>5. /\ memory' \in [Names -> Secrets \cup {Gone}] /\ memory'[n] = s
        /\ \A m \in Names : m # n => memory'[m] = memory[m]
    BY <1>2, <1>4
  <1>6. /\ learned \in [Names -> Secrets \cup {Gone, Unsure}] /\ learned[n] = s
        /\ doubted \in [Names -> Secrets \cup {Gone, Unsure}] /\ doubted[n] = Unsure
        /\ \A m \in Names : m # n => learned[m] = known["vault"][m] /\ doubted[m] = known["vault"][m]
    BY <1>4
  <1> HIDE DEF learned, doubted
  <1>7. /\ known' \in [Places -> [Names -> Secrets \cup {Gone, Unsure}]]
        /\ known'["keystore"] = known["keystore"]
        /\ known'["vault"] \in {learned, doubted}
        /\ stored' = memory' \/ (stored' = stored /\ known'["vault"] = doubted)
    BY <1>1, <1>3, <1>6 DEF StoreTypes, Places
  <1>8. StoreTypes'
    BY <1>1, <1>2, <1>4, <1>5, <1>7 DEF StoreTypes
  <1>9. VaultKnown'
    <2> SUFFICES ASSUME NEW m \in Names, known'["vault"][m] # Unsure
                 PROVE  memory'[m] = known'["vault"][m] /\ stored'[m] = known'["vault"][m]
      BY DEF VaultKnown
    <2>1. CASE known'["vault"] = doubted
      BY <1>1, <1>5, <1>6, <1>7, <2>1 DEF VaultKnown
    <2>2. CASE stored' = memory' /\ known'["vault"] = learned
      BY <1>1, <1>5, <1>6, <2>2 DEF VaultKnown
    <2> QED
      BY <1>7, <2>1, <2>2
  <1>10. /\ \A u : Entry(u)' = Entry(u) /\ (AtEntry(u)' <=> AtEntry(u))
         /\ Available' <=> Available
    BY <1>2 DEF Entry, AtEntry, Available, Keystore
  <1>11. RingKnown' /\ NoKeystore' /\ Written' /\ Underway'
    BY <1>2, <1>7, <1>10 DEF StoreInv, RingKnown, NoKeystore, Written, Underway
  <1>12. Meetings'
    BY <1>2, <1>7, <1>10 DEF StoreInv, Meetings, BusyUnsure, HaveMet, OthersTouched, ClashTouched
  <1>13. Migrating'
    BY <1>2, <1>10 DEF StoreInv, Migrating, ListTaken, Unfailed, Copied, Waits
  <1> QED
    BY <1>8, <1>9, <1>11, <1>12, <1>13 DEF StoreInv

(* Locking, unlocking and standing still. *)
LEMMA LockKeeps ==
    ASSUME StoreInv, memory' \in {memory, stored},
           UNCHANGED <<machine, ring, stored, todo, doing, clash, known, moving, touched>>
    PROVE  StoreInv'
  <1>1. StoreTypes'
    BY DEF StoreInv, StoreTypes
  <1>2. VaultKnown'
    BY DEF StoreInv, VaultKnown
  <1>3. /\ \A u : Entry(u)' = Entry(u) /\ (AtEntry(u)' <=> AtEntry(u))
        /\ Available' <=> Available
    BY DEF Entry, AtEntry, Available, Keystore
  <1>4. RingKnown' /\ NoKeystore' /\ Written' /\ Underway'
    BY <1>3 DEF StoreInv, RingKnown, NoKeystore, Written, Underway
  <1>5. Meetings'
    BY <1>3 DEF StoreInv, Meetings, BusyUnsure, HaveMet, OthersTouched, ClashTouched
  <1>6. Migrating'
    BY <1>3 DEF StoreInv, Migrating, ListTaken, Unfailed, Copied, Waits
  <1> QED
    BY <1>1, <1>2, <1>4, <1>5, <1>6 DEF StoreInv

LEMMA StoreStepInv == StoreInv /\ [StoreNext]_storeVars => StoreInv'
  <1> SUFFICES ASSUME StoreInv, [StoreNext]_storeVars PROVE StoreInv'
    OBVIOUS
  <1>1. ASSUME NEW n \in Names, NEW s \in Secrets \cup {Gone}, VaultSet(n, s) PROVE StoreInv'
    BY <1>1, VaultSetKeeps
  <1>2. CASE LockStore
    BY <1>2, LockKeeps DEF LockStore
  <1>3. CASE UnlockStore
    BY <1>3, LockKeeps DEF UnlockStore
  <1>4. ASSUME NEW t \in Callers, NEW n \in Names, NEW s \in Secrets \cup {Gone},
               KeystoreCall(t, n, s)
        PROVE  StoreInv'
    BY <1>4, KeystoreCallKeeps
  <1>5. ASSUME NEW t \in Callers, Migrate(t) PROVE StoreInv'
    BY <1>5, MigrateKeeps
  <1>6. ASSUME NEW t \in Callers, KeystoreStep(t) PROVE StoreInv'
    <2>1. /\ AtEntry(t) /\ StoreSame /\ WritesEntry(t)
          /\ EntryReturned(t) \/ EntryFailed(t) \/ EntryGoesOn(t)
      BY <1>6, StepKinds DEF StoreInv
    <2> QED
      BY <2>1, ReturnedKeeps, FailedKeeps, GoesOnKeeps
  <1>7. CASE UNCHANGED storeVars
    BY <1>7, LockKeeps DEF storeVars
  <1> QED
    BY <1>1, <1>2, <1>3, <1>4, <1>5, <1>6, <1>7 DEF StoreNext

(* What each keystore gives back. *)
LEMMA KeystoreReads ==
    ASSUME NEW n \in Names
    PROVE  /\ ~Available \/ ring[n] = Gone => ReadKeystore(n) = Gone
           /\ Available /\ ring[n] \in Secrets =>
                 /\ ReadKeystore(n) \in {ring[n], Bare[ring[n]], Trimmed[ring[n]]}
                 /\ ReadKeystore(n) # Gone
  <1>1. Available <=> Keystore \in {"dpapi", "keychain", "secret-tool"}
    BY DEF Available, Keystore
  <1>2. /\ ~Available => ReadKeystore(n) = Gone
        /\ Keystore = "dpapi" => ReadKeystore(n) = DpapiRead(n)
        /\ Keystore = "keychain" => ReadKeystore(n) = KeychainRead(n)
        /\ Keystore = "secret-tool" => ReadKeystore(n) = SecretToolRead(n)
    BY <1>1 DEF ReadKeystore
  <1>3. ring[n] = Gone => DpapiRead(n) = Gone /\ KeychainRead(n) = Gone /\ SecretToolRead(n) = Gone
    BY DEF DpapiRead, KeychainRead, SecretToolRead
  <1>4. ASSUME ring[n] \in Secrets
        PROVE  /\ DpapiRead(n) = ring[n] /\ ring[n] # Gone
               /\ KeychainRead(n) = Trimmed[ring[n]] /\ Trimmed[ring[n]] # Gone
               /\ SecretToolRead(n) = Bare[ring[n]] /\ Bare[ring[n]] # Gone
    <2>1. ring[n] # "torn" /\ ring[n] # Gone /\ Bare[ring[n]] # Gone /\ Trimmed[ring[n]] # Gone
      BY <1>4, SecretStoreAssumption
    <2> QED
      BY <2>1 DEF DpapiRead, KeychainRead, SecretToolRead
  <1> QED
    BY <1>1, <1>2, <1>3, <1>4

LEMMA StoreInvRead == StoreInv => StoredIsRead
  <1> SUFFICES ASSUME StoreInv, NEW place \in Places, NEW n \in Names
               PROVE  /\ known[place][n] = Gone => Read(place, n) = Gone
                      /\ known[place][n] \in Secrets /\ (place = "keystore" \/ open) =>
                            /\ Read(place, n) \in {known[place][n], Bare[known[place][n]],
                                                   Trimmed[known[place][n]]}
                            /\ ReadLenient(place, n) = <<Read(place, n), place>>
    BY DEF StoredIsRead
  <1> DEFINE s == known[place][n]
  <1>1. s \in Secrets => s # Unsure /\ s # Gone
    BY SecretStoreAssumption
  <1>2. Gone # Unsure
    BY SecretStoreAssumption
  <1>3. CASE place = "keystore"
    <2>1. Read(place, n) = ReadKeystore(n)
      BY <1>3 DEF Read
    <2>2. s \in Secrets \cup {Gone} => ring[n] = s
      BY <1>1, <1>2, <1>3 DEF StoreInv, RingKnown
    <2>3. s \in Secrets => Available
      BY <1>1, <1>3 DEF StoreInv, NoKeystore, NoEntries
    <2> QED
      BY <2>1, <2>2, <2>3, KeystoreReads DEF ReadLenient
  <1>4. CASE place = "vault"
    <2>1. Read(place, n) = IF open THEN memory[n] ELSE Gone
      BY <1>4 DEF Read, ReadVault
    <2>2. s \in Secrets \cup {Gone} => memory[n] = s
      BY <1>1, <1>2, <1>4 DEF StoreInv, VaultKnown
    <2> QED
      BY <1>1, <1>4, <2>1, <2>2 DEF ReadLenient
  <1> QED
    BY <1>3, <1>4 DEF Places

LEMMA StoreInvMigration == StoreInv => MigrationIsComplete
  <1> SUFFICES ASSUME StoreInv, NEW t \in Callers, doing[t] = "migrated",
                      NEW n \in Names, moving[t][n] # Gone, n \notin touched[t]
               PROVE  ring[n] = moving[t][n]
    BY DEF MigrationIsComplete
  <1>1. ~AtEntry(t) /\ Copied(t)
    BY DEF StoreInv, Underway, Migrating, Unfailed
  <1>2. ~Waits(t, n)
    BY <1>1 DEF AtEntry, Waits
  <1> QED
    BY <1>1, <1>2 DEF Copied

(* What a caller was told it stored is what it reads, and what it was told it
   deleted is gone: store, read, read_lenient, delete and the migration, for
   any number of callers that meet inside of any keystore, and any failures. *)
THEOREM StoredTheorem == StoreSpec => []StoredIsRead
  <1>1. StoreInv => StoredIsRead
    BY StoreInvRead
  <1> QED
    BY <1>1, StoreInitInv, StoreStepInv, PTL DEF StoreSpec

(* A migration that reports success has written every entry it took from the
   vault, but for those another call touched meanwhile. *)
THEOREM MigrationTheorem == StoreSpec => []MigrationIsComplete
  <1>1. StoreInv => MigrationIsComplete
    BY StoreInvMigration
  <1> QED
    BY <1>1, StoreInitInv, StoreStepInv, PTL DEF StoreSpec
==============================================================================
