----------------------------- MODULE SecretVault ------------------------------
(***************************************************************************)
(* rdt-secrets: the encrypted vault file and the handle that callers share *)
(* (vault.rs, and the vault half of SecretStore in lib.rs).                *)
(*                                                                         *)
(* Every operation on an open vault keeps the handle's mutex until its     *)
(* save is over.  create_vault does not: it writes the new file first and  *)
(* takes the mutex to open it.  A save writes one temporary file, whoever  *)
(* makes it, and renames it over the vault; each step of it can fail, and  *)
(* the process can die at any moment.                                      *)
(*                                                                         *)
(* The key is derived from a passphrase and the salt that travels in the   *)
(* file, and the cipher authenticates: a file opens exactly when it is     *)
(* whole and the passphrase is the one it was sealed with.                 *)
(***************************************************************************)
EXTENDS Naturals

CONSTANTS
    Threads,      \* callers of the store
    Keys,         \* names of entries
    Values,       \* secrets
    Passphrases,  \* the ones that are not empty
    None,         \* no such file, no such entry, a locked vault, no call
    MaxCalls,     \* bound: operations that write
    MaxFaults     \* bound: I/O failures and deaths of the process

Entries == [Keys -> Values \cup {None}]
Empty == [k \in Keys |-> None]

(* struct Vault; Closed is None. *)
Vault == [pass : Passphrases, entries : Entries]

(* What a file holds: a sealed vault, or nothing, the beginning of one, or
   what two writers of the same file made of it. *)
Image == [form : {"whole", "empty", "torn", "mixed"}, pass : Passphrases,
          entries : Entries, private : BOOLEAN]

(* The calls that write. *)
Call == [op : {"set"}, key : Keys, value : Values \cup {None}]
            \cup [op : {"change", "create"}, pass : Passphrases]

ASSUME VaultAssumption ==
    /\ None \notin Values \cup Vault \cup Image \cup Call
    /\ MaxCalls \in Nat /\ MaxFaults \in Nat

VARIABLES
    file,       \* the vault file
    tmp,        \* the temporary file
    fd,         \* the file each thread has open: it may have been renamed since
    handle,     \* the vault behind the mutex
    pc,         \* where each thread is in its call
    call,       \* the call it is in
    may,        \* what each entry may be, by the answers its callers were given
    tried,      \* the passphrases the vault may have, likewise
    overlapped, \* two calls that write were under way at once
    calls, faults

disk == <<file, tmp, fd>>
answers == <<may, tried>>
vars == <<disk, handle, pc, call, answers, overlapped, calls, faults>>

SaveStep == {"create", "write", "finish", "restrict", "rename"}

TypeOK ==
    /\ file \in Image \cup {None}
    /\ tmp \in Image \cup {None}
    /\ fd \in [Threads -> {"none", "tmp", "file", "gone"}]
    /\ handle \in Vault \cup {None}
    /\ pc \in [Threads -> SaveStep \cup {"idle", "reopen"}]
    /\ call \in [Threads -> Call \cup {None}]
    /\ may \in [Keys -> SUBSET (Values \cup {None})]
    /\ tried \subseteq Passphrases
    /\ overlapped \in BOOLEAN
    /\ calls \in 0..MaxCalls
    /\ faults \in 0..MaxFaults

Init ==
    /\ file = None
    /\ tmp = None
    /\ fd = [t \in Threads |-> "none"]
    /\ handle = None
    /\ pc = [t \in Threads |-> "idle"]
    /\ call = [t \in Threads |-> None]
    /\ may = [k \in Keys |-> {None}]
    /\ tried = {}
    /\ overlapped = FALSE
    /\ calls = 0
    /\ faults = 0

------------------------------------------------------------------------------
(* SecretStore: unlock, lock, and the calls that write.  Calls that are
   refused (a locked vault, no such entry, an empty passphrase) change
   nothing and are left out. *)

(* The mutex is held by the call on the open vault that is under way. *)
Held == \E t \in Threads : call[t] # None /\ call[t].op # "create"

Opens(p) == file # None /\ file.form = "whole" /\ file.pass = p
Opened == [pass |-> file.pass, entries |-> file.entries]

Idle == \E t \in Threads : pc[t] = "idle"

Unlock(p) ==
    /\ Idle /\ ~Held /\ Opens(p)
    /\ handle' = Opened
    /\ UNCHANGED <<disk, pc, call, answers, overlapped, calls, faults>>

Lock ==
    /\ Idle /\ ~Held
    /\ handle' = None
    /\ UNCHANGED <<disk, pc, call, answers, overlapped, calls, faults>>

(* A call that writes begins; it has still to save. *)
Enter(t, c) ==
    /\ pc[t] = "idle"
    /\ calls < MaxCalls
    /\ calls' = calls + 1
    /\ pc' = [pc EXCEPT ![t] = "create"]
    /\ call' = [call EXCEPT ![t] = c]
    /\ overlapped' = (overlapped \/ \E u \in Threads : pc[u] # "idle")
    /\ UNCHANGED <<disk, faults>>

With(entries, k, v) == [entries EXCEPT ![k] = v]

(* The entry in memory changes before the file does; None removes it. *)
SetWithoutInserting(t, k, v) ==
    /\ ~Held /\ handle # None
    /\ may' = [may EXCEPT ![k] = @ \cup {v}]
    /\ Enter(t, [op |-> "set", key |-> k, value |-> v])
    /\ UNCHANGED <<handle, tried>>
Set(t, k, v) ==
    /\ ~Held /\ handle # None
    /\ handle' = [handle EXCEPT !.entries = With(@, k, v)]
    /\ may' = [may EXCEPT ![k] = @ \cup {v}]
    /\ Enter(t, [op |-> "set", key |-> k, value |-> v])
    /\ UNCHANGED tried

Delete(t, k) ==
    /\ handle # None /\ handle.entries[k] # None
    /\ Set(t, k, None)

ChangeKeepingKey(t, p) ==
    /\ ~Held /\ handle # None
    /\ tried' = tried \cup {p}
    /\ Enter(t, [op |-> "change", pass |-> p])
    /\ UNCHANGED <<handle, may>>

(* SecretStore has no way to it; AppState keeps a vault behind a mutex too. *)
ChangePassphrase(t, p) ==
    /\ ~Held /\ handle # None
    /\ handle' = [handle EXCEPT !.pass = p]
    /\ tried' = tried \cup {p}
    /\ Enter(t, [op |-> "change", pass |-> p])
    /\ UNCHANGED may

(* Vault::create works on a vault of its own, without the mutex. *)
CreateVault(t, p) ==
    /\ tried' = tried \cup {p}
    /\ may' = [k \in Keys |-> may[k] \cup {None}]
    /\ Enter(t, [op |-> "create", pass |-> p])
    /\ UNCHANGED handle

------------------------------------------------------------------------------
(* save(), one action per system call. *)

Goto(t, step) == pc' = [pc EXCEPT ![t] = step]

Saved(t) == IF call[t].op = "create" THEN [pass |-> call[t].pass, entries |-> Empty]
            ELSE handle
Sealed(vault, private) == [form |-> "whole", pass |-> vault.pass,
                           entries |-> vault.entries, private |-> private]

(* The file thread t has open, which is no longer the temporary one when
   another thread has renamed it, and may have been replaced. *)
Contents(t) == IF fd[t] = "tmp" THEN tmp ELSE file
Fill(t, image) ==
    /\ tmp' = IF fd[t] = "tmp" THEN image ELSE tmp
    /\ file' = IF fd[t] = "file" THEN image ELSE file

Alone(t) == \A u \in Threads \ {t} : fd[u] # fd[t]

(* File::create truncates the file, or makes one that others can read. *)
Create(t) ==
    /\ pc[t] = "create"
    /\ tmp' = [form |-> "empty", pass |-> Saved(t).pass, entries |-> Empty,
               private |-> tmp # None /\ tmp.private]
    /\ fd' = [fd EXCEPT ![t] = "tmp"]
    /\ Goto(t, "write")
    /\ UNCHANGED <<file, handle, call, answers, overlapped, calls, faults>>

BeginWrite(t) ==
    /\ pc[t] = "write"
    /\ LET form == IF Alone(t) /\ Contents(t).form = "empty" THEN "torn" ELSE "mixed"
       IN  Fill(t, [Contents(t) EXCEPT !.form = form])
    /\ Goto(t, "finish")
    /\ UNCHANGED <<fd, handle, call, answers, overlapped, calls, faults>>

(* The write is complete and synced, the file is closed.  Where two writers
   met, the longer text may stick out behind the shorter. *)
FinishWrite(t) ==
    /\ pc[t] = "finish"
    /\ \/ Fill(t, Sealed(Saved(t), Contents(t).private))
       \/ /\ ~(Alone(t) /\ Contents(t).form = "torn")
          /\ Fill(t, [Contents(t) EXCEPT !.form = "mixed"])
    /\ fd' = [fd EXCEPT ![t] = "none"]
    /\ Goto(t, "restrict")
    /\ UNCHANGED <<handle, call, answers, overlapped, calls, faults>>

(* The call ends: with an error it leaves memory and files as they are. *)
Return(t) ==
    /\ fd' = [fd EXCEPT ![t] = "none"]
    /\ call' = [call EXCEPT ![t] = None]
    /\ Goto(t, "idle")

Fail(t) == Return(t) /\ UNCHANGED <<file, tmp, handle, answers, overlapped, calls>>

RestrictNothing(t) ==
    /\ pc[t] = "restrict"
    /\ Goto(t, "rename")
    /\ UNCHANGED <<disk, handle, call, answers, overlapped, calls, faults>>
Restrict(t) ==
    /\ pc[t] = "restrict"
    /\ IF tmp = None
       THEN Fail(t) /\ UNCHANGED faults
       ELSE /\ tmp' = [tmp EXCEPT !.private = TRUE]
            /\ Goto(t, "rename")
            /\ UNCHANGED <<file, fd, handle, call, answers, overlapped, calls, faults>>

(* The caller is told that its call succeeded. *)
Acknowledge(c) ==
    \/ c.op = "set" /\ may' = [may EXCEPT ![c.key] = {c.value}] /\ UNCHANGED tried
    \/ c.op = "change" /\ tried' = {c.pass} /\ UNCHANGED may
    \/ c.op = "create" /\ tried' = {c.pass} /\ may' = [k \in Keys |-> {None}]

Moved(place) ==
    IF place = "tmp" THEN "file" ELSE IF place = "file" THEN "gone" ELSE place

(* The rename takes along the descriptors other threads have on it. *)
Rename(t) ==
    /\ pc[t] = "rename"
    /\ IF tmp = None
       THEN Fail(t) /\ UNCHANGED faults
       ELSE /\ file' = tmp
            /\ tmp' = None
            /\ fd' = [u \in Threads |-> Moved(fd[u])]
            /\ IF call[t].op = "create"
               THEN Goto(t, "reopen") /\ UNCHANGED <<call, answers>>
               ELSE /\ Goto(t, "idle")
                    /\ call' = [call EXCEPT ![t] = None]
                    /\ Acknowledge(call[t])
            /\ UNCHANGED <<handle, overlapped, calls, faults>>

(* create_vault takes the mutex and opens what is there by then. *)
Reopen(t) ==
    /\ pc[t] = "reopen" /\ ~Held
    /\ IF Opens(call[t].pass)
       THEN /\ handle' = Opened
            /\ Acknowledge(call[t])
            /\ Return(t)
            /\ UNCHANGED <<file, tmp, overlapped, calls, faults>>
       ELSE Fail(t) /\ UNCHANGED faults

StepFails(t) ==
    /\ pc[t] # "idle"
    /\ pc[t] = "reopen" => ~Held
    /\ faults < MaxFaults
    /\ faults' = faults + 1
    /\ Fail(t)

(* The process dies; the next one begins with a locked vault. *)
Crash ==
    /\ faults < MaxFaults
    /\ faults' = faults + 1
    /\ handle' = None
    /\ fd' = [t \in Threads |-> "none"]
    /\ pc' = [t \in Threads |-> "idle"]
    /\ call' = [t \in Threads |-> None]
    /\ UNCHANGED <<file, tmp, answers, overlapped, calls>>

------------------------------------------------------------------------------

Save(t) ==
    \/ Create(t)
    \/ BeginWrite(t)
    \/ FinishWrite(t)
    \/ Restrict(t)
    \/ Rename(t)

Begin(t) ==
    \/ \E k \in Keys, v \in Values : Set(t, k, v)
    \/ \E k \in Keys : Delete(t, k)
    \/ \E p \in Passphrases : ChangePassphrase(t, p) \/ CreateVault(t, p)

Next ==
    \/ \E p \in Passphrases : Unlock(p)
    \/ Lock
    \/ \E t \in Threads : Begin(t) \/ Save(t) \/ Reopen(t) \/ StepFails(t)
    \/ Crash

Spec == Init /\ [][Next]_vars

------------------------------------------------------------------------------
(* Properties.  Each is about a store on which no two calls that write have
   overlapped.  The mutex sees to that, except where one is create_vault: it
   shares the temporary file with whoever saves at that time. *)

(* save, vault.rs:214-250: whatever fails and whenever the process dies, the
   vault file is absent, or whole and its owner's. *)
VaultIsWhole == ~overlapped /\ file # None => file.form = "whole" /\ file.private

(* set and delete, vault.rs:182-197: each entry, in memory and in the file, is
   what the last call about it that succeeded made it, or what a later call
   that failed tried to; across passphrase changes, locking and restarts. *)
EntriesAccounted ==
    ~overlapped => \A k \in Keys :
        /\ file # None => file.entries[k] \in may[k]
        /\ handle # None => handle.entries[k] \in may[k]

(* create and change_passphrase, vault.rs:70-92 and 200-212: the file opens
   with the passphrase of the last such call that succeeded, or of a later one
   that failed. *)
PassphraseAccounted ==
    ~overlapped /\ file # None => file.pass \in tried
==============================================================================
