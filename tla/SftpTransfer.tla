------------------------------ MODULE SftpTransfer ------------------------------
(***************************************************************************)
(* Uploads and downloads of one SFTP client (rdt-ssh, sftp.rs): the copy   *)
(* into a temporary file, chunk by chunk, the replacement of the target,   *)
(* the cancel flag all transfers of the client share, failures of either   *)
(* side, a lost connection, and a second transfer next to the first.       *)
(*                                                                         *)
(* The remote and the local file system are one directory of names here,   *)
(* since no name is on both sides.  A name leads to a file (an inode), an  *)
(* open file stays what it is when its name is renamed or removed, and a   *)
(* file's contents are the chunks written: <<t, i>> is chunk i of the      *)
(* source of transfer t.  A write goes to the writer's own position.       *)
(***************************************************************************)
EXTENDS Integers, Sequences, FiniteSets

CONSTANTS Transfers,       \* the calls of upload and download
          Uploads,         \* those that are uploads
          Target,          \* [Transfers -> names]: the file to be written
          Temporary,       \* [Transfers -> names]: the temporary name the code derives
          Length,          \* [Transfers -> Nat]: chunks of the source
          MaxCancels,      \* bound: presses of the cancel button
          Nothing

Names == {Target[t] : t \in Transfers} \cup {Temporary[t] : t \in Transfers}

\* A file is named for who created it: a transfer, or the past.
NewFile(t) == <<"new", t>>
OldFile(name) == <<"old", name>>
Files == {NewFile(t) : t \in Transfers} \cup {OldFile(n) : n \in Names}

\* An upload writes names of the server, a download names of this machine.
ASSUME SftpAssumption ==
    /\ Uploads \subseteq Transfers
    /\ \A t \in Transfers : Length[t] \in Nat
    /\ \A t, u \in Transfers : Target[t] # Temporary[u]
    /\ \A t \in Uploads, u \in Transfers \ Uploads :
          Target[t] # Target[u] /\ Temporary[t] # Temporary[u]
    /\ Nothing \notin Names \cup Files /\ Names \cap Transfers = {}

VARIABLES
    at,        \* the await each transfer stands at
    copied,    \* chunks it has written: its position in both files
    sink,      \* the file it writes to, or Nothing
    dir,       \* [Names -> files or Nothing]
    data,      \* [files -> contents]
    flag,      \* the client's cancel flag
    cancels,
    clashed    \* history: transfers that used a temporary name at the same time

sftpVars == <<at, copied, sink, dir, data, flag, cancels, clashed>>

Before(name) == <<<<name, 0>>>>
Whole(t) == [i \in 1..Length[t] |-> <<t, i>>]

Finished == {"done", "cancelled", "failed"}
Running(t) == at[t] \notin Finished \cup {"idle"}

SftpInit ==
    /\ at = [t \in Transfers |-> "idle"]
    /\ copied = [t \in Transfers |-> 0] /\ sink = [t \in Transfers |-> Nothing]
    /\ dir \in [Names -> {Nothing} \cup {OldFile(Target[t]) : t \in Transfers}]
    /\ \A n \in Names : dir[n] \in {Nothing, OldFile(n)}
    /\ data = [f \in Files |-> IF f[1] = "new" THEN <<>> ELSE Before(f[2])]
    /\ flag = FALSE /\ cancels = 0 /\ clashed = {}

-------------------------------------------------------------------------------
GoTo(t, place) == at' = [at EXCEPT ![t] = place]
SameFlag == UNCHANGED <<flag, cancels>>

\* The flag is cleared for every transfer that shares it.
Begin(t) ==
    /\ at[t] = "idle" /\ GoTo(t, "opening")
    /\ flag' = FALSE
    /\ UNCHANGED <<copied, sink, dir, data, cancels, clashed>>

\* An await that fails, or a call that is abandoned there: the temporary file
\* stays.  What was asked for may have been done all the same, which is the step
\* first and the failure after it.
Fails(t) ==
    /\ Running(t)
    /\ GoTo(t, "failed")
    /\ sink' = [sink EXCEPT ![t] = Nothing]
    /\ UNCHANGED <<copied, dir, data, clashed>> /\ SameFlag

\* A transfer that has created its temporary file and not moved it.
Uses(t) == Running(t) /\ at[t] \notin {"opening", "renamed"}

\* Metadata and the opening of the source; the temporary file is created, or
\* truncated if the name is taken.  A download also opens its source after
\* that, and may fail there.
Create(t) ==
    /\ at[t] = "opening"
    /\ LET name == Temporary[t]
           file == IF dir[name] = Nothing THEN NewFile(t) ELSE dir[name]
           others == {u \in Transfers \ {t} : Temporary[u] = name /\ Uses(u)}
       IN /\ dir' = [dir EXCEPT ![name] = file]
          /\ data' = [data EXCEPT ![file] = <<>>]
          /\ sink' = [sink EXCEPT ![t] = file]
          /\ clashed' = clashed \cup (IF others = {} THEN {} ELSE others \cup {t})
    /\ GoTo(t, "looking")
    /\ UNCHANGED copied /\ SameFlag

\* The top of the loop looks at the flag.
Look(t) ==
    /\ at[t] = "looking"
    /\ IF flag THEN GoTo(t, "removing") /\ sink' = [sink EXCEPT ![t] = Nothing]
       ELSE GoTo(t, "copying") /\ UNCHANGED sink
    /\ UNCHANGED <<copied, dir, data, clashed>> /\ SameFlag

\* Cancelled: the temporary name is removed if that works, and the call ends.
RemoveTemporary(t) ==
    /\ at[t] = "removing"
    /\ dir' \in {dir, [dir EXCEPT ![Temporary[t]] = Nothing]}
    /\ GoTo(t, "cancelled")
    /\ UNCHANGED <<copied, sink, data, clashed>> /\ SameFlag

\* One chunk is read and written; at the end of the source the sink is flushed
\* and closed.  A write beyond the end of the file fills the gap.
Put(contents, i, chunk) ==
    [j \in 1..(IF i > Len(contents) THEN i ELSE Len(contents)) |->
        IF j = i THEN chunk ELSE IF j <= Len(contents) THEN contents[j] ELSE Nothing]

\* A mutant: the end of the source is taken for granted one chunk early.
CopyShort(t) ==
    /\ at[t] = "copying"
    /\ IF copied[t] + 1 < Length[t]
       THEN /\ data' = [data EXCEPT ![sink[t]] = Put(@, copied[t] + 1, <<t, copied[t] + 1>>)]
            /\ copied' = [copied EXCEPT ![t] = @ + 1]
            /\ GoTo(t, "looking") /\ UNCHANGED sink
       ELSE /\ GoTo(t, IF t \in Uploads THEN "replacing" ELSE "renaming")
            /\ sink' = [sink EXCEPT ![t] = Nothing] /\ UNCHANGED <<copied, data>>
    /\ UNCHANGED <<dir, clashed>> /\ SameFlag

Copy(t) ==
    /\ at[t] = "copying"
    /\ IF copied[t] < Length[t]
       THEN /\ data' = [data EXCEPT ![sink[t]] = Put(@, copied[t] + 1, <<t, copied[t] + 1>>)]
            /\ copied' = [copied EXCEPT ![t] = @ + 1]
            /\ GoTo(t, "looking") /\ UNCHANGED sink
       ELSE /\ GoTo(t, IF t \in Uploads THEN "replacing" ELSE "renaming")
            /\ sink' = [sink EXCEPT ![t] = Nothing] /\ UNCHANGED <<copied, data>>
    /\ UNCHANGED <<dir, clashed>> /\ SameFlag

\* An upload removes the old target first, and goes on if that fails.
RemoveTarget(t) ==
    /\ at[t] = "replacing"
    /\ dir' \in {dir, [dir EXCEPT ![Target[t]] = Nothing]}
    /\ GoTo(t, "renaming")
    /\ UNCHANGED <<copied, sink, data, clashed>> /\ SameFlag

\* The rename takes the target's place.  A server refuses it while the target
\* exists; the file system of a download replaces it.  What was moved has no
\* temporary name any more.
Rename(t) ==
    /\ at[t] = "renaming"
    /\ dir[Temporary[t]] # Nothing
    /\ t \in Uploads => dir[Target[t]] = Nothing
    /\ dir' = [dir EXCEPT ![Target[t]] = dir[Temporary[t]], ![Temporary[t]] = Nothing]
    /\ GoTo(t, "renamed")
    /\ UNCHANGED <<copied, sink, data, clashed>> /\ SameFlag

\* Its answer arrives, and the call returns; or it does not (Fails).
Answered(t) ==
    /\ at[t] = "renamed" /\ GoTo(t, "done")
    /\ UNCHANGED <<copied, sink, dir, data, clashed>> /\ SameFlag

\* The cancel button, at any time and from any thread.
Cancel ==
    /\ cancels < MaxCancels
    /\ flag' = TRUE /\ cancels' = cancels + 1
    /\ UNCHANGED <<at, copied, sink, dir, data, clashed>>

TransferStep(t) ==
    \/ Begin(t) \/ Create(t) \/ Look(t) \/ RemoveTemporary(t) \/ Copy(t) \/ RemoveTarget(t)
    \/ Rename(t) \/ Answered(t)
SftpNext == (\E t \in Transfers : TransferStep(t) \/ Fails(t)) \/ Cancel

SftpSpec == SftpInit /\ [][SftpNext]_sftpVars

-------------------------------------------------------------------------------
(* Properties. *)

Places == {"idle", "opening", "looking", "removing", "copying", "replacing", "renaming",
           "renamed"} \cup Finished
Contents == Seq(((Transfers \cup Names) \X Nat) \cup {Nothing})
SftpTypeOK ==
    /\ at \in [Transfers -> Places]
    /\ \A t \in Transfers : copied[t] \in 0..Length[t]
    /\ sink \in [Transfers -> Files \cup {Nothing}] /\ dir \in [Names -> Files \cup {Nothing}]
    /\ \A f \in Files : data[f] \in Contents
    /\ flag \in BOOLEAN /\ clashed \subseteq Transfers

Clean(t) == \A u \in Transfers : Target[u] = Target[t] => u \notin clashed

\* The target is never truncated or mixed: whatever fails and whenever it is
\* looked at, it is absent, which only an upload makes it; or the old file, and
\* no transfer to it has reported success; or the complete source of a transfer
\* that got as far as its rename, even if it did not live to say so.  That holds
\* for targets none of whose transfers shared its temporary name with another
\* one: the name is derived from the target (upload), or from the target
\* without its extension (download).
TargetIsWhole ==
    \A t \in Transfers : Clean(t) =>
        \/ dir[Target[t]] = Nothing /\ (at[t] = "done" => t \in Uploads)
        \/ /\ data[dir[Target[t]]] = Before(Target[t])
           /\ \A u \in Transfers : Target[u] = Target[t] => at[u] # "done"
        \/ \E u \in Transfers :
              /\ Target[u] = Target[t] /\ at[u] \in {"renamed", "done", "failed"}
              /\ data[dir[Target[t]]] = Whole(u)

===============================================================================
