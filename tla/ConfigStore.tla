----------------------------- MODULE ConfigStore -----------------------------
(***************************************************************************)
(* rdt-config/src/store.rs and the threads that use it: the configuration  *)
(* document of each process, its dirty flag, and the file they share.      *)
(*                                                                         *)
(* A window edits its document on the UI thread and saves it on the        *)
(* command worker, which takes SaveConfig commands from a queue; the agent *)
(* reloads it.  The document and the flag have a lock each and no          *)
(* operation holds both.  A save writes <stem>.tmp and renames it over the *)
(* file; any step of it can fail, and a process can die between any two.   *)
(***************************************************************************)
EXTENDS Naturals, FiniteSets

CONSTANTS
    Windows,     \* desktop processes: a UI thread and a command worker each
    Agents,      \* agent processes: they only reload
    Ids,         \* profile identifiers
    Names,       \* profile names
    Inodes,      \* files the file system can hold
    None,        \* no such file; no open file
    MaxEdits,    \* bound: changes the users make
    MaxPresses,  \* bound: times the users press "Save settings"
    MaxFaults    \* bound: I/O failures and deaths of a process

Processes == Windows \cup Agents

Profile == [id : Ids, name : Names]

(* The document.  Settings are a number: all that matters of them is whether
   two documents agree.  The order of the profiles is left out. *)
Config == [settings : 0..MaxEdits, profiles : SUBSET Profile]
Default == [settings |-> 0, profiles |-> {}]

(* What a file holds: nothing, a document, the beginning of one, or what two
   writers of the same file are leaving in it. *)
Content == [form : {"whole", "empty", "torn", "mixed"}, doc : Config]
Whole(doc) == [form |-> "whole", doc |-> doc]
Broken(form) == [form |-> form, doc |-> Default]

ASSUME StoreAssumption ==
    /\ IsFiniteSet(Windows) /\ IsFiniteSet(Agents) /\ Windows \cap Agents = {}
    /\ MaxEdits \in Nat /\ MaxPresses \in Nat /\ MaxFaults \in Nat
    /\ None \notin Inodes
    /\ IsFiniteSet(Inodes) /\ Cardinality(Inodes) > Cardinality(Windows) + 2

VARIABLES
    up,        \* the processes that are running
    mem,       \* inner: the document in each process
    dirty,     \* the dirty flag of each process
    editing,   \* windows between changing the document and setting the flag
    queued,    \* SaveConfig commands waiting for each window's worker
    saving,    \* where each window's worker is in save()
    snap,      \* the text it is saving
    fd,        \* the file it has open
    reloading, \* where each agent is in reload()
    read,      \* the document it has read
    dir,       \* the directory: which file each name refers to
    content,   \* what each file holds
    private,   \* whether only the owner can read it
    edits, presses, faults

memory == <<mem, dirty, editing>>
worker == <<queued, saving, snap, fd>>
agent == <<reloading, read>>
disk == <<dir, content, private>>
bounds == <<edits, presses, faults>>
vars == <<up, memory, worker, agent, disk, bounds>>

SaveStep == {"idle", "create", "restrict", "write", "finish", "rename", "clean"}

TypeOK ==
    /\ up \subseteq Processes
    /\ mem \in [Processes -> Config]
    /\ dirty \in [Processes -> BOOLEAN]
    /\ editing \subseteq Windows
    /\ queued \in [Windows -> Nat]
    /\ saving \in [Windows -> SaveStep]
    /\ snap \in [Windows -> Config]
    /\ fd \in [Windows -> Inodes \cup {None}]
    /\ reloading \in [Agents -> {"idle", "replace", "clean"}]
    /\ read \in [Agents -> Config]
    /\ dir \in [{"file", "tmp"} -> Inodes \cup {None}]
    /\ content \in [Inodes -> Content]
    /\ private \in [Inodes -> BOOLEAN]
    /\ edits \in 0..MaxEdits
    /\ presses \in 0..MaxPresses
    /\ faults \in 0..MaxFaults

Init ==
    /\ up = {}
    /\ mem = [p \in Processes |-> Default]
    /\ dirty = [p \in Processes |-> FALSE]
    /\ editing = {}
    /\ queued = [w \in Windows |-> 0]
    /\ saving = [w \in Windows |-> "idle"]
    /\ snap = [w \in Windows |-> Default]
    /\ fd = [w \in Windows |-> None]
    /\ reloading = [g \in Agents |-> "idle"]
    /\ read = [g \in Agents |-> Default]
    /\ dir = [name \in {"file", "tmp"} |-> None]
    /\ content = [f \in Inodes |-> Broken("empty")]
    /\ private = [f \in Inodes |-> FALSE]
    /\ edits = 0
    /\ presses = 0
    /\ faults = 0

------------------------------------------------------------------------------
(* load(path): a missing file gives the defaults and a dirty store, an empty
   one an unversioned document with every field at its default; a file that
   is not a document is an error. *)

Form == IF dir["file"] = None THEN "empty" ELSE content[dir["file"]].form
OnDisk == IF dir["file"] = None THEN Default ELSE content[dir["file"]].doc
Loads == Form \in {"empty", "whole"}

Start(p) ==
    /\ p \notin up
    /\ Loads
    /\ up' = up \cup {p}
    /\ mem' = [mem EXCEPT ![p] = OnDisk]
    /\ dirty' = [dirty EXCEPT ![p] = (dir["file"] = None)]
    /\ UNCHANGED <<editing, worker, agent, disk, bounds>>

(* The process is killed: everything in memory is gone, the disk stays. *)
Die(p) ==
    /\ p \in up
    /\ faults < MaxFaults
    /\ faults' = faults + 1
    /\ up' = up \ {p}
    /\ editing' = editing \ {p}
    /\ queued' = [w \in Windows |-> IF w = p THEN 0 ELSE queued[w]]
    /\ saving' = [w \in Windows |-> IF w = p THEN "idle" ELSE saving[w]]
    /\ fd' = [w \in Windows |-> IF w = p THEN None ELSE fd[w]]
    /\ reloading' = [g \in Agents |-> IF g = p THEN "idle" ELSE reloading[g]]
    /\ UNCHANGED <<mem, dirty, snap, read, disk, edits, presses>>

------------------------------------------------------------------------------
(* The UI thread.  Each change holds the document's write lock, which it
   releases before it takes the flag's. *)

Change(w, doc) ==
    /\ w \in up \ editing
    /\ edits < MaxEdits
    /\ edits' = edits + 1
    /\ mem' = [mem EXCEPT ![w] = doc]
    /\ editing' = editing \cup {w}
    /\ UNCHANGED <<up, dirty, worker, agent, disk, presses, faults>>

SetSettings(w) == Change(w, [mem[w] EXCEPT !.settings = edits + 1])

NameTaken(w, name, others) == \E q \in mem[w].profiles : q.id \in others /\ q.name = name

(* ProfileId::new() makes identifiers nobody has. *)
Add(w, p) ==
    /\ \A q \in mem[w].profiles : q.id # p.id
    /\ ~NameTaken(w, p.name, Ids)
    /\ Change(w, [mem[w] EXCEPT !.profiles = @ \cup {p}])

UpdateUnchecked(w, p) ==
    /\ \E q \in mem[w].profiles : q.id = p.id
    /\ Change(w, [mem[w] EXCEPT !.profiles = {q \in @ : q.id # p.id} \cup {p}])
Update(w, p) ==
    /\ \E q \in mem[w].profiles : q.id = p.id
    /\ ~NameTaken(w, p.name, Ids \ {p.id})
    /\ Change(w, [mem[w] EXCEPT !.profiles = {q \in @ : q.id # p.id} \cup {p}])

Remove(w, id) ==
    /\ \E q \in mem[w].profiles : q.id = id
    /\ Change(w, [mem[w] EXCEPT !.profiles = {q \in @ : q.id # id}])

MarkDirty(w) ==
    /\ w \in editing
    /\ dirty' = [dirty EXCEPT ![w] = TRUE]
    /\ editing' = editing \ {w}
    /\ UNCHANGED <<up, mem, worker, agent, disk, bounds>>

(* "Save settings" queues a command. *)
PressSave(w) ==
    /\ w \in up \ editing
    /\ presses < MaxPresses
    /\ presses' = presses + 1
    /\ queued' = [queued EXCEPT ![w] = @ + 1]
    /\ UNCHANGED <<up, memory, saving, snap, fd, agent, disk, edits, faults>>

------------------------------------------------------------------------------
(* The command worker: save() and atomic_write(), one action per system call. *)

SnapshotWhenDirty(w) ==
    /\ saving[w] = "idle" /\ queued[w] > 0
    /\ queued' = [queued EXCEPT ![w] = @ - 1]
    /\ snap' = [snap EXCEPT ![w] = mem[w]]
    /\ saving' = [saving EXCEPT ![w] = IF dirty[w] THEN "create" ELSE "idle"]
    /\ UNCHANGED <<up, memory, fd, agent, disk, bounds>>
Snapshot(w) ==
    /\ saving[w] = "idle" /\ queued[w] > 0
    /\ queued' = [queued EXCEPT ![w] = @ - 1]
    /\ snap' = [snap EXCEPT ![w] = mem[w]]
    /\ saving' = [saving EXCEPT ![w] = "create"]
    /\ UNCHANGED <<up, memory, fd, agent, disk, bounds>>

InUse == {dir[name] : name \in DOMAIN dir} \cup {fd[w] : w \in Windows}

(* File::create truncates the file the name refers to, or makes a new one
   that everybody can read; which one makes no difference. *)
Create(w) ==
    LET new == CHOOSE f \in Inodes : f \notin InUse
        target == IF dir["tmp"] = None THEN new ELSE dir["tmp"]
    IN /\ saving[w] = "create"
       /\ dir' = [dir EXCEPT !["tmp"] = target]
       /\ fd' = [fd EXCEPT ![w] = target]
       /\ content' = [content EXCEPT ![target] = Broken("empty")]
       /\ private' = [private EXCEPT ![target] = dir["tmp"] # None /\ @]
       /\ saving' = [saving EXCEPT ![w] = "restrict"]
       /\ UNCHANGED <<up, memory, queued, snap, agent, bounds>>

(* A step failed: save() returns the error, the temporary file stays. *)
GiveUp(w) ==
    /\ saving' = [saving EXCEPT ![w] = "idle"]
    /\ fd' = [fd EXCEPT ![w] = None]
    /\ UNCHANGED <<up, memory, queued, snap, agent, disk, edits, presses>>

(* restrict_to_owner and rename go by the name of the temporary file, and
   fail when another process has renamed it away. *)
WithTemporary(w, step) ==
    IF dir["tmp"] = None THEN GiveUp(w) /\ UNCHANGED faults ELSE step

RestrictNothing(w) ==
    /\ saving[w] = "restrict"
    /\ saving' = [saving EXCEPT ![w] = "write"]
    /\ UNCHANGED <<up, memory, queued, snap, fd, agent, disk, bounds>>
RestrictToOwner(w) ==
    /\ saving[w] = "restrict"
    /\ WithTemporary(w,
         /\ private' = [private EXCEPT ![dir["tmp"]] = TRUE]
         /\ saving' = [saving EXCEPT ![w] = "write"]
         /\ UNCHANGED <<up, memory, queued, snap, fd, agent, dir, content, bounds>>)

Alone(w) == \A v \in Windows \ {w} : fd[v] # fd[w]

BeginWrite(w) ==
    /\ saving[w] = "write"
    /\ LET form == IF Alone(w) /\ content[fd[w]].form = "empty" THEN "torn" ELSE "mixed"
       IN  content' = [content EXCEPT ![fd[w]] = Broken(form)]
    /\ saving' = [saving EXCEPT ![w] = "finish"]
    /\ UNCHANGED <<up, memory, queued, snap, fd, agent, dir, private, bounds>>

(* The write is complete and synced; the file is closed.  Where two writers
   met, the shorter text may be followed by the rest of the longer one. *)
FinishWrite(w) ==
    /\ saving[w] = "finish"
    /\ \E c \in {Whole(snap[w]), Broken("mixed")} :
          /\ Alone(w) /\ content[fd[w]].form = "torn" => c = Whole(snap[w])
          /\ content' = [content EXCEPT ![fd[w]] = c]
    /\ fd' = [fd EXCEPT ![w] = None]
    /\ saving' = [saving EXCEPT ![w] = "rename"]
    /\ UNCHANGED <<up, memory, queued, snap, agent, dir, private, bounds>>

Rename(w) ==
    /\ saving[w] = "rename"
    /\ WithTemporary(w,
         /\ dir' = [dir EXCEPT !["file"] = dir["tmp"], !["tmp"] = None]
         /\ saving' = [saving EXCEPT ![w] = "clean"]
         /\ UNCHANGED <<up, memory, queued, snap, fd, agent, content, private, bounds>>)

MarkClean(w) ==
    /\ saving[w] = "clean"
    /\ dirty' = [dirty EXCEPT ![w] = FALSE]
    /\ saving' = [saving EXCEPT ![w] = "idle"]
    /\ UNCHANGED <<up, mem, editing, queued, snap, fd, agent, disk, bounds>>

(* A system call fails. *)
SaveFails(w) ==
    /\ saving[w] \in {"create", "restrict", "write", "finish", "rename"}
    /\ faults < MaxFaults
    /\ faults' = faults + 1
    /\ GiveUp(w)

------------------------------------------------------------------------------
(* The agent: reload() reads the file, replaces the document, clears the
   flag, in three steps. *)

ReadFile(g) ==
    /\ g \in up /\ reloading[g] = "idle"
    /\ Loads
    /\ read' = [read EXCEPT ![g] = OnDisk]
    /\ reloading' = [reloading EXCEPT ![g] = "replace"]
    /\ UNCHANGED <<up, memory, worker, disk, bounds>>

Replace(g) ==
    /\ reloading[g] = "replace"
    /\ mem' = [mem EXCEPT ![g] = read[g]]
    /\ reloading' = [reloading EXCEPT ![g] = "clean"]
    /\ UNCHANGED <<up, dirty, editing, worker, read, disk, bounds>>

EndReload(g) ==
    /\ reloading[g] = "clean"
    /\ dirty' = [dirty EXCEPT ![g] = FALSE]
    /\ reloading' = [reloading EXCEPT ![g] = "idle"]
    /\ UNCHANGED <<up, mem, editing, worker, read, disk, bounds>>

------------------------------------------------------------------------------

Edit(w) ==
    \/ SetSettings(w)
    \/ \E p \in Profile : Add(w, p) \/ Update(w, p)
    \/ \E id \in Ids : Remove(w, id)

SaveStepOf(w) ==
    \/ Snapshot(w)
    \/ Create(w)
    \/ RestrictToOwner(w)
    \/ BeginWrite(w)
    \/ FinishWrite(w)
    \/ Rename(w)
    \/ MarkClean(w)

Next ==
    \/ \E p \in Processes : Start(p) \/ Die(p)
    \/ \E w \in Windows : Edit(w) \/ MarkDirty(w) \/ PressSave(w)
    \/ \E w \in Windows : SaveStepOf(w) \/ SaveFails(w)
    \/ \E g \in Agents : ReadFile(g) \/ Replace(g) \/ EndReload(g)

Spec == Init /\ [][Next]_vars

(* The worker's loop runs for as long as its process, and an edit that began
   on the UI thread is finished; nobody is obliged to start a process. *)
Fairness == \A w \in Windows : WF_vars(SaveStepOf(w)) /\ WF_vars(MarkDirty(w))

------------------------------------------------------------------------------
(* Properties. *)

(* save, store.rs:288-292: whatever fails and whenever a process dies, the
   configuration file is absent or holds one complete document that only its
   owner can read; so every process that is down can start again. *)
FileIsWhole ==
    dir["file"] # None => Form = "whole" /\ private[dir["file"]]

(* add and update, store.rs:206-256: no two profiles of a document have the
   same name, in any process or on disk, after edits, saves, restarts and
   reloads. *)
UniqueNames(doc) == \A p, q \in doc.profiles : p.id = q.id \/ p.name # q.name
NamesUnique ==
    /\ \A p \in Processes : UniqueNames(mem[p])
    /\ UniqueNames(OnDisk)

(* save, store.rs:297-305, and drain, rdt-ui/src/lib.rs:103-105: once nobody
   edits any more and nothing fails any more, pressing Save brings the
   window's document to disk, although a save that was already under way
   had taken an older copy of it. *)
Settled == edits = MaxEdits /\ faults = MaxFaults
SavePressReachesDisk ==
    \A w \in Windows :
        (queued[w] > 0 /\ w \in up /\ Settled) ~> OnDisk = mem[w]

------------------------------------------------------------------------------
(* Statements of the repository that its code does not keep. *)

(* store.rs:86, "True when the in-memory document differs from the file":
   with no edit and no save under way, a window whose document is not the
   file's is dirty. *)
DirtyMeansDifferent ==
    \A w \in up \cap Windows :
        w \notin editing /\ saving[w] = "idle" /\ mem[w] # OnDisk => dirty[w]
==============================================================================
