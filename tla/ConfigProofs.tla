---------------------------- MODULE ConfigProofs -----------------------------
(***************************************************************************)
(* What ConfigStore guarantees for every number of processes, profiles,    *)
(* names, edits and faults, and for one window that the file is whole;     *)
(* ConfigDocument for every text, profile and number of steps; the bounds  *)
(* on the delays of ReconnectPolicy for every Word and MaxAttempt.         *)
(***************************************************************************)
EXTENDS ConfigStore, ConfigDocument, ReconnectPolicy, FiniteSetTheorems, TLAPS

(* One desktop process at a time: two share the temporary file. *)
OneWindow == \A v, w \in Windows : v = w

(* How far the temporary file has got, at each step of a save. *)
Temporary == content[dir["tmp"]].form

SaveProgress ==
    \A w \in Windows :
        /\ saving[w] \in {"restrict", "write", "finish", "rename"} => dir["tmp"] # None
        /\ saving[w] \in {"restrict", "write", "finish"} => fd[w] = dir["tmp"]
        /\ saving[w] \in {"write", "finish", "rename"} => private[dir["tmp"]]
        /\ saving[w] \in {"restrict", "write"} => Temporary = "empty"
        /\ saving[w] = "finish" => Temporary = "torn"
        /\ saving[w] = "rename" => Temporary = "whole"

(* The two names never refer to one file, so nobody writes to the file the
   configuration is read from. *)
Apart == dir["file"] # None => dir["file"] # dir["tmp"]

WholeInv == TypeOK /\ SaveProgress /\ Apart /\ FileIsWhole
------------------------------------------------------------------------------
LEMMA DefaultIsConfig == Default \in Config
  BY StoreAssumption DEF Default, Config

LEMMA BrokenIsContent ==
    ASSUME NEW form \in {"empty", "torn", "mixed"}
    PROVE  Broken(form) \in Content /\ Broken(form).form = form
  BY DefaultIsConfig DEF Broken, Content

LEMMA WholeIsContent ==
    ASSUME NEW doc \in Config
    PROVE  Whole(doc) \in Content /\ Whole(doc).form = "whole"
  BY DEF Whole, Content

LEMMA OnDiskIsConfig == TypeOK => OnDisk \in Config
  BY DefaultIsConfig DEF TypeOK, OnDisk, Content

(* File::create always finds a file nobody uses: at most one per window is
   open, and two have names. *)
LEMMA FreeInode ==
    ASSUME TypeOK
    PROVE  \E f \in Inodes : f \notin InUse
  <1> DEFINE Linked == {dir["file"], dir["tmp"]}
             Open == {fd[w] : w \in Windows}
  <1>1. InUse = Linked \cup Open
    BY DEF InUse, TypeOK
  <1>2. IsFiniteSet(Open) /\ Cardinality(Open) <= Cardinality(Windows)
    <2>1. fd \in Surjection(Windows, Open)
      BY DEF TypeOK, Surjection
    <2> HIDE DEF Open
    <2> QED BY <2>1, StoreAssumption, FS_Surjection
  <1>3. IsFiniteSet(Linked) /\ Cardinality(Linked) <= 2
    <2> DEFINE F == dir["file"]
               T == dir["tmp"]
    <2>1. IsFiniteSet({F}) /\ Cardinality({F}) = 1
      BY FS_Singleton
    <2>2. /\ IsFiniteSet({F} \cup {T})
          /\ Cardinality({F} \cup {T})
               = IF T \in {F} THEN Cardinality({F}) ELSE Cardinality({F}) + 1
      BY <2>1, FS_AddElement
    <2>3. Linked = {F} \cup {T}
      OBVIOUS
    <2> QED BY <2>1, <2>2, <2>3
  <1>4. Cardinality(Open) \in Nat /\ Cardinality(Linked) \in Nat
        /\ Cardinality(Windows) \in Nat /\ Cardinality(Inodes) \in Nat
    BY <1>2, <1>3, StoreAssumption, FS_CardinalityType
  <1>5. /\ IsFiniteSet(Linked \cup Open)
        /\ Cardinality(Linked \cup Open) <= Cardinality(Windows) + 2
    <2>1. IsFiniteSet(Linked \cup Open)
          /\ Cardinality(Linked \cup Open)
               = Cardinality(Linked) + Cardinality(Open) - Cardinality(Linked \cap Open)
      BY <1>2, <1>3, FS_Union
    <2>2. Cardinality(Linked \cap Open) \in Nat
      BY <1>2, FS_Intersection, FS_CardinalityType
    <2> QED BY <1>2, <1>3, <1>4, <2>1, <2>2
  <1> HIDE DEF Linked, Open
  <1>6. SUFFICES ASSUME Inodes \subseteq InUse PROVE FALSE
    OBVIOUS
  <1>7. Cardinality(Inodes) <= Cardinality(Linked \cup Open)
    BY <1>1, <1>5, <1>6, FS_Subset
  <1>8. Cardinality(Linked \cup Open) \in Nat
    BY <1>5, FS_CardinalityType
  <1> QED
    BY <1>4, <1>5, <1>7, <1>8, StoreAssumption

LEMMA CreateTarget ==
    ASSUME TypeOK, NEW w \in Windows, Create(w)
    PROVE  \E target \in Inodes :
             /\ dir["tmp"] # None => target = dir["tmp"]
             /\ dir["tmp"] = None => target \notin InUse
             /\ saving[w] = "create"
             /\ dir' = [dir EXCEPT !["tmp"] = target]
             /\ fd' = [fd EXCEPT ![w] = target]
             /\ content' = [content EXCEPT ![target] = Broken("empty")]
             /\ private' = [private EXCEPT ![target] = dir["tmp"] # None /\ @]
             /\ saving' = [saving EXCEPT ![w] = "restrict"]
             /\ UNCHANGED <<up, memory, queued, snap, agent, bounds>>
  <1> DEFINE new == CHOOSE f \in Inodes : f \notin InUse
             target == IF dir["tmp"] = None THEN new ELSE dir["tmp"]
  <1>1. new \in Inodes /\ new \notin InUse
    BY FreeInode
  <1>2. target \in Inodes
    BY <1>1 DEF TypeOK
  <1> HIDE DEF new
  <1>3. /\ saving[w] = "create"
        /\ dir' = [dir EXCEPT !["tmp"] = target]
        /\ fd' = [fd EXCEPT ![w] = target]
        /\ content' = [content EXCEPT ![target] = Broken("empty")]
        /\ private' = [private EXCEPT ![target] = dir["tmp"] # None /\ @]
        /\ saving' = [saving EXCEPT ![w] = "restrict"]
        /\ UNCHANGED <<up, memory, queued, snap, agent, bounds>>
    BY DEF Create, new
  <1>4. WITNESS target \in Inodes
  <1> QED
    BY <1>1, <1>2, <1>3

------------------------------------------------------------------------------
(* Type correctness. *)

LEMMA EditIsChange ==
    ASSUME TypeOK, NEW w \in Windows, Edit(w)
    PROVE  \E doc \in Config : Change(w, doc)
  <1> USE DEF Change, memory, worker, agent, disk
  <1>0. mem[w] \in Config /\ edits + 1 \in Nat
    BY StoreAssumption DEF TypeOK, Processes
  <1>1. CASE SetSettings(w)
    <2> DEFINE doc == [mem[w] EXCEPT !.settings = edits + 1]
    <2>1. edits + 1 \in 0..MaxEdits
      BY <1>1, StoreAssumption DEF SetSettings, TypeOK
    <2>2. doc \in Config
      BY <1>0, <2>1 DEF Config
    <2> QED BY <1>1, <2>2 DEF SetSettings
  <1>2. ASSUME NEW p \in Profile, Add(w, p)
        PROVE  \E doc \in Config : Change(w, doc)
    <2> DEFINE doc == [mem[w] EXCEPT !.profiles = @ \cup {p}]
    <2>1. doc \in Config
      BY <1>0 DEF Config
    <2> QED BY <1>2, <2>1 DEF Add
  <1>3. ASSUME NEW p \in Profile, Update(w, p)
        PROVE  \E doc \in Config : Change(w, doc)
    <2> DEFINE doc == [mem[w] EXCEPT !.profiles = {q \in @ : q.id # p.id} \cup {p}]
    <2>1. doc \in Config
      BY <1>0 DEF Config
    <2> QED BY <1>3, <2>1 DEF Update
  <1>4. ASSUME NEW id \in Ids, Remove(w, id)
        PROVE  \E doc \in Config : Change(w, doc)
    <2> DEFINE doc == [mem[w] EXCEPT !.profiles = {q \in @ : q.id # id}]
    <2>1. doc \in Config
      BY <1>0 DEF Config
    <2> QED BY <1>4, <2>1 DEF Remove
  <1> QED
    BY <1>1, <1>2, <1>3, <1>4 DEF Edit

LEMMA TypeInit == Init => TypeOK
  BY StoreAssumption, DefaultIsConfig, BrokenIsContent DEF Init, TypeOK, SaveStep

LEMMA TypeStep == TypeOK /\ [Next]_vars => TypeOK'
  <1> SUFFICES ASSUME TypeOK, [Next]_vars PROVE TypeOK'
    OBVIOUS
  <1> USE StoreAssumption DEF TypeOK, Processes, SaveStep, memory, worker, agent, disk, bounds
  <1>1. ASSUME NEW p \in Processes, Start(p) PROVE TypeOK'
    BY <1>1, OnDiskIsConfig DEF Start
  <1>2. ASSUME NEW p \in Processes, Die(p) PROVE TypeOK'
    BY <1>2 DEF Die
  <1>3. ASSUME NEW w \in Windows, Edit(w) PROVE TypeOK'
    <2>1. PICK doc \in Config : Change(w, doc)
      BY <1>3, EditIsChange
    <2> QED BY <2>1 DEF Change
  <1>4. ASSUME NEW w \in Windows, MarkDirty(w) PROVE TypeOK'
    BY <1>4 DEF MarkDirty
  <1>5. ASSUME NEW w \in Windows, PressSave(w) PROVE TypeOK'
    BY <1>5 DEF PressSave
  <1>6. ASSUME NEW w \in Windows, Snapshot(w) PROVE TypeOK'
    BY <1>6 DEF Snapshot
  <1>7. ASSUME NEW w \in Windows, Create(w) PROVE TypeOK'
    <2>1. PICK target \in Inodes :
             /\ dir' = [dir EXCEPT !["tmp"] = target]
             /\ fd' = [fd EXCEPT ![w] = target]
             /\ content' = [content EXCEPT ![target] = Broken("empty")]
             /\ private' = [private EXCEPT ![target] = dir["tmp"] # None /\ @]
             /\ saving' = [saving EXCEPT ![w] = "restrict"]
             /\ UNCHANGED <<up, memory, queued, snap, agent, bounds>>
      BY <1>7, CreateTarget
    <2> QED BY <2>1, BrokenIsContent
  <1>8. ASSUME NEW w \in Windows, RestrictToOwner(w) PROVE TypeOK'
    BY <1>8 DEF RestrictToOwner, WithTemporary, GiveUp
  <1>9. ASSUME NEW w \in Windows, BeginWrite(w) PROVE TypeOK'
    BY <1>9, BrokenIsContent DEF BeginWrite
  <1>10. ASSUME NEW w \in Windows, FinishWrite(w) PROVE TypeOK'
    <2>1. PICK c \in {Whole(snap[w]), Broken("mixed")} :
             content' = [content EXCEPT ![fd[w]] = c]
      BY <1>10 DEF FinishWrite
    <2>2. c \in Content
      BY <2>1, BrokenIsContent, WholeIsContent
    <2> QED BY <1>10, <2>1, <2>2 DEF FinishWrite
  <1>11. ASSUME NEW w \in Windows, Rename(w) PROVE TypeOK'
    BY <1>11 DEF Rename, WithTemporary, GiveUp
  <1>12. ASSUME NEW w \in Windows, MarkClean(w) PROVE TypeOK'
    BY <1>12 DEF MarkClean
  <1>13. ASSUME NEW w \in Windows, SaveFails(w) PROVE TypeOK'
    BY <1>13 DEF SaveFails, GiveUp
  <1>14. ASSUME NEW g \in Agents, ReadFile(g) PROVE TypeOK'
    BY <1>14, OnDiskIsConfig DEF ReadFile
  <1>15. ASSUME NEW g \in Agents, Replace(g) PROVE TypeOK'
    BY <1>15 DEF Replace
  <1>16. ASSUME NEW g \in Agents, EndReload(g) PROVE TypeOK'
    BY <1>16 DEF EndReload
  <1>17. CASE UNCHANGED vars
    BY <1>17 DEF vars
  <1> QED
    BY <1>1, <1>2, <1>3, <1>4, <1>5, <1>6, <1>7, <1>8, <1>9, <1>10, <1>11, <1>12,
       <1>13, <1>14, <1>15, <1>16, <1>17 DEF Next, SaveStepOf

(* However many windows, agents and faults there are, every variable keeps its
   type: no document outside the format, no counter beyond its bound, no file
   handle outside the file system. *)
THEOREM TypeCorrect == Spec => []TypeOK
  BY TypeInit, TypeStep, PTL DEF Spec

------------------------------------------------------------------------------
(* The file is whole. *)

LEMMA WholeInit == Init => WholeInv
  BY TypeInit DEF WholeInv, Init, SaveProgress, Apart, FileIsWhole

(* Steps that neither save nor die leave all four conjuncts alone. *)
LEMMA WholeElsewhere ==
    ASSUME WholeInv, TypeOK', UNCHANGED <<saving, fd, disk>>
    PROVE  WholeInv'
  BY DEF WholeInv, SaveProgress, Temporary, Apart, FileIsWhole, Form, disk

(* A save that ends, by death or by an error, leaves the temporary file. *)
Abandons ==
    /\ UNCHANGED disk
    /\ \A w \in Windows : saving'[w] = "idle" \/ (saving'[w] = saving[w] /\ fd'[w] = fd[w])

LEMMA GiveUpAbandons ==
    ASSUME TypeOK, NEW w \in Windows, GiveUp(w)
    PROVE  Abandons
  <1>1. UNCHANGED disk
    BY DEF GiveUp
  <1>2. ASSUME NEW v \in Windows
        PROVE  saving'[v] = "idle" \/ (saving'[v] = saving[v] /\ fd'[v] = fd[v])
    BY DEF GiveUp, TypeOK
  <1> QED BY <1>1, <1>2 DEF Abandons

LEMMA WholeAbandoned ==
    ASSUME WholeInv, TypeOK', Abandons
    PROVE  WholeInv'
  BY DEF WholeInv, SaveProgress, Temporary, Apart, FileIsWhole, Form, disk, Abandons

LEMMA WholeStep == OneWindow /\ WholeInv /\ [Next]_vars => WholeInv'
  <1> SUFFICES ASSUME OneWindow, WholeInv, [Next]_vars PROVE WholeInv'
    OBVIOUS
  <1>0. TypeOK /\ TypeOK'
    BY TypeStep DEF WholeInv
  <1> USE DEF memory, worker, agent, disk, bounds
  <1>1. ASSUME NEW p \in Processes, Start(p) PROVE WholeInv'
    BY <1>0, <1>1, WholeElsewhere DEF Start
  <1>2. ASSUME NEW p \in Processes, Die(p) PROVE WholeInv'
    <2>1. ASSUME NEW w \in Windows
          PROVE  saving'[w] = "idle" \/ (saving'[w] = saving[w] /\ fd'[w] = fd[w])
      BY <1>2 DEF Die
    <2>2. UNCHANGED disk
      BY <1>2 DEF Die
    <2> QED BY <1>0, <2>1, <2>2, WholeAbandoned DEF Abandons
  <1>3. ASSUME NEW w \in Windows, Edit(w) PROVE WholeInv'
    BY <1>0, <1>3, EditIsChange, WholeElsewhere DEF Change
  <1>4. ASSUME NEW w \in Windows, MarkDirty(w) PROVE WholeInv'
    BY <1>0, <1>4, WholeElsewhere DEF MarkDirty
  <1>5. ASSUME NEW w \in Windows, PressSave(w) PROVE WholeInv'
    BY <1>0, <1>5, WholeElsewhere DEF PressSave
  <1>6. ASSUME NEW w \in Windows, SaveStepOf(w) \/ SaveFails(w) PROVE WholeInv'
    <2> USE DEF OneWindow
    <2>1. CASE Snapshot(w)
      <3>1. saving'[w] = "create" /\ UNCHANGED disk
        BY <1>0, <1>6, <2>1 DEF Snapshot, TypeOK
      <3> QED
        BY <1>0, <1>6, <3>1 DEF WholeInv, SaveProgress, Apart, FileIsWhole, Form
    <2>2. CASE Create(w)
      <3>1. PICK target \in Inodes :
             /\ dir["tmp"] # None => target = dir["tmp"]
             /\ dir["tmp"] = None => target \notin InUse
             /\ saving[w] = "create"
             /\ dir' = [dir EXCEPT !["tmp"] = target]
             /\ fd' = [fd EXCEPT ![w] = target]
             /\ content' = [content EXCEPT ![target] = Broken("empty")]
             /\ private' = [private EXCEPT ![target] = dir["tmp"] # None /\ @]
             /\ saving' = [saving EXCEPT ![w] = "restrict"]
        BY <1>0, <2>2, CreateTarget
      <3>2. dir["file"] # None => target # dir["file"]
        BY <1>0, <3>1 DEF InUse, WholeInv, Apart, TypeOK
      <3>3. target # None
        BY <3>1, StoreAssumption
      <3>4. dir'["tmp"] = target /\ dir'["file"] = dir["file"]
            /\ saving'[w] = "restrict" /\ fd'[w] = target
        BY <1>0, <3>1 DEF TypeOK
      <3>5. SaveProgress'
        <4>1. content'[target].form = "empty"
          BY <1>0, <3>1, BrokenIsContent DEF TypeOK
        <4> QED BY <1>6, <3>3, <3>4, <4>1 DEF SaveProgress, Temporary
      <3>6. Apart'
        BY <3>2, <3>4 DEF Apart
      <3>7. FileIsWhole'
        BY <1>0, <3>1, <3>2, <3>4 DEF FileIsWhole, Form, WholeInv, TypeOK
      <3> QED BY <1>0, <3>5, <3>6, <3>7 DEF WholeInv
    <2>3. CASE RestrictToOwner(w)
      <3>1. CASE dir["tmp"] = None
        BY <1>0, <1>6, <2>3, <3>1, GiveUpAbandons, WholeAbandoned DEF RestrictToOwner, WithTemporary
      <3>2. CASE dir["tmp"] # None
        <4>1. /\ dir["tmp"] \in Inodes /\ fd[w] = dir["tmp"] /\ Temporary = "empty"
          BY <1>0, <1>6, <2>3, <3>2 DEF RestrictToOwner, WholeInv, TypeOK, SaveProgress
        <4>2. /\ private' = [private EXCEPT ![dir["tmp"]] = TRUE]
              /\ saving' = [saving EXCEPT ![w] = "write"]
              /\ UNCHANGED <<fd, dir, content>>
          BY <2>3, <3>2 DEF RestrictToOwner, WithTemporary
        <4>3. SaveProgress'
          BY <1>0, <1>6, <3>2, <4>1, <4>2 DEF TypeOK, SaveProgress, Temporary
        <4>4. Apart' /\ FileIsWhole'
          BY <1>0, <4>1, <4>2 DEF TypeOK, WholeInv, Apart, FileIsWhole, Form
        <4> QED BY <1>0, <4>3, <4>4 DEF WholeInv
      <3> QED BY <3>1, <3>2
    <2>4. CASE BeginWrite(w)
      <3>1. /\ fd[w] = dir["tmp"] /\ dir["tmp"] \in Inodes
            /\ content[dir["tmp"]].form = "empty" /\ private[dir["tmp"]]
        BY <1>0, <1>6, <2>4 DEF BeginWrite, WholeInv, TypeOK, SaveProgress, Temporary
      <3>2. content'[dir["tmp"]].form = "torn"
        <4>1. content' = [content EXCEPT ![fd[w]] = Broken("torn")]
          BY <1>6, <2>4, <3>1 DEF BeginWrite, Alone
        <4> QED BY <1>0, <3>1, <4>1 DEF WholeInv, TypeOK, Broken
      <3>3. SaveProgress'
        <4>1. saving'[w] = "finish" /\ fd'[w] = fd[w] /\ dir' = dir /\ private' = private
          BY <1>0, <1>6, <2>4 DEF BeginWrite, TypeOK
        <4> QED BY <1>6, <3>1, <3>2, <4>1, StoreAssumption DEF SaveProgress, Temporary
      <3>4. Apart' /\ FileIsWhole'
        BY <1>0, <2>4, <3>1 DEF BeginWrite, TypeOK, WholeInv, Apart, FileIsWhole, Form
      <3> QED BY <1>0, <3>3, <3>4 DEF WholeInv
    <2>5. CASE FinishWrite(w)
      <3>1. /\ fd[w] = dir["tmp"] /\ dir["tmp"] \in Inodes
            /\ content[dir["tmp"]].form = "torn" /\ private[dir["tmp"]]
        BY <1>0, <1>6, <2>5 DEF FinishWrite, WholeInv, TypeOK, SaveProgress, Temporary
      <3>2. content'[dir["tmp"]].form = "whole"
        <4>1. content' = [content EXCEPT ![fd[w]] = Whole(snap[w])]
          BY <1>6, <2>5, <3>1 DEF FinishWrite, Alone
        <4> QED BY <1>0, <3>1, <4>1 DEF WholeInv, TypeOK, Whole
      <3>3. SaveProgress'
        <4>1. saving'[w] = "rename" /\ dir' = dir /\ private' = private
          BY <1>0, <1>6, <2>5 DEF FinishWrite, TypeOK
        <4> QED BY <1>6, <3>1, <3>2, <4>1, StoreAssumption DEF SaveProgress, Temporary
      <3>4. Apart' /\ FileIsWhole'
        BY <1>0, <2>5, <3>1 DEF FinishWrite, TypeOK, WholeInv, Apart, FileIsWhole, Form
      <3> QED BY <1>0, <3>3, <3>4 DEF WholeInv
    <2>6. CASE Rename(w)
      <3>1. CASE dir["tmp"] = None
        BY <1>0, <1>6, <2>6, <3>1, GiveUpAbandons, WholeAbandoned DEF Rename, WithTemporary
      <3>2. CASE dir["tmp"] # None
        <4>1. content[dir["tmp"]].form = "whole" /\ private[dir["tmp"]]
          BY <1>6, <2>6 DEF Rename, WholeInv, SaveProgress, Temporary
        <4>2. /\ dir'["file"] = dir["tmp"] /\ dir'["tmp"] = None
              /\ saving'[w] = "clean"
              /\ UNCHANGED <<content, private>>
          BY <1>0, <1>6, <2>6, <3>2 DEF Rename, WithTemporary, TypeOK
        <4>3. SaveProgress' /\ Apart' /\ FileIsWhole'
          BY <1>6, <3>2, <4>1, <4>2 DEF SaveProgress, Apart, FileIsWhole, Form
        <4> QED BY <1>0, <4>3 DEF WholeInv
      <3> QED BY <3>1, <3>2
    <2>7. CASE MarkClean(w)
      <3>1. Abandons
        BY <1>0, <1>6, <2>7 DEF MarkClean, TypeOK, Abandons
      <3> QED BY <1>0, <3>1, WholeAbandoned
    <2>8. CASE SaveFails(w)
      BY <1>0, <1>6, <2>8, GiveUpAbandons, WholeAbandoned DEF SaveFails
    <2> QED
      BY <1>6, <2>1, <2>2, <2>3, <2>4, <2>5, <2>6, <2>7, <2>8 DEF SaveStepOf
  <1>7. ASSUME NEW g \in Agents, ReadFile(g) \/ Replace(g) \/ EndReload(g) PROVE WholeInv'
    BY <1>0, <1>7, WholeElsewhere DEF ReadFile, Replace, EndReload
  <1>8. CASE UNCHANGED vars
    BY <1>0, <1>8, WholeElsewhere DEF vars
  <1> QED
    BY <1>1, <1>2, <1>3, <1>4, <1>5, <1>6, <1>7, <1>8 DEF Next

(* One window at a time, any number of agents and any failures: the
   configuration file is absent, or one complete document that only its owner
   can read (save, store.rs:288-292). *)
THEOREM WholeTheorem ==
    ASSUME OneWindow
    PROVE  Spec => []FileIsWhole
  <1>1. WholeInv /\ [Next]_vars => WholeInv'
    BY WholeStep
  <1>2. WholeInv => FileIsWhole
    BY DEF WholeInv
  <1> QED BY WholeInit, <1>1, <1>2, PTL DEF Spec
------------------------------------------------------------------------------
(* Names. *)

(* Every document there is, in a process, in a worker's hands, in the agent's,
   and in every file whether a name refers to it or not. *)
NamesInv ==
    /\ \A p \in Processes : UniqueNames(mem[p])
    /\ \A w \in Windows : UniqueNames(snap[w])
    /\ \A g \in Agents : UniqueNames(read[g])
    /\ \A f \in Inodes : UniqueNames(content[f].doc)

LEMMA DefaultIsUnique == UniqueNames(Default)
  BY DEF UniqueNames, Default

LEMMA BrokenIsUnique == ASSUME NEW form PROVE UniqueNames(Broken(form).doc)
  BY DefaultIsUnique DEF Broken

LEMMA OnDiskIsUnique == TypeOK /\ NamesInv => UniqueNames(OnDisk)
  BY DefaultIsUnique DEF TypeOK, NamesInv, OnDisk

(* What the edits refuse, add and update of store.rs:206-256, is what would
   give two profiles one name. *)
LEMMA EditKeepsUnique ==
    ASSUME TypeOK, NEW w \in Windows, UniqueNames(mem[w]), Edit(w)
    PROVE  \E doc : UniqueNames(doc) /\ Change(w, doc)
  <1> DEFINE ps == mem[w].profiles
  <1>0. mem[w] \in Config /\ ps \subseteq Profile
    BY DEF TypeOK, Processes, Config
  <1>1. CASE SetSettings(w)
    <2> DEFINE doc == [mem[w] EXCEPT !.settings = edits + 1]
    <2>1. doc.profiles = ps
      BY <1>0 DEF Config
    <2>2. UniqueNames(doc)
      BY <2>1 DEF UniqueNames
    <2>3. Change(w, doc)
      BY <1>1 DEF SetSettings
    <2> HIDE DEF doc
    <2> QED BY <2>2, <2>3
  <1>2. ASSUME NEW p \in Profile, Add(w, p)
        PROVE  \E doc : UniqueNames(doc) /\ Change(w, doc)
    <2> DEFINE doc == [mem[w] EXCEPT !.profiles = @ \cup {p}]
    <2>1. doc.profiles = ps \cup {p}
      BY <1>0 DEF Config
    <2>2. \A q \in ps : q.name # p.name
      BY <1>0, <1>2 DEF Add, NameTaken, Profile
    <2>3. UniqueNames(doc)
      BY <2>1, <2>2 DEF UniqueNames
    <2>4. Change(w, doc)
      BY <1>2 DEF Add
    <2> HIDE DEF doc
    <2> QED BY <2>3, <2>4
  <1>3. ASSUME NEW p \in Profile, Update(w, p)
        PROVE  \E doc : UniqueNames(doc) /\ Change(w, doc)
    <2> DEFINE doc == [mem[w] EXCEPT !.profiles = {q \in @ : q.id # p.id} \cup {p}]
    <2>1. doc.profiles = {q \in ps : q.id # p.id} \cup {p}
      BY <1>0 DEF Config
    <2>2. \A q \in ps : q.id # p.id => q.name # p.name
      BY <1>0, <1>3 DEF Update, NameTaken, Profile
    <2>3. UniqueNames(doc)
      BY <2>1, <2>2 DEF UniqueNames
    <2>4. Change(w, doc)
      BY <1>3 DEF Update
    <2> HIDE DEF doc
    <2> QED BY <2>3, <2>4
  <1>4. ASSUME NEW id \in Ids, Remove(w, id)
        PROVE  \E doc : UniqueNames(doc) /\ Change(w, doc)
    <2> DEFINE doc == [mem[w] EXCEPT !.profiles = {q \in @ : q.id # id}]
    <2>1. doc.profiles = {q \in ps : q.id # id}
      BY <1>0 DEF Config
    <2>2. UniqueNames(doc)
      BY <2>1 DEF UniqueNames
    <2>3. Change(w, doc)
      BY <1>4 DEF Remove
    <2> HIDE DEF doc
    <2> QED BY <2>2, <2>3
  <1> QED
    BY <1>1, <1>2, <1>3, <1>4 DEF Edit

LEMMA NamesStep == TypeOK /\ NamesInv /\ [Next]_vars => NamesInv'
  <1> SUFFICES ASSUME TypeOK, NamesInv, [Next]_vars PROVE NamesInv'
    OBVIOUS
  <1> USE StoreAssumption DEF TypeOK, Processes, memory, worker, agent, disk, bounds
  <1>1. ASSUME NEW p \in Processes, Start(p) PROVE NamesInv'
    BY <1>1, OnDiskIsUnique DEF Start, NamesInv
  <1>2. ASSUME NEW p \in Processes, Die(p) PROVE NamesInv'
    BY <1>2 DEF Die, NamesInv
  <1>3. ASSUME NEW w \in Windows, Edit(w) PROVE NamesInv'
    <2>1. UniqueNames(mem[w])
      BY DEF NamesInv
    <2>2. PICK doc : UniqueNames(doc) /\ Change(w, doc)
      BY <1>3, <2>1, EditKeepsUnique
    <2> QED BY <2>2 DEF Change, NamesInv
  <1>4. ASSUME NEW w \in Windows, MarkDirty(w) \/ PressSave(w) PROVE NamesInv'
    BY <1>4 DEF MarkDirty, PressSave, NamesInv
  <1>5. ASSUME NEW w \in Windows, Snapshot(w) PROVE NamesInv'
    BY <1>5 DEF Snapshot, NamesInv
  <1>6. ASSUME NEW w \in Windows, Create(w) PROVE NamesInv'
    <2>1. PICK target \in Inodes :
             /\ content' = [content EXCEPT ![target] = Broken("empty")]
             /\ UNCHANGED <<memory, snap, agent>>
      BY <1>6, CreateTarget
    <2> QED BY <2>1, BrokenIsUnique DEF NamesInv
  <1>7. ASSUME NEW w \in Windows, RestrictToOwner(w) \/ Rename(w) \/ MarkClean(w) \/ SaveFails(w)
        PROVE  NamesInv'
    BY <1>7 DEF RestrictToOwner, Rename, MarkClean, SaveFails, WithTemporary, GiveUp, NamesInv
  <1>8. ASSUME NEW w \in Windows, BeginWrite(w) PROVE NamesInv'
    <2>1. PICK form : content' = [content EXCEPT ![fd[w]] = Broken(form)]
      BY <1>8 DEF BeginWrite
    <2>2. UNCHANGED <<memory, snap, agent>>
      BY <1>8 DEF BeginWrite
    <2> QED BY <2>1, <2>2, BrokenIsUnique DEF NamesInv
  <1>9. ASSUME NEW w \in Windows, FinishWrite(w) PROVE NamesInv'
    <2>1. PICK c \in {Whole(snap[w]), Broken("mixed")} :
             content' = [content EXCEPT ![fd[w]] = c]
      BY <1>9 DEF FinishWrite
    <2>2. UniqueNames(c.doc)
      BY <2>1, BrokenIsUnique DEF Whole, NamesInv
    <2>3. UNCHANGED <<memory, snap, agent>>
      BY <1>9 DEF FinishWrite
    <2> QED BY <2>1, <2>2, <2>3 DEF NamesInv
  <1>10. ASSUME NEW g \in Agents, ReadFile(g) PROVE NamesInv'
    BY <1>10, OnDiskIsUnique DEF ReadFile, NamesInv
  <1>11. ASSUME NEW g \in Agents, Replace(g) \/ EndReload(g) PROVE NamesInv'
    BY <1>11 DEF Replace, EndReload, NamesInv
  <1>12. CASE UNCHANGED vars
    BY <1>12 DEF vars, NamesInv
  <1> QED
    BY <1>1, <1>2, <1>3, <1>4, <1>5, <1>6, <1>7, <1>8, <1>9, <1>10, <1>11, <1>12
       DEF Next, SaveStepOf

(* add and update, store.rs:206-256: whatever windows and agents edit, save,
   reload, fail and start again, in any order and with any number of windows
   on one file, no document in a process or on disk has two profiles of one
   name. *)
THEOREM NamesTheorem == Spec => []NamesUnique
  <1>1. Init => NamesInv
    BY DefaultIsUnique, BrokenIsUnique DEF Init, NamesInv
  <1>2. TypeOK /\ NamesInv => NamesUnique
    BY OnDiskIsUnique DEF NamesInv, NamesUnique
  <1> QED BY <1>1, <1>2, NamesStep, TypeCorrect, PTL DEF Spec

------------------------------------------------------------------------------
(* The text of the document. *)

(* What a table of the interface's settings is once its defaults are filled
   in. *)
FilledUi == [page : {"", "dashboard", "logs"}, scale : {"100", "125"}]

(* A store: a document of this build with every default filled in. *)
IsStore(c) ==
    /\ c = [schema_version |-> Current, ui |-> c.ui, profiles |-> c.profiles]
    /\ c.ui \in FilledUi

DocumentInv ==
    /\ document # NoText => document.ui \in UiText \cup {NoUi}
    /\ IsStore(config) /\ IsStore(written)
    /\ own => document = Encoded(written)

(* The defaults of settings.rs: filling them in leaves no field out, and a
   second time changes nothing. *)
LEMMA FillsEveryField ==
    ASSUME NEW ui \in UiText \cup {NoUi}
    PROVE  Filled(ui) \in FilledUi
  <1>1. CASE ui = NoUi
    BY <1>1 DEF Filled, UiDefault, FilledUi
  <1>2. CASE ui \in UiText
    <2>1. /\ ui.page \in {"absent", "", "dashboard", "logs"}
          /\ ui.scale \in {"absent", "100", "125"}
      BY <1>2 DEF UiText
    <2> QED BY <1>1, <2>1 DEF Filled, FilledUi
  <1> QED BY <1>1, <1>2

LEMMA FilledOnce ==
    ASSUME NEW ui \in FilledUi
    PROVE  ui \in UiText /\ Filled(ui) = ui
  <1>1. /\ ui = [page |-> ui.page, scale |-> ui.scale]
        /\ ui.page \in {"", "dashboard", "logs"} /\ ui.scale \in {"100", "125"}
    BY DEF FilledUi
  <1>2. ui \in UiText
    BY <1>1 DEF UiText
  <1>3. ui # NoUi
    <2>1. NoUi.page = "none"
      BY DEF NoUi
    <2> QED BY <1>1, <2>1
  <1> QED BY <1>1, <1>2, <1>3 DEF Filled

LEMMA DecodedIsStore ==
    ASSUME NEW text, text.ui \in UiText \cup {NoUi}
    PROVE  IsStore(Decoded(text))
  BY FillsEveryField DEF IsStore, Decoded, Stamp

(* to_toml and the parse of load are inverse on stores. *)
LEMMA EncodedReloads ==
    ASSUME NEW c, IsStore(c)
    PROVE  /\ Loadable(Encoded(c)) /\ Decoded(Encoded(c)) = c
           /\ Encoded(c).version = Current /\ Encoded(c).ui \in UiText
  <1>1. c.ui \in UiText /\ Filled(c.ui) = c.ui
    BY FilledOnce DEF IsStore
  <1>2. c.schema_version = 1
    BY DEF IsStore, Current
  <1>3. Version(Encoded(c)) = 1
    BY <1>2 DEF Version, Encoded
  <1> QED BY <1>1, <1>2, <1>3 DEF IsStore, Loadable, Encoded, Decoded, Stamp, Current

LEMMA DocumentInductive == DocumentInv /\ [DocumentNext]_documentVars => DocumentInv'
  <1> SUFFICES ASSUME DocumentInv, [DocumentNext]_documentVars PROVE DocumentInv'
    OBVIOUS
  <1> USE DEF Bounded
  <1>1. ASSUME NEW text \in Documents, WriteByHand(text) PROVE DocumentInv'
    <2>1. text.ui \in UiText \cup {NoUi}
      BY DocumentAssumption DEF Text
    <2> QED BY <1>1, <2>1 DEF WriteByHand, DocumentInv
  <1>2. IsStore(Defaults)
    BY DEF IsStore, Defaults, UiDefault, FilledUi
  <1>3. document # NoText => IsStore(Decoded(document))
    BY DecodedIsStore DEF DocumentInv
  <1>4. CASE LoadStore
    BY <1>2, <1>3, <1>4 DEF LoadStore, DocumentInv
  <1>5. CASE LoadFails
    BY <1>2, <1>5 DEF LoadFails, DocumentInv
  <1>6. CASE ReloadStore
    BY <1>2, <1>3, <1>6 DEF ReloadStore, DocumentInv
  <1>7. CASE SaveDocument
    <2>1. document' = Encoded(config) /\ written' = config /\ config' = config
      BY <1>7 DEF SaveDocument
    <2>2. Encoded(config).ui \in UiText
      BY EncodedReloads DEF DocumentInv
    <2> QED BY <2>1, <2>2 DEF DocumentInv
  <1>8. CASE Quit
    BY <1>8 DEF Quit, DocumentInv
  <1>9. ASSUME NEW c, IsStore(c), Changed(c) PROVE DocumentInv'
    BY <1>9 DEF Changed, DocumentInv
  <1>10. CASE SetUi([page |-> "logs", scale |-> "125"])
    <2> DEFINE ui == [page |-> "logs", scale |-> "125"]
    <2>1. ui \in FilledUi
      BY DEF FilledUi
    <2>2. Changed([config EXCEPT !.ui = ui])
      BY <1>10 DEF SetUi
    <2> HIDE DEF ui
    <2>3. IsStore([config EXCEPT !.ui = ui])
      BY <2>1 DEF DocumentInv, IsStore
    <2> QED BY <1>9, <2>2, <2>3
  <1>11. ASSUME NEW p \in Edited, AddProfile(p) \/ UpdateProfile(p) \/ RemoveProfile(p.id)
         PROVE  DocumentInv'
    <2>1. \A profiles : IsStore([config EXCEPT !.profiles = profiles])
      BY DEF DocumentInv, IsStore
    <2>2. PICK profiles : Changed([config EXCEPT !.profiles = profiles])
      BY <1>11 DEF AddProfile, UpdateProfile, RemoveProfile
    <2> QED BY <1>9, <2>1, <2>2
  <1>12. CASE UNCHANGED documentVars
    BY <1>12 DEF documentVars, DocumentInv
  <1> QED
    BY <1>1, <1>4, <1>5, <1>6, <1>7, <1>8, <1>10, <1>11, <1>12 DEF DocumentNext

(* load and save, store.rs:106-137 and 297-305, migrate, migrate.rs:37-64: for
   every text that others may put in the file and every profile the process
   edits, what it saves is of the version of this build and loads again as
   the store that was saved. *)
THEOREM SavedTheorem == DocumentSpec => []SavedReloads
  <1>1. DocumentInit => DocumentInv
    <2> SUFFICES ASSUME DocumentInit PROVE DocumentInv
      OBVIOUS
    <2>1. IsStore(Defaults)
      BY DEF IsStore, Defaults, UiDefault, FilledUi
    <2>2. document # NoText => document.ui \in UiText \cup {NoUi}
      BY DocumentAssumption DEF DocumentInit, Text
    <2> QED BY <2>1, <2>2 DEF DocumentInit, DocumentInv
  <1>2. DocumentInv => SavedReloads
    BY EncodedReloads DEF DocumentInv, SavedReloads
  <1> QED BY <1>1, <1>2, DocumentInductive, PTL DEF DocumentSpec

------------------------------------------------------------------------------
(* Delays. *)

(* saturating_mul by the factor, proto.rs:547-550, never makes a number
   smaller. *)
LEMMA DoubledGrows ==
    ASSUME NEW x \in Numbers, NEW n \in Nat \ {0}
    PROVE  Doubled(x, n) \in Numbers /\ Doubled(x, n) >= x
<1>1. Factor(n) \in {1, 2, 4, 8, 16, 32, 64}
    <2> DEFINE i == Smaller(n, 7)
    <2>1. i \in 1..7
        BY DEF Smaller
    <2>2. \A j \in 1..7 : <<1, 2, 4, 8, 16, 32, 64>>[j] \in {1, 2, 4, 8, 16, 32, 64}
        OBVIOUS
    <2> QED
        BY <2>1, <2>2 DEF Factor
<1>2. x * Factor(n) \in Nat /\ x * Factor(n) >= x
    BY <1>1 DEF Numbers
<1> QED
    BY <1>2, WordAssumption DEF Doubled, Smaller, Numbers

(* The base of a delay lies between the first bound and the cap. *)
LEMMA BaseInBounds ==
    ASSUME NEW p \in Policy, NEW n \in Nat \ {0}
    PROVE  /\ Base(p, n) \in Numbers
           /\ p.initial_backoff_secs <= Base(p, n) /\ Base(p, n) <= Cap(p)
           /\ Cap(p) \in Numbers
<1>1. p.initial_backoff_secs \in Numbers /\ p.max_backoff_secs \in Numbers
    BY DEF Policy
<1>2. /\ Doubled(p.initial_backoff_secs, n) \in Numbers
      /\ Doubled(p.initial_backoff_secs, n) >= p.initial_backoff_secs
    BY <1>1, DoubledGrows
<1> QED
    BY <1>1, <1>2 DEF Base, Cap, Smaller, Larger, Numbers

(* The jitter, proto.rs:553, is at most three quarters of the base. *)
LEMMA JitterInBounds ==
    ASSUME NEW base \in Nat, NEW n \in Nat
    PROVE  Jitter(base, n) \in Nat /\ 4 * Jitter(base, n) <= 3 * base
<1> DEFINE q == base \div 4
<1>1. q \in Nat /\ 4 * q <= base
    OBVIOUS
<1>2. n % 4 \in {0, 1, 2, 3}
    OBVIOUS
<1> HIDE DEF q
<1>3. q * (n % 4) \in Nat /\ 4 * (q * (n % 4)) <= 3 * base
    BY <1>1, <1>2
<1> QED
    BY <1>3 DEF Jitter, q

(* A sum that does not overflow is what the addition gives. *)
LEMMA RemainderOfSmall ==
    ASSUME NEW n \in Nat, NEW w \in Nat \ {0}, n < w
    PROVE  n % w = n
OBVIOUS

(* delay_for, proto.rs:540-557, of every policy and attempt. *)
LEMMA DelayOfPolicy ==
    ASSUME NEW p \in Policy, NEW n \in Attempts, Retries(p, n)
    PROVE  /\ DelayFor(p, n) \in 0..Cap(p)
           /\ Fits(p) => DelayFor(p, n) >= p.initial_backoff_secs
           /\ Fits(p) /\ ValidPolicy(p) => DelayFor(p, n) \in 1..p.max_backoff_secs
<1> DEFINE base == Base(p, n)
           jitter == Jitter(base, n)
           sum == (base + jitter) % Word
<1>1. n \in Nat \ {0}
    BY WordAssumption DEF Attempts, Retries
<1>2. p.initial_backoff_secs \in Nat /\ p.max_backoff_secs \in Nat
    BY DEF Policy, Numbers
<1>3. /\ base \in Nat /\ base < Word /\ Cap(p) \in Nat
      /\ p.initial_backoff_secs <= base /\ base <= Cap(p)
    BY <1>1, BaseInBounds, WordAssumption DEF Numbers
<1>4. jitter \in Nat /\ 4 * jitter <= 3 * base
    BY <1>1, <1>3, JitterInBounds
<1>5. sum \in Nat
    BY <1>3, <1>4, WordAssumption
<1>6. Fits(p) => sum >= base
    <2> SUFFICES ASSUME Fits(p) PROVE sum >= base
        OBVIOUS
    <2>1. 4 * (base + jitter) <= 7 * Cap(p)
        BY <1>3, <1>4
    <2>2. base + jitter < Word
        BY <2>1, <1>3, <1>4, WordAssumption DEF Fits
    <2>3. sum = base + jitter
        BY <2>2, <1>3, <1>4, WordAssumption, RemainderOfSmall
    <2> QED
        BY <2>3, <1>3, <1>4
<1>7. DelayFor(p, n) = Smaller(sum, Larger(p.max_backoff_secs, base))
    BY DEF DelayFor
<1> HIDE DEF base, jitter, sum
<1>8. Larger(p.max_backoff_secs, base) \in base..Cap(p)
    BY <1>2, <1>3 DEF Larger, Cap
<1>9. DelayFor(p, n) \in 0..Cap(p)
    BY <1>3, <1>5, <1>7, <1>8 DEF Smaller
<1>10. Fits(p) => DelayFor(p, n) >= p.initial_backoff_secs
    BY <1>2, <1>3, <1>5, <1>6, <1>7, <1>8 DEF Smaller
<1>11. ValidPolicy(p) => Cap(p) = p.max_backoff_secs /\ p.initial_backoff_secs > 0
    BY <1>2 DEF ValidPolicy, Cap, Larger
<1> QED
    BY <1>2, <1>3, <1>9, <1>10, <1>11

(* The policy does not change and the attempts stay within their bound. *)
RetryTypeOK == policy \in Policy /\ attempt \in Attempts

(* next_retry_delay, lib.rs:315-320 of rdt-session: the count of a session that
   retries. *)
LEMMA RetryTyped == RetrySpec => []RetryTypeOK
<1>1. RetryInit => RetryTypeOK
    BY WordAssumption DEF RetryInit, RetryTypeOK, Attempts
<1>2. RetryTypeOK /\ [NextAttempt]_retryVars => RetryTypeOK'
    BY WordAssumption DEF RetryTypeOK, NextAttempt, retryVars, Attempts
<1> QED
    BY <1>1, <1>2, PTL DEF RetrySpec

(* delay_for, proto.rs:540-557, for numbers of every width: every wait of
   every session is within its bounds. *)
THEOREM DelaysAreBounded == RetrySpec => []DelayInBounds
<1>1. RetryTypeOK => DelayInBounds
    <2> SUFFICES ASSUME RetryTypeOK, Retries(policy, attempt)
                 PROVE  /\ DelayFor(policy, attempt) \in 0..Cap(policy)
                        /\ Fits(policy) =>
                              DelayFor(policy, attempt) >= policy.initial_backoff_secs
                        /\ Fits(policy) /\ ValidPolicy(policy) =>
                              DelayFor(policy, attempt) \in 1..policy.max_backoff_secs
        BY DEF DelayInBounds
    <2>1. policy \in Policy /\ attempt \in Attempts
        BY DEF RetryTypeOK
    <2> QED
        BY <2>1, DelayOfPolicy
<1> QED
    BY <1>1, RetryTyped, PTL
==============================================================================
