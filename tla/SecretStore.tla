------------------------------ MODULE SecretStore ------------------------------
(***************************************************************************)
(* The two places secrets are kept in and the store in front of them       *)
(* (rdt-secrets, lib.rs and keystore.rs): which keystore a machine has,    *)
(* storing, reading, deleting, the lenient read that tries the other       *)
(* place, and the migration of the vault into the keystore.                *)
(*                                                                         *)
(* The vault's saving is the subject of SecretVault; here a call on it     *)
(* works, or fails with memory changed and the file not.  The keystore has *)
(* no lock of its own: several callers meet inside of it, and each kind of *)
(* keystore has its own steps.  Secrets may have blanks and line breaks at *)
(* their ends.                                                             *)
(***************************************************************************)
EXTENDS Naturals, Sequences, FiniteSets

CONSTANTS Callers, Names,     \* threads; names of secrets
          NameOrder,          \* the names in the order of a BTreeMap
          Secrets,            \* secrets as a caller gives them
          Bare,               \* [Secrets -> what is left]: without line breaks at the end
          Trimmed,            \* [Secrets -> what is left]: without blanks at either end
          MaxStoreCalls, MaxStoreFaults, Gone, Unsure

ASSUME SecretStoreAssumption ==
    /\ NameOrder \in Seq(Names)
    /\ {NameOrder[i] : i \in DOMAIN NameOrder} = Names /\ Len(NameOrder) = Cardinality(Names)
    /\ {Gone, Unsure, "torn"} \cap Secrets = {} /\ Gone # Unsure
    /\ \A s \in Secrets : Bare[s] # Gone /\ Trimmed[s] # Gone

VARIABLES
    machine,   \* the operating system and what is installed
    ring,      \* [Names -> what the keystore holds: a secret, Gone, "torn"]
    memory,    \* the vault's entries behind the mutex
    stored,    \* those in its file
    open,      \* the vault is unlocked
    todo,      \* [Callers -> the keystore entries still to write or delete]
    doing,     \* [Callers -> what the call is and where it stands]
    clash,     \* callers that met another one at the entry they are at
    known,     \* history: what must be there by the answers given, or Unsure
    moving,    \* history: [Callers -> what the migration took from the vault]
    touched,   \* history: entries somebody else changed during a migration
    storeCalls, storeFaults

storeVars == <<machine, ring, memory, stored, open, todo, doing, clash, known, moving, touched,
               storeCalls, storeFaults>>

Places == {"keystore", "vault"}
NoEntries == [n \in Names |-> Gone]

\* detect: once, when the store is opened.
Machines == [os : {"linux", "macos", "windows", "other"}, ready : BOOLEAN, bus : BOOLEAN]
Keystore ==
    IF machine.os = "windows" /\ machine.ready THEN "dpapi"
    ELSE IF machine.os = "macos" THEN "keychain"
    ELSE IF machine.os = "linux" /\ machine.ready /\ machine.bus THEN "secret-tool"
    ELSE "unavailable"
Available == Keystore # "unavailable"

StoreInit ==
    /\ machine \in Machines
    /\ ring = NoEntries /\ memory = NoEntries /\ stored = NoEntries /\ open = TRUE
    /\ todo = [t \in Callers |-> <<>>] /\ doing = [t \in Callers |-> "nothing"]
    /\ clash = {} /\ known = [p \in Places |-> NoEntries]
    /\ moving = [t \in Callers |-> NoEntries] /\ touched = [t \in Callers |-> {}]
    /\ storeCalls = 0 /\ storeFaults = 0

-------------------------------------------------------------------------------
(* Reading.                                                                 *)

\* A keystore's program prints the secret; line breaks at the end are cut off,
\* all blanks at both ends for the keychain, and nothing for DPAPI.  The
\* beginning of a blob does not decrypt.
DpapiRead(n) == IF ring[n] = "torn" THEN Gone ELSE ring[n]
SecretToolRead(n) == IF ring[n] = Gone THEN Gone ELSE Bare[ring[n]]
KeychainRead(n) == IF ring[n] = Gone THEN Gone ELSE Trimmed[ring[n]]
ReadKeystore(n) ==
    CASE ~Available -> Gone
      [] Keystore = "dpapi" -> DpapiRead(n)
      [] Keystore = "keychain" -> KeychainRead(n)
      [] Keystore = "secret-tool" -> SecretToolRead(n)
ReadVault(n) == IF open THEN memory[n] ELSE Gone
Read(place, n) == IF place = "keystore" THEN ReadKeystore(n) ELSE ReadVault(n)

\* A mutant: the keystore is asked first, whatever is recorded.
ReadKeystoreFirst(place, n) ==
    IF Read("keystore", n) # Gone THEN <<Read("keystore", n), "keystore">>
    ELSE <<Read("vault", n), "vault">>

\* The other place is tried when the recorded one has no answer.
Other(place) == IF place = "keystore" THEN "vault" ELSE "keystore"
ReadLenient(place, n) ==
    IF Read(place, n) # Gone THEN <<Read(place, n), place>>
    ELSE IF Read(Other(place), n) # Gone THEN <<Read(Other(place), n), Other(place)>>
    ELSE <<Gone, place>>

-------------------------------------------------------------------------------
(* Calls.                                                                   *)

\* The names of S in the order of the map they are the keys of.
Before(m, n) == \E i, j \in DOMAIN NameOrder : i < j /\ NameOrder[i] = m /\ NameOrder[j] = n
Lists == UNION {[1..k -> Names] : k \in 0..Len(NameOrder)}
InOrder(list, S) ==
    /\ {list[i] : i \in DOMAIN list} = S
    /\ \A i, j \in DOMAIN list : i < j => Before(list[i], list[j])

Free(t) == todo[t] = <<>>
Counts == storeCalls < MaxStoreCalls /\ storeCalls' = storeCalls + 1
Fault == storeFaults < MaxStoreFaults /\ storeFaults' = storeFaults + 1
Learn(place, n, s) == known' = [known EXCEPT ![place][n] = s]

Entry(t) == Head(todo[t])
Item(n, s) == [name |-> n, secret |-> s]
\* Whoever is at entry n of the keystore now.
At(n) == {u \in Callers : todo[u] # <<>> /\ Entry(u).name = n}

\* The first entry of a list is begun, of a call or after another entry.  What
\* the keystore holds for it is not sure until the call about it returns.
Enters(t, list, answers) ==
    LET next == {list[i].name : i \in {1} \cap DOMAIN list}
        met == UNION {At(n) \ {t} : n \in next}
    IN /\ todo' = [todo EXCEPT ![t] = list]
       /\ clash' = (IF met = {} THEN clash \ {t} ELSE clash \cup met \cup {t})
       /\ known' = [known EXCEPT !["keystore"] =
                       [n \in Names |-> IF n \in next THEN Unsure ELSE answers[n]]]
       /\ touched' = [u \in Callers |->
                         IF u # t THEN touched[u] \cup next
                         ELSE IF Free(t) THEN {n \in Names : At(n) # {}} ELSE touched[t]]

\* store_in the vault and delete there, under its mutex; Gone deletes.  A save
\* that fails leaves the entry in memory changed.
VaultSet(n, s) ==
    /\ open /\ Counts
    /\ s = Gone => memory[n] # Gone
    /\ memory' = [memory EXCEPT ![n] = s]
    /\ \/ stored' = memory' /\ Learn("vault", n, s) /\ UNCHANGED storeFaults
       \/ Fault /\ Learn("vault", n, Unsure) /\ UNCHANGED stored
    /\ UNCHANGED <<machine, ring, open, todo, doing, clash, moving, touched>>

LockStore ==
    /\ open' = FALSE
    /\ UNCHANGED <<machine, ring, memory, stored, todo, doing, clash, known, moving, touched,
                   storeCalls, storeFaults>>
UnlockStore ==
    /\ open' = TRUE /\ memory' = stored
    /\ UNCHANGED <<machine, ring, stored, todo, doing, clash, known, moving, touched,
                   storeCalls, storeFaults>>

\* store, and store_in and delete for the keystore.  store takes the keystore
\* whenever there is one.
KeystoreCall(t, n, s) ==
    /\ Free(t) /\ Available /\ Counts
    /\ Enters(t, <<Item(n, s)>>, known["keystore"])
    /\ doing' = [doing EXCEPT ![t] = "first"]
    /\ moving' = [moving EXCEPT ![t] = NoEntries]
    /\ UNCHANGED <<machine, ring, memory, stored, open, storeFaults>>

\* migrate_vault_to_keystore: the entries are copied under the mutex, and
\* written to the keystore one by one without it.
Migrate(t) ==
    /\ Free(t) /\ Available /\ open /\ Counts
    /\ \E list \in Lists :
          /\ InOrder(list, {n \in Names : memory[n] # Gone})
          /\ Enters(t, [i \in DOMAIN list |-> Item(list[i], memory[list[i]])], known["keystore"])
          /\ doing' = [doing EXCEPT ![t] = IF list = <<>> THEN "migrated" ELSE "first"]
    /\ moving' = [moving EXCEPT ![t] = memory]
    /\ UNCHANGED <<machine, ring, memory, stored, open, storeFaults>>

-------------------------------------------------------------------------------
(* The steps of the keystore calls.                                         *)

StoreSame == UNCHANGED <<machine, memory, stored, open, moving, storeCalls>>
Holds(n, s) == ring' = [ring EXCEPT ![n] = s]
At1(t, place) == todo[t] # <<>> /\ doing[t] = place
Goes(t, place) == doing' = [doing EXCEPT ![t] = place] /\ UNCHANGED <<todo, clash, known, touched>>

\* The call about this entry returned Ok: the next one, or the end of the list.
NextEntry(t) ==
    LET n == Entry(t).name
        answers == [known["keystore"] EXCEPT ![n] = IF t \in clash THEN Unsure ELSE Entry(t).secret]
    IN /\ Enters(t, Tail(todo[t]), answers)
       /\ doing' = [doing EXCEPT ![t] =
                       IF Len(todo[t]) > 1 THEN "first"
                       ELSE IF moving[t] = NoEntries THEN "nothing" ELSE "migrated"]
Returns(t) == NextEntry(t) /\ StoreSame /\ UNCHANGED storeFaults

\* A mutant: the failure is passed over.
FailsIgnored(t) == Fault /\ NextEntry(t) /\ StoreSame

\* `?` ends a call, and a migration, at the first error.
FailsEntry(t) ==
    /\ Fault
    /\ todo' = [todo EXCEPT ![t] = <<>>] /\ doing' = [doing EXCEPT ![t] = "failed"]
    /\ UNCHANGED <<clash, known, touched>> /\ StoreSame

\* secret-tool is one call of a program, which may fail after it had its effect.
SecretTool(t) ==
    /\ At1(t, "first") /\ Keystore = "secret-tool"
    /\ \/ Holds(Entry(t).name, Entry(t).secret) /\ (Returns(t) \/ FailsEntry(t))
       \/ FailsEntry(t) /\ UNCHANGED ring

\* A blob is truncated, written and then restricted to its owner.  Two writers
\* of one file may leave neither's.
DpapiTruncate(t) ==
    /\ At1(t, "first") /\ Keystore = "dpapi" /\ Entry(t).secret # Gone
    /\ \/ Holds(Entry(t).name, "torn") /\ Goes(t, "second") /\ StoreSame /\ UNCHANGED storeFaults
       \/ FailsEntry(t) /\ UNCHANGED ring
DpapiWrite(t) ==
    /\ At1(t, "second") /\ Keystore = "dpapi"
    /\ \/ /\ \E left \in {Entry(t).secret} \cup (IF t \in clash THEN {"torn"} ELSE {}) :
                Holds(Entry(t).name, left)
          /\ Goes(t, "third") /\ StoreSame /\ UNCHANGED storeFaults
       \/ FailsEntry(t) /\ UNCHANGED ring
DpapiRestrict(t) ==
    /\ At1(t, "third")
    /\ Returns(t) \/ FailsEntry(t)
    /\ UNCHANGED ring
DpapiDelete(t) ==
    /\ At1(t, "first") /\ Keystore = "dpapi" /\ Entry(t).secret = Gone
    /\ \/ Holds(Entry(t).name, Gone) /\ Returns(t)
       \/ FailsEntry(t) /\ UNCHANGED ring

\* The old item is deleted, whether or not that works, and the new one added,
\* which the keychain refuses while there is one.
KeychainReplace(t) ==
    /\ At1(t, "first") /\ Keystore = "keychain" /\ Entry(t).secret # Gone
    /\ \/ Holds(Entry(t).name, Gone) /\ UNCHANGED storeFaults
       \/ Fault /\ UNCHANGED ring
    /\ Goes(t, "second") /\ StoreSame
KeychainAdd(t) ==
    /\ At1(t, "second") /\ Keystore = "keychain"
    /\ \/ /\ ring[Entry(t).name] = Gone
          /\ Holds(Entry(t).name, Entry(t).secret) /\ Returns(t)
       \/ FailsEntry(t) /\ UNCHANGED ring

\* A missing item is an error to the keychain.
KeychainDelete(t) ==
    /\ At1(t, "first") /\ Keystore = "keychain" /\ Entry(t).secret = Gone
    /\ \/ ring[Entry(t).name] # Gone /\ Holds(Entry(t).name, Gone) /\ Returns(t)
       \/ FailsEntry(t) /\ UNCHANGED ring

KeystoreStep(t) ==
    \/ SecretTool(t) \/ DpapiTruncate(t) \/ DpapiWrite(t) \/ DpapiRestrict(t) \/ DpapiDelete(t)
    \/ KeychainReplace(t) \/ KeychainAdd(t) \/ KeychainDelete(t)

StoreNext ==
    \/ \E n \in Names, s \in Secrets \cup {Gone} : VaultSet(n, s)
    \/ LockStore \/ UnlockStore
    \/ \E t \in Callers, n \in Names, s \in Secrets \cup {Gone} : KeystoreCall(t, n, s)
    \/ \E t \in Callers : Migrate(t) \/ KeystoreStep(t)

StoreSpec == StoreInit /\ [][StoreNext]_storeVars

-------------------------------------------------------------------------------
(* Properties. *)

\* What a caller was told it stored is what read gives back, up to blanks and
\* line breaks that the keystore's reader cuts off, and the lenient read takes
\* it from the recorded place; what it deleted is not read there again.
\* Whatever failed, met or migrated before: only an entry whose last call
\* failed or met another one is unsure.
StoredIsRead ==
    \A place \in Places, n \in Names :
        LET s == known[place][n] IN
        /\ s = Gone => Read(place, n) = Gone
        /\ s \in Secrets /\ (place = "keystore" \/ open) =>
              /\ Read(place, n) \in {s, Bare[s], Trimmed[s]}
              /\ ReadLenient(place, n) = <<Read(place, n), place>>

\* A migration that reports success has copied every entry it took, unless
\* somebody else wrote or deleted that entry of the keystore since it began.
MigrationIsComplete ==
    \A t \in Callers : doing[t] = "migrated" =>
        \A n \in Names : moving[t][n] # Gone /\ n \notin touched[t] => ring[n] = moving[t][n]
===============================================================================
