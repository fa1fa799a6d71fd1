---------------------------- MODULE SecretVault ----------------------------
(***************************************************************************)
(* The credential store of runtime/secrets.ts with the table that          *)
(* runtime/credentials.ts keeps beside it: one map of secrets, among them  *)
(* the control token, that is kept in the vault of the operating system or *)
(* else in a file, with a marker that says which.                          *)
(*                                                                         *)
(* Every method is synchronous, so a request is one step; what interferes  *)
(* is the vault, which may be locked, and the death of the process between *)
(* two writes.  Labels, providers and fingerprints are left out, and so is *)
(* a store whose text was damaged from outside, which stops the start.     *)
(***************************************************************************)
EXTENDS Naturals, FiniteSets

CONSTANTS
  Names,      \* references of credentials
  Values,     \* what is saved under them
  NoValue,
  Tokens,     \* control tokens that may be minted
  NoToken,
  Faults      \* "locks": the vault may be locked while the coordinator runs
              \* "drops": the vault may accept a write and store nothing
              \* "dies": the process may die within a request

ASSUME VaultAssumption ==
  /\ NoValue \notin Values /\ NoToken \notin Tokens
  /\ Faults \subseteq {"locks", "drops", "dies"}

VARIABLES
  disk,       \* what is stored: in the vault, in the file, and the marker
  reachable,  \* the vault can be read and written
  up,         \* the coordinator runs
  values,     \* SecretStore.values while it does
  rows,       \* the references in the table credentials
  (* what has happened so far *)
  served,     \* the token the coordinator has first run with
  saved,      \* what the last request about a credential may have left
  forked      \* a request was answered that left the vault with another store
              \* than the file

vars == <<disk, reachable, up, values, rows, served, saved, forked>>

Contents == Values \cup {NoValue}
Stored   == [token : Tokens \cup {NoToken}, key : [Names -> Contents]]
Nothing  == [token |-> NoToken, key |-> [n \in Names |-> NoValue]]

TypeOK ==
  /\ disk \in [vault : Stored, file : Stored, marker : {"none", "vault", "file"}]
  /\ reachable \in BOOLEAN /\ up \in BOOLEAN /\ forked \in BOOLEAN
  /\ values \in Stored
  /\ rows \subseteq Names
  /\ served \in Tokens \cup {NoToken}
  /\ saved \in [Names -> SUBSET Contents]

Init ==
  /\ disk = [vault |-> Nothing, file |-> Nothing, marker |-> "none"]
  /\ reachable \in BOOLEAN
  /\ up = FALSE /\ values = Nothing
  /\ rows = {}
  /\ served = NoToken
  /\ saved = [n \in Names |-> {NoValue}]
  /\ forked = FALSE

-----------------------------------------------------------------------------
(* Storing.                                                                *)

(* Mutant: the marker is not written with the file. *)
InFile_Unmarked(v) == [disk EXCEPT !.file = v, !.marker = ""]

InVault(v) == [vault |-> v, file |-> Nothing, marker |-> "vault"]
InFile(v)  == [disk EXCEPT !.file = v, !.marker = "file"]

(* save(): what it may leave.  The file goes when the vault has handed the *)
(* new store back; else the file is written, and the vault keeps what it   *)
(* had, or already has the new store too.                                  *)
Saves(v) ==
  (IF reachable THEN {InVault(v)} ELSE {InFile(v)}) \cup
  (IF reachable /\ "drops" \in Faults THEN {InFile(v)} ELSE {}) \cup
  (IF reachable /\ "locks" \in Faults THEN {[InFile(v) EXCEPT !.vault = v]} ELSE {})

(* What is left if the process dies in it: between two of its writes, or   *)
(* after the last.                                                         *)
Leaves(v) ==
  Saves(v) \cup
  (IF reachable THEN {[disk EXCEPT !.vault = v], [disk EXCEPT !.vault = v, !.marker = "vault"]}
   ELSE {[disk EXCEPT !.file = v]})

Forked(d) == d.vault # Nothing /\ d.file # Nothing /\ d.vault # d.file

Becomes(d) ==
  /\ disk' = d
  /\ forked' = (forked \/ Forked(d))

-----------------------------------------------------------------------------
(* Starting.                                                               *)

HasKey(v, n) == v.key[n] # NoValue

FromVault == reachable /\ disk.vault # Nothing
Loaded    == IF FromVault THEN disk.vault ELSE disk.file

(* Mutant: an unreachable vault counts as an empty one.                    *)
MayStart_Always == TRUE

(* The constructor refuses to start empty if the marker names a vault.     *)
MayStart == FromVault \/ disk.file # Nothing \/ disk.marker # "vault"

(* Mutant: only secrets that are not there yet, none, get a row.           *)
Adopted_None(v) == {}

(* Credentials.adopt(): every secret gets a row.                           *)
Adopted(v) == {n \in Names : HasKey(v, n)}

(* The constructors of SecretStore and Credentials.                        *)
Start ==
  /\ ~ up /\ MayStart
  /\ up' = TRUE
  /\ IF Loaded # Nothing
     THEN /\ values' = Loaded
          /\ Becomes([disk EXCEPT !.marker = IF FromVault THEN "vault" ELSE "file"])
     ELSE \E t \in Tokens \ {served} :
            /\ values' = [Nothing EXCEPT !.token = t]
            /\ \E d \in Saves(values') : Becomes(d)
  /\ rows' = rows \cup Adopted(values')
  /\ served' = IF served = NoToken THEN values'.token ELSE served
  /\ UNCHANGED <<reachable, saved>>

Stop ==
  /\ up
  /\ up' = FALSE /\ values' = Nothing
  /\ UNCHANGED <<disk, reachable, rows, served, saved, forked>>

(* A desktop session begins or ends, or the vault is locked or unlocked.   *)
VaultToggles ==
  /\ ~ up \/ "locks" \in Faults
  /\ reachable' = ~ reachable
  /\ UNCHANGED <<disk, up, values, rows, served, saved, forked>>

-----------------------------------------------------------------------------
(* Requests.                                                               *)

Holding(n, x) == [values EXCEPT !.key[n] = x]

(* A request that leaves x under n and the rows rs and is answered, or the *)
(* death of the process in the middle of it.                               *)
Request(n, x, rs) ==
  /\ up
  /\ \/ /\ values' = Holding(n, x)
        /\ \E d \in Saves(values') : Becomes(d)
        /\ rows' = rs
        /\ saved' = [saved EXCEPT ![n] = {x}]
        /\ up' = up
     \/ /\ "dies" \in Faults
        /\ disk' \in Leaves(Holding(n, x))
        /\ saved' = [saved EXCEPT ![n] = @ \cup {x}]
        /\ up' = FALSE /\ values' = Nothing
        /\ UNCHANGED <<rows, forked>>
  /\ UNCHANGED <<reachable, served>>

(* The row is inserted after the secret is stored.                         *)
Create(n, x) == n \notin rows /\ Request(n, x, rows \cup {n})

Rotate(n, x) == n \in rows /\ Request(n, x, rows)

(* Mutant: the row goes and the secret stays. *)
Remove_RowOnly(n) ==
  /\ up /\ n \in rows
  /\ rows' = rows \ {n}
  /\ saved' = [saved EXCEPT ![n] = {NoValue}]
  /\ UNCHANGED <<disk, reachable, up, values, served, forked>>

(* The secret goes before its row; without a secret there is nothing to    *)
(* save.                                                                   *)
Remove(n) ==
  /\ n \in rows
  /\ \/ HasKey(values, n) /\ Request(n, NoValue, rows \ {n})
     \/ /\ up /\ ~ HasKey(values, n)
        /\ rows' = rows \ {n}
        /\ saved' = [saved EXCEPT ![n] = {NoValue}]
        /\ UNCHANGED <<disk, reachable, up, values, served, forked>>

-----------------------------------------------------------------------------
Next ==
  \/ Start \/ Stop \/ VaultToggles
  \/ \E n \in Names :
       \/ Remove(n)
       \/ \E x \in Values : Create(n, x) \/ Rotate(n, x)

Spec == Init /\ [][Next]_vars

-----------------------------------------------------------------------------
(* Properties.                                                             *)

(* CHANGELOG "An OS vault that cannot be reached no longer destroys the    *)
(* credentials it holds": the token that every paired computer and every   *)
(* agent was given stays the token, whatever is locked or lost and         *)
(* whichever request is torn.  A death within a start is not modelled.     *)
TokenKept == up => values.token = served

(* No credential is lost, changed or brought back by stops, starts, deaths *)
(* and locked vaults, as long as the vault was never left with another     *)
(* store than the file.                                                    *)
KeysKept == up /\ ~ forked => \A n \in Names : values.key[n] \in saved[n]

(* credentials.ts "become manageable credentials instead of invisible      *)
(* orphans": no secret is without its row.                                 *)
NoOrphanSecret == up => \A n \in Names : HasKey(values, n) => n \in rows

(* The same as KeysKept without the condition.                             *)
KeysAlwaysKept == up => \A n \in Names : values.key[n] \in saved[n]
=============================================================================
