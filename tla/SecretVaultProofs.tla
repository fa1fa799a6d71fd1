------------------------- MODULE SecretVaultProofs -------------------------
(***************************************************************************)
(* Theorems about SecretVault, for any credentials, values and tokens and  *)
(* every fault.                                                            *)
(*                                                                         *)
(* IInv adds to the properties what is on disk: every store there has the  *)
(* token the coordinator first ran with (Tokened); once there was one, the *)
(* file is there or the marker names the vault, so that no start mints     *)
(* another (Found); and as long as vault and file were not left with       *)
(* different stores, what they hold was saved, and is what the coordinator *)
(* works with (Agreed).                                                    *)
(***************************************************************************)
EXTENDS SecretVault, TLAPS

OnDisk(d) == {s \in {d.vault, d.file} : s # Nothing}

Tokened ==
  /\ \A s \in OnDisk(disk) : s.token = served
  /\ OnDisk(disk) # {} \/ up => served # NoToken

Found == served # NoToken => disk.file # Nothing \/ disk.marker = "vault"

Fresh == served = NoToken => \A n \in Names : saved[n] = {NoValue}

Holds(s, n) == s.key[n] \in saved[n]

Agreed ==
  ~ forked => \A s \in OnDisk(disk) :
    /\ \A n \in Names : Holds(s, n)
    /\ up => s = values

IInv ==
  /\ TypeOK /\ TokenKept /\ KeysKept /\ NoOrphanSecret
  /\ Tokened /\ Found /\ Fresh /\ Agreed

Disk == [vault : Stored, file : Stored, marker : {"none", "vault", "file"}]

-----------------------------------------------------------------------------
(* The empty store is a store, and it is the only one without a token that *)
(* is ever compared.                                                       *)
LEMMA NothingType ==
  /\ Nothing \in Stored /\ Nothing.token = NoToken
  /\ \A n \in Names : Nothing.key[n] = NoValue
PROOF
  BY DEF Nothing, Stored, Contents

(* What a save of v may leave is v in the vault alone, or v in the file    *)
(* with the vault as it was or with v in it too.                           *)
LEMMA SavesLeave ==
  ASSUME disk \in Disk, NEW v \in Stored, v # Nothing, NEW d \in Saves(v)
  PROVE  /\ d \in Disk
         /\ \/ d.vault = v /\ d.file = Nothing /\ d.marker = "vault"
            \/ d.file = v /\ d.marker = "file" /\ d.vault \in {v, disk.vault}
PROOF
<1>1. disk.vault \in Stored /\ disk = [vault |-> disk.vault, file |-> disk.file,
                                      marker |-> disk.marker]
  BY DEF Disk
<1>2. CASE d = InVault(v)
  BY <1>2, NothingType DEF InVault, Disk
<1>3. CASE d = InFile(v)
  BY <1>1, <1>3 DEF InFile, Disk
<1>4. CASE d = [InFile(v) EXCEPT !.vault = v]
  <2>1. d = [vault |-> v, file |-> v, marker |-> "file"]
    BY <1>1, <1>4 DEF InFile
  <2> QED
    BY <2>1 DEF Disk
<1> QED
  BY <1>2, <1>3, <1>4 DEF Saves

(* A death in the middle of it leaves that, or the old file, and nowhere   *)
(* anything but v and what was there.                                      *)
LEMMA DeathLeaves ==
  ASSUME disk \in Disk, NEW v \in Stored, v # Nothing, NEW d \in Leaves(v)
  PROVE  /\ d \in Disk
         /\ OnDisk(d) \subseteq OnDisk(disk) \cup {v} /\ OnDisk(d) # {}
         /\ d.file # Nothing \/ d.marker \in {"vault", disk.marker}
         /\ d.file # Nothing \/ d.marker = "vault" \/ d.file = disk.file
PROOF
<1>1. CASE d \in Saves(v)
  BY <1>1, SavesLeave DEF OnDisk
<1>2. CASE d = [disk EXCEPT !.vault = v]
  BY <1>2 DEF OnDisk, Disk
<1>3. CASE d = [disk EXCEPT !.vault = v, !.marker = "vault"]
  BY <1>3 DEF OnDisk, Disk
<1>4. CASE d = [disk EXCEPT !.file = v]
  BY <1>4 DEF OnDisk, Disk
<1> QED
  BY <1>1, <1>2, <1>3, <1>4 DEF Leaves

(* The map of secrets with x under n.                                      *)
LEMMA HoldingType ==
  ASSUME values \in Stored, NEW n \in Names, NEW x \in Contents
  PROVE  /\ Holding(n, x) \in Stored
         /\ Holding(n, x).token = values.token
         /\ Holding(n, x).key[n] = x
         /\ \A m \in Names \ {n} : Holding(n, x).key[m] = values.key[m]
PROOF
  BY DEF Holding, Stored

-----------------------------------------------------------------------------
(* A request that is answered or cut off keeps the invariant, if its rows  *)
(* have the secret it saves.                                               *)
LEMMA RequestKeeps ==
  ASSUME IInv, NEW n \in Names, NEW x \in Contents, NEW rs \in SUBSET Names,
         rows \ {n} \subseteq rs, x # NoValue => n \in rs,
         Request(n, x, rs)
  PROVE  IInv'
PROOF
<1> DEFINE v == Holding(n, x)
<1>1. /\ v \in Stored /\ v.token = served /\ v # Nothing /\ v.key[n] = x
      /\ \A m \in Names \ {n} : v.key[m] = values.key[m]
  <2>1. up /\ values.token = served /\ served # NoToken
    BY DEF IInv, Request, TokenKept, Tokened
  <2> QED
    BY <2>1, HoldingType, NothingType DEF IInv, TypeOK
<1>2. up /\ disk \in Disk /\ values \in Stored /\ served # NoToken /\ values.token = served
  BY DEF IInv, Request, TypeOK, Disk, Tokened, TokenKept
<1>3. UNCHANGED <<reachable, served>>
  BY DEF Request
<1>4. ~ forked => \A m \in Names : values.key[m] \in saved[m]
  BY <1>2 DEF IInv, KeysKept
<1>5. \A m \in Names : values.key[m] # NoValue => m \in rows
  BY <1>2 DEF IInv, NoOrphanSecret, HasKey
<1>6. saved \in [Names -> SUBSET Contents]
  BY DEF IInv, TypeOK
<1>7. CASE /\ values' = v
           /\ \E d \in Saves(values') : Becomes(d)
           /\ rows' = rs
           /\ saved' = [saved EXCEPT ![n] = {x}]
           /\ up' = up
  <2>1. PICK d \in Saves(v) : Becomes(d)
    BY <1>7
  <2>2. /\ disk' = d /\ d \in Disk /\ forked' = (forked \/ Forked(d))
        /\ \/ d.vault = v /\ d.file = Nothing /\ d.marker = "vault"
           \/ d.file = v /\ d.marker = "file" /\ d.vault \in {v, disk.vault}
    BY <1>1, <1>2, <2>1, SavesLeave DEF Becomes
  <2>3. saved' \in [Names -> SUBSET Contents] /\ saved'[n] = {x}
        /\ \A m \in Names \ {n} : saved'[m] = saved[m]
    BY <1>6, <1>7
  <2>4. TypeOK'
    BY <1>1, <1>3, <1>7, <2>2, <2>3 DEF IInv, TypeOK, Disk, Forked
  <2>5. TokenKept'
    BY <1>1, <1>3, <1>7 DEF TokenKept
  <2>6. ~ forked' => \A m \in Names : v.key[m] \in saved'[m]
    BY <1>1, <1>4, <2>2, <2>3 DEF IInv, TypeOK
  <2>7. KeysKept'
    BY <1>7, <2>6 DEF KeysKept
  <2>8. NoOrphanSecret'
    BY <1>1, <1>5, <1>7 DEF NoOrphanSecret, HasKey
  <2>9. OnDisk(d) \subseteq OnDisk(disk) \cup {v}
    BY <2>2 DEF OnDisk
  <2>10. Tokened'
    BY <1>1, <1>2, <1>3, <2>2, <2>9 DEF IInv, Tokened
  <2>11. Found' /\ Fresh'
    BY <1>1, <1>2, <1>3, <2>2 DEF Found, Fresh
  <2>12. ~ Forked(d) => OnDisk(d) = {v}
    BY <1>1, <2>2 DEF Forked, OnDisk
  <2>13. Agreed'
    BY <1>7, <2>2, <2>6, <2>12 DEF Agreed, Holds
  <2> QED
    BY <2>4, <2>5, <2>7, <2>8, <2>10, <2>11, <2>13 DEF IInv
<1>8. CASE /\ disk' \in Leaves(v)
           /\ saved' = [saved EXCEPT ![n] = @ \cup {x}]
           /\ up' = FALSE /\ values' = Nothing
           /\ UNCHANGED <<rows, forked>>
  <2>1. /\ disk' \in Disk
        /\ OnDisk(disk') \subseteq OnDisk(disk) \cup {v} /\ OnDisk(disk') # {}
        /\ disk'.file # Nothing \/ disk'.marker \in {"vault", disk.marker}
        /\ disk'.file # Nothing \/ disk'.marker = "vault" \/ disk'.file = disk.file
    BY <1>1, <1>2, <1>8, DeathLeaves
  <2>2. saved' \in [Names -> SUBSET Contents] /\ saved'[n] = saved[n] \cup {x}
        /\ \A m \in Names \ {n} : saved'[m] = saved[m]
    BY <1>6, <1>8
  <2>3. TypeOK'
    BY <1>3, <1>8, <2>1, <2>2, NothingType DEF IInv, TypeOK, Disk
  <2>4. TokenKept' /\ KeysKept' /\ NoOrphanSecret'
    BY <1>8 DEF TokenKept, KeysKept, NoOrphanSecret
  <2>5. Tokened'
    BY <1>1, <1>2, <1>3, <2>1 DEF IInv, Tokened
  <2>6. Found' /\ Fresh'
    BY <1>2, <1>3, <2>1 DEF IInv, Found, Fresh
  <2>7. ~ forked => \A m \in Names : v.key[m] \in saved'[m]
    BY <1>1, <1>4, <2>2
  <2>8. ~ forked => \A s \in OnDisk(disk), m \in Names : s.key[m] \in saved'[m]
    BY <2>2 DEF IInv, Agreed, Holds
  <2>9. Agreed'
    BY <1>8, <2>1, <2>7, <2>8 DEF Agreed, Holds
  <2> QED
    BY <2>3, <2>4, <2>5, <2>6, <2>9 DEF IInv
<1> QED
  BY <1>7, <1>8 DEF Request

-----------------------------------------------------------------------------
(* A start finds the store of the coordinator that ran before, or there    *)
(* was none.                                                               *)
LEMMA StartKeeps ==
  ASSUME IInv, Start
  PROVE  IInv'
PROOF
<1>1. disk \in Disk /\ ~ up /\ up' = TRUE /\ UNCHANGED <<reachable, saved>>
  BY DEF Start, IInv, TypeOK, Disk
<1>2. rows' = rows \cup Adopted(values')
      /\ served' = IF served = NoToken THEN values'.token ELSE served
  BY DEF Start
<1>3. NoOrphanSecret' /\ rows' \in SUBSET Names
  BY <1>2 DEF IInv, TypeOK, NoOrphanSecret, Adopted, HasKey
<1>4. CASE Loaded # Nothing
  <2> DEFINE d == [disk EXCEPT !.marker = IF FromVault THEN "vault" ELSE "file"]
  <2>1. values' = Loaded /\ disk' = d /\ forked' = (forked \/ Forked(d))
    BY <1>4 DEF Start, Becomes
  <2>2. /\ d \in Disk /\ d.vault = disk.vault /\ d.file = disk.file
        /\ OnDisk(d) = OnDisk(disk)
        /\ d.file # Nothing \/ d.marker = "vault"
    BY <1>1, <1>4 DEF Disk, OnDisk, Loaded
  <2>3. values' \in Stored /\ values' \in OnDisk(disk)
    BY <1>1, <1>4, <2>1 DEF Loaded, FromVault, OnDisk, Disk
  <2>4. values'.token = served /\ served # NoToken /\ served' = served
    BY <1>2, <2>3 DEF IInv, Tokened
  <2>5. TypeOK'
    BY <1>1, <1>3, <2>1, <2>2, <2>3, <2>4 DEF IInv, TypeOK, Disk, Forked
  <2>6. TokenKept' /\ Fresh' /\ Found'
    BY <2>1, <2>2, <2>4 DEF TokenKept, Fresh, Found
  <2>7. Tokened'
    BY <2>1, <2>2, <2>4 DEF IInv, Tokened
  <2>8. ~ forked' => \A s \in OnDisk(disk), m \in Names : s.key[m] \in saved'[m]
    BY <1>1, <2>1 DEF IInv, Agreed, Holds, TypeOK
  <2>9. KeysKept'
    BY <2>3, <2>8 DEF KeysKept
  <2>10. ~ Forked(d) => \A s \in OnDisk(disk) : s = values'
    BY <2>2, <2>3 DEF Forked, OnDisk
  <2>11. Agreed'
    BY <2>1, <2>2, <2>8, <2>10 DEF Agreed, Holds
  <2> QED
    BY <1>3, <2>5, <2>6, <2>7, <2>9, <2>11 DEF IInv
<1>5. CASE Loaded = Nothing
  <2>1. PICK t \in Tokens \ {served} :
          /\ values' = [Nothing EXCEPT !.token = t]
          /\ \E d \in Saves(values') : Becomes(d)
    BY <1>5 DEF Start
  <2>2. served = NoToken
    <3>1. MayStart /\ ~ FromVault /\ disk.file = Nothing
      BY <1>5 DEF Start, Loaded, FromVault
    <3> QED
      BY <3>1 DEF MayStart, IInv, Found
  <2>3. /\ values' \in Stored /\ values'.token = t /\ t # NoToken /\ values' # Nothing
        /\ \A m \in Names : values'.key[m] = NoValue
    BY <2>1, NothingType, VaultAssumption DEF Stored
  <2>4. served' = t
    BY <1>2, <2>2, <2>3
  <2>5. PICK d \in Saves(values') : Becomes(d)
    BY <2>1
  <2>6. /\ disk' = d /\ d \in Disk /\ forked' = (forked \/ Forked(d))
        /\ \/ d.vault = values' /\ d.file = Nothing /\ d.marker = "vault"
           \/ d.file = values' /\ d.marker = "file" /\ d.vault \in {values', disk.vault}
    BY <1>1, <2>3, <2>5, SavesLeave DEF Becomes
  <2>7. disk.vault = Nothing
    BY <1>1, <2>2 DEF IInv, Tokened, OnDisk
  <2>8. OnDisk(d) = {values'}
    BY <2>3, <2>6, <2>7 DEF OnDisk
  <2>9. TypeOK'
    BY <1>1, <1>3, <2>3, <2>4, <2>6 DEF IInv, TypeOK, Disk, Forked
  <2>10. TokenKept' /\ Tokened'
    BY <2>3, <2>4, <2>6, <2>8 DEF TokenKept, Tokened
  <2>11. Found' /\ Fresh'
    BY <2>3, <2>4, <2>6 DEF Found, Fresh
  <2>12. \A m \in Names : values'.key[m] \in saved'[m]
    BY <1>1, <2>2, <2>3 DEF IInv, Fresh
  <2>13. KeysKept' /\ Agreed'
    BY <2>6, <2>8, <2>12 DEF KeysKept, Agreed, Holds
  <2> QED
    BY <1>3, <2>9, <2>10, <2>11, <2>13 DEF IInv
<1> QED
  BY <1>4, <1>5

(* Removing a credential that has no secret, as a death in the middle of   *)
(* an earlier removal leaves it, deletes its row.                          *)
LEMMA RemoveKeeps ==
  ASSUME IInv, NEW n \in Names, Remove(n)
  PROVE  IInv'
PROOF
<1>1. CASE HasKey(values, n) /\ Request(n, NoValue, rows \ {n})
  <2>1. NoValue \in Contents /\ rows \ {n} \in SUBSET Names
    BY DEF Contents, IInv, TypeOK
  <2> QED
    BY <1>1, <2>1, RequestKeeps
<1>2. CASE /\ up /\ ~ HasKey(values, n)
           /\ rows' = rows \ {n}
           /\ saved' = [saved EXCEPT ![n] = {NoValue}]
           /\ UNCHANGED <<disk, reachable, up, values, served, forked>>
  <2>1. saved' \in [Names -> SUBSET Contents] /\ saved'[n] = {NoValue}
        /\ \A m \in Names \ {n} : saved'[m] = saved[m]
    BY <1>2 DEF IInv, TypeOK, Contents
  <2>2. TypeOK'
    BY <1>2, <2>1 DEF IInv, TypeOK
  <2>3. TokenKept' /\ Tokened' /\ Found' /\ Fresh'
    BY <1>2 DEF IInv, TokenKept, Tokened, Found, Fresh
  <2>4. KeysKept'
    BY <1>2, <2>1 DEF IInv, KeysKept, HasKey
  <2>5. NoOrphanSecret'
    BY <1>2 DEF IInv, NoOrphanSecret, HasKey
  <2>6. Agreed'
    BY <1>2, <2>1 DEF IInv, Agreed, Holds, HasKey
  <2> QED
    BY <2>2, <2>3, <2>4, <2>5, <2>6 DEF IInv
<1> QED
  BY <1>1, <1>2 DEF Remove

(* The end of the process and a vault that is locked or unlocked.          *)
LEMMA OutsideKeeps ==
  ASSUME IInv, Stop \/ VaultToggles
  PROVE  IInv'
PROOF
<1>1. CASE Stop
  <2>1. /\ up' = FALSE /\ values' = Nothing
        /\ UNCHANGED <<disk, reachable, rows, served, saved, forked>>
    BY <1>1 DEF Stop
  <2>2. TypeOK'
    BY <2>1, NothingType DEF IInv, TypeOK
  <2>3. TokenKept' /\ KeysKept' /\ NoOrphanSecret' /\ Tokened' /\ Found' /\ Fresh' /\ Agreed'
    BY <2>1 DEF IInv, TokenKept, KeysKept, NoOrphanSecret, Tokened, Found, Fresh, Agreed, Holds
  <2> QED
    BY <2>2, <2>3 DEF IInv
<1>2. CASE VaultToggles
  <2>1. reachable' \in BOOLEAN /\ UNCHANGED <<disk, up, values, rows, served, saved, forked>>
    BY <1>2 DEF VaultToggles, IInv, TypeOK
  <2>2. TypeOK'
    BY <2>1 DEF IInv, TypeOK
  <2>3. TokenKept' /\ KeysKept' /\ NoOrphanSecret' /\ Tokened' /\ Found' /\ Fresh' /\ Agreed'
    BY <2>1 DEF IInv, TokenKept, KeysKept, NoOrphanSecret, HasKey, Tokened, Found, Fresh, Agreed, Holds
  <2> QED
    BY <2>2, <2>3 DEF IInv
<1> QED
  BY <1>1, <1>2

-----------------------------------------------------------------------------
(* Every step keeps the invariant. *)
LEMMA NextKeeps ==
  ASSUME IInv, [Next]_vars
  PROVE  IInv'
PROOF
<1>1. CASE UNCHANGED vars
  BY <1>1 DEF vars, IInv, TypeOK, TokenKept, KeysKept, NoOrphanSecret, HasKey, Tokened, Found,
       Fresh, Agreed, Holds
<1>2. CASE Start
  BY <1>2, StartKeeps
<1>3. CASE Stop \/ VaultToggles
  BY <1>3, OutsideKeeps
<1>4. ASSUME NEW n \in Names, Remove(n)
      PROVE  IInv'
  BY <1>4, RemoveKeeps
<1>5. ASSUME NEW n \in Names, NEW x \in Values, Create(n, x) \/ Rotate(n, x)
      PROVE  IInv'
  <2>1. x \in Contents /\ rows \in SUBSET Names
    BY DEF Contents, IInv, TypeOK
  <2>2. CASE Create(n, x)
    <3>1. Request(n, x, rows \cup {n}) /\ rows \cup {n} \in SUBSET Names
      BY <2>1, <2>2 DEF Create
    <3> QED
      BY <2>1, <3>1, RequestKeeps
  <2>3. CASE Rotate(n, x)
    <3>1. Request(n, x, rows) /\ n \in rows
      BY <2>3 DEF Rotate
    <3> QED
      BY <2>1, <3>1, RequestKeeps
  <2> QED
    BY <1>5, <2>2, <2>3
<1> QED
  BY <1>1, <1>2, <1>3, <1>4, <1>5 DEF Next

(* Before the first start there is nothing. *)
LEMMA InitHolds == Init => IInv
PROOF
<1> SUFFICES ASSUME Init PROVE IInv
  OBVIOUS
<1>1. ~ up /\ served = NoToken /\ OnDisk(disk) = {}
  BY DEF Init, OnDisk
<1>2. TypeOK
  <2>1. disk.vault \in Stored /\ disk.file \in Stored /\ values \in Stored
    BY NothingType DEF Init
  <2>2. saved \in [Names -> SUBSET Contents]
    BY DEF Init, Contents
  <2> QED
    BY <2>1, <2>2, NothingType DEF Init, TypeOK
<1>3. TokenKept /\ KeysKept /\ NoOrphanSecret
  BY <1>1 DEF TokenKept, KeysKept, NoOrphanSecret
<1>4. Tokened /\ Found /\ Agreed
  BY <1>1 DEF Tokened, Found, Agreed
<1>5. Fresh
  BY DEF Init, Fresh
<1> QED
  BY <1>2, <1>3, <1>4, <1>5 DEF IInv

(* The invariant holds throughout. *)
LEMMA Invariance == Spec => []IInv
PROOF
<1>1. IInv /\ [Next]_vars => IInv'
  BY NextKeeps
<1> QED
  BY <1>1, InitHolds, PTL DEF Spec

-----------------------------------------------------------------------------
(* The token every paired computer and every agent was given stays the     *)
(* token, for any vault that locks, drops writes or is cut off in a save.  *)
THEOREM TokenStays == Spec => []TokenKept
PROOF
<1>1. IInv => TokenKept
  BY DEF IInv
<1> QED
  BY <1>1, Invariance, PTL

(* While vault and file were never left with different stores, whatever    *)
(* the coordinator has of a credential is what was saved last.             *)
THEOREM KeysStay == Spec => []KeysKept
PROOF
<1>1. IInv => KeysKept
  BY DEF IInv
<1> QED
  BY <1>1, Invariance, PTL

(* Every secret of a running coordinator can be managed. *)
THEOREM NoSecretOrphaned == Spec => []NoOrphanSecret
PROOF
<1>1. IInv => NoOrphanSecret
  BY DEF IInv
<1> QED
  BY <1>1, Invariance, PTL

(* Vault, file and memory hold stored secrets or nothing, in every state. *)
THEOREM TypeCorrect == Spec => []TypeOK
PROOF
<1>1. IInv => TypeOK
  BY DEF IInv
<1> QED
  BY <1>1, Invariance, PTL
=============================================================================
