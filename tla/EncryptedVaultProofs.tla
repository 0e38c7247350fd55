------------------------ MODULE EncryptedVaultProofs ------------------------
(***************************************************************************)
(* Proofs about EncryptedVault with a maintenance window around rotations, *)
(* for every set of captures, contents and clients and any number of       *)
(* rotations.                                                              *)
(***************************************************************************)
EXTENDS EncryptedVault, TLAPS

(* What an operation's locals r say while the client's passphrase is k: the  *)
(* step fits the kind of operation, an insert has a salt that is still the   *)
(* vault's, and the rows a rotation has listed are the rows of the table.    *)
StepFits(r) ==
    /\ r.pc = "idle" <=> r.kind = "none"
    /\ r.pc = "decrypt" => r.kind \in {"backup", "rotate"}
    /\ r.pc = "write" => r.kind = "backup"
    /\ r.pc = "commit" => r.kind = "rotate"
    /\ r.pc \in {"next", "key"} => r.kind = "restore"
    /\ r.pc = "insert" => r.kind \in {"insert", "restore"}

LocalsFit(r) ==
    /\ r.pc \in {"key", "insert"} => r.id \in Ids /\ r.data[r.id] \in Contents
    /\ r.kind = "restore" => r.todo \subseteq Held(r.data)
    /\ r.pc = "commit" => \A i \in Ids : r.list[i] # NoRow => r.data[i] = r.list[i].plain

WriteKinds == {"insert", "restore", "rotate"}

Current(r, k) ==
    /\ r.kind \in WriteKinds => k = salt
    /\ r.pc = "insert" => r.salt = salt
    /\ r.kind = "rotate" => r.list = rows

OpOK(r, k) == r \in Op /\ StepFits(r) /\ LocalsFit(r) /\ Current(r, k)

(* A rotation shares the vault with no other operation that writes.          *)
RotatesAlone ==
    \A c, d \in Clients : op[c].kind = "rotate" /\ op[d].kind \in WriteKinds => c = d

WindowInv ==
    /\ VaultTypeOK
    /\ AllReadable
    /\ \A c \in Clients : OpOK(op[c], known[c])
    /\ RotatesAlone

-----------------------------------------------------------------------------
(* A finished operation fits every passphrase.                               *)
LEMMA NoOpOK == \A k : OpOK(NoOp, k)
  <1> USE VaultAssumption DEF NoOp, Op, Kinds, Steps, Rotations, Rows, NoRows, Captures, NoCaptures
  <1>1. NoOp \in Op
    OBVIOUS
  <1>2. StepFits(NoOp) /\ LocalsFit(NoOp)
    BY DEF StepFits, LocalsFit
  <1>3. \A k : Current(NoOp, k)
    BY DEF Current, WriteKinds
  <1> QED
    BY <1>1, <1>2, <1>3 DEF OpOK

(* The empty vault satisfies the invariant.                                  *)
LEMMA InitWindowInv == VaultInit => WindowInv
  <1> SUFFICES ASSUME VaultInit PROVE WindowInv
    OBVIOUS
  <1>1. \A c \in Clients : OpOK(op[c], known[c])
    BY NoOpOK DEF VaultInit
  <1>2. VaultTypeOK
    BY NoOpOK, VaultAssumption DEF VaultInit, VaultTypeOK, OpOK, Rows, NoRows, Rotations, Backup,
       Captures, NoCaptures
  <1>3. AllReadable
    BY DEF VaultInit, AllReadable, Stored, NoRows
  <1>4. RotatesAlone
    BY DEF VaultInit, RotatesAlone, NoOp, WriteKinds
  <1> QED
    BY <1>1, <1>2, <1>3, <1>4 DEF WindowInv

(* A step that leaves the table alone and gives one client new locals.       *)
LEMMA OpStep ==
  ASSUME WindowInv, NEW c \in Clients, NEW r, OpOK(r, known[c]),
         op' = [op EXCEPT ![c] = r],
         UNCHANGED <<rows, salt, known>>, backup' \in Backup,
         r.kind = "rotate" => op[c].kind = "rotate" \/ \A d \in Clients : op[d].kind \notin WriteKinds,
         r.kind \in WriteKinds => \/ op[c].kind \in WriteKinds
                                  \/ \A d \in Clients : op[d].kind # "rotate"
  PROVE  WindowInv'
  <1>2. op \in [Clients -> Op] /\ r \in Op
    BY DEF WindowInv, VaultTypeOK, OpOK
  <1>3. \A d \in Clients : op'[d] = IF d = c THEN r ELSE op[d]
    BY <1>2
  <1>4. \A d \in Clients : OpOK(op'[d], known[d])
    BY <1>3 DEF WindowInv
  <1>5. (\A d \in Clients : OpOK(op[d], known[d]))'
    <2>1. \A d \in Clients : known'[d] = known[d]
      OBVIOUS
    <2>2. ASSUME NEW d \in Clients PROVE OpOK(op[d], known[d])'
      <3>1. OpOK(op'[d], known'[d])
        BY <1>4, <2>1
      <3> QED
        BY <3>1 DEF OpOK, StepFits, LocalsFit, Current
    <2> QED
      BY <2>2
  <1>6. VaultTypeOK'
    BY <1>2 DEF WindowInv, VaultTypeOK
  <1>7. AllReadable'
    BY DEF WindowInv, AllReadable, Stored, Opens
  <1>8. RotatesAlone'
    BY <1>3 DEF WindowInv, RotatesAlone, WriteKinds
  <1> QED
    BY <1>5, <1>6, <1>7, <1>8 DEF WindowInv

(* A step that changes rows while nobody rotates: the new rows open with the *)
(* owner's passphrase, and the new locals fit.                               *)
LEMMA RowStep ==
  ASSUME WindowInv, NEW c \in Clients,
         rows' \in Rows, op' \in [Clients -> Op],
         UNCHANGED <<salt, backup, known>>,
         \A d \in Clients : op[d].kind # "rotate" /\ op'[d].kind # "rotate",
         \A i \in Ids : rows'[i] # NoRow => rows'[i] = rows[i] \/ Opens(rows'[i], salt),
         \A d \in Clients : OpOK(op[d], known[d]) => StepFits(op'[d]) /\ LocalsFit(op'[d]),
         \A d \in Clients : op'[d].kind \in WriteKinds => known[d] = salt,
         \A d \in Clients : op'[d].pc = "insert" => op'[d].salt = salt
  PROVE  WindowInv'
  <1>1. VaultTypeOK'
    BY DEF WindowInv, VaultTypeOK
  <1>2. AllReadable'
    BY DEF WindowInv, AllReadable, Stored, Opens
  <1>3. RotatesAlone'
    BY DEF RotatesAlone
  <1>4. ASSUME NEW d \in Clients PROVE OpOK(op[d], known[d])'
    <2>1. op'[d] \in Op
      OBVIOUS
    <2>2. StepFits(op'[d]) /\ LocalsFit(op'[d])
      BY DEF WindowInv
    <2>3. Current(op[d], known[d])'
      BY DEF Current
    <2> QED
      BY <2>1, <2>2, <2>3 DEF OpOK, StepFits, LocalsFit
  <1> QED
    BY <1>1, <1>2, <1>3, <1>4 DEF WindowInv

-----------------------------------------------------------------------------
(* The locals of a client that is not idle, taken apart.                     *)
LEMMA InOp ==
  ASSUME WindowInv, NEW c \in Clients
  PROVE  /\ op \in [Clients -> Op]
         /\ op[c] \in Op
         /\ OpOK(op[c], known[c])
         /\ backup \in Backup
         /\ rows \in Rows
         /\ salt \in Rotations
  BY DEF WindowInv, VaultTypeOK

(* Whatever an operation has done, it may end.                               *)
LEMMA EndStep ==
  ASSUME WindowInv, NEW c \in Clients, EndOp(c),
         UNCHANGED <<rows, salt, known>>, backup' \in Backup
  PROVE  WindowInv'
  <1>1. NoOp.kind = "none"
    BY DEF NoOp
  <1> QED
    BY <1>1, NoOpOK, OpStep DEF EndOp, WriteKinds

LEMMA BeginInsertStep ==
  ASSUME WindowInv, NEW c \in Clients, NEW i \in Ids, NEW x \in Contents, BeginInsert(c, i, x),
         known[c] = salt, \A d \in Clients : op[d].kind # "rotate"
  PROVE  WindowInv'
  <1> DEFINE data == [NoCaptures EXCEPT ![i] = x]
             r == [NoOp EXCEPT !.kind = "insert", !.pc = "insert", !.id = i, !.salt = salt,
                               !.data = data]
  <1>1. data \in Captures /\ data[i] = x
    BY DEF Captures, NoCaptures
  <1>2. op' = [op EXCEPT ![c] = r]
    BY DEF BeginInsert
  <1> HIDE DEF data
  <1>3. r \in Op /\ r.kind = "insert" /\ r.pc = "insert" /\ r.id = i /\ r.salt = salt /\ r.data = data
    BY <1>1, NoOpOK, InOp DEF OpOK, Op, Kinds, Steps
  <1> HIDE DEF r
  <1>4. OpOK(r, known[c])
    BY <1>1, <1>3 DEF OpOK, StepFits, LocalsFit, Current, WriteKinds
  <1> QED
    BY <1>2, <1>3, <1>4, InOp, OpStep DEF BeginInsert

LEMMA BeginListStep ==
  ASSUME WindowInv, NEW c \in Clients, NEW kind \in {"backup", "rotate"}, BeginList(c, kind),
         kind = "rotate" => known[c] = salt /\ \A d \in Clients : op[d].kind \notin WriteKinds
  PROVE  WindowInv'
  <1> DEFINE r == [NoOp EXCEPT !.kind = kind, !.pc = "decrypt", !.list = rows]
  <1>1. op' = [op EXCEPT ![c] = r]
    BY DEF BeginList
  <1>2. r \in Op /\ r.kind = kind /\ r.pc = "decrypt" /\ r.list = rows
    BY NoOpOK, InOp DEF OpOK, Op, Kinds, Steps
  <1> HIDE DEF r
  <1>3. OpOK(r, known[c])
    BY <1>2 DEF OpOK, StepFits, LocalsFit, Current, WriteKinds
  <1> QED
    BY <1>1, <1>2, <1>3, InOp, OpStep DEF BeginList, WriteKinds

LEMMA BeginRestoreStep ==
  ASSUME WindowInv, NEW c \in Clients, NEW replace \in BOOLEAN, BeginRestore(c, replace),
         known[c] = salt, \A d \in Clients : op[d].kind # "rotate"
  PROVE  WindowInv'
  <1> DEFINE r == [NoOp EXCEPT !.kind = "restore", !.pc = "next", !.data = backup.data,
                               !.todo = Held(backup.data), !.old = Stored(rows),
                               !.replace = replace]
  <1>1. op' = [op EXCEPT ![c] = r]
    BY DEF BeginRestore
  <1>2. Held(backup.data) \subseteq Ids /\ Stored(rows) \subseteq Ids
    BY DEF Held, Stored
  <1>3. /\ r \in Op /\ r.kind = "restore" /\ r.pc = "next"
        /\ r.data = backup.data /\ r.todo = Held(backup.data)
    BY <1>2, NoOpOK, InOp DEF OpOK, Op, Kinds, Steps, Backup
  <1> HIDE DEF r
  <1>4. OpOK(r, known[c])
    BY <1>3 DEF OpOK, StepFits, LocalsFit, Current, WriteKinds
  <1> QED
    BY <1>1, <1>3, <1>4, InOp, OpStep DEF BeginRestore

LEMMA DecryptStep ==
  ASSUME WindowInv, NEW c \in Clients, Decrypt(c)
  PROVE  WindowInv'
  <1> DEFINE data == [i \in Ids |-> op[c].list[i].plain]
  <1>1. data \in Captures
    BY InOp DEF Captures, Op, Rows, Row, NoRow
  <1>2. CASE op[c].kind = "backup"
    <2> DEFINE r == [op[c] EXCEPT !.pc = "write", !.data = data, !.list = NoRows]
    <2>1. op' = [op EXCEPT ![c] = r]
      BY <1>2, InOp DEF Decrypt
    <2>2. NoRows \in Rows
      BY DEF NoRows, Rows
    <2>3. r \in Op /\ r.kind = "backup" /\ r.pc = "write"
      BY <1>1, <1>2, <2>2, InOp DEF Op, Steps
    <2> HIDE DEF r
    <2>4. OpOK(r, known[c])
      BY <2>3 DEF OpOK, StepFits, LocalsFit, Current, WriteKinds
    <2> QED
      BY <2>1, <2>3, <2>4, InOp, OpStep DEF Decrypt, WriteKinds
  <1>3. CASE op[c].kind # "backup"
    <2> DEFINE r == [op[c] EXCEPT !.pc = "commit", !.data = data]
    <2>1. op' = [op EXCEPT ![c] = r]
      BY <1>3, InOp DEF Decrypt
    <2>2. op[c].kind = "rotate"
      BY <1>3, InOp DEF Decrypt, OpOK, StepFits
    <2>3. /\ r \in Op /\ r.kind = "rotate" /\ r.pc = "commit"
          /\ r.data = data /\ r.list = op[c].list
      BY <1>1, <2>2, InOp DEF Op, Steps
    <2>4. \A i \in Ids : data[i] = op[c].list[i].plain
      OBVIOUS
    <2> HIDE DEF r
    <2>5. OpOK(r, known[c])
      BY <2>2, <2>3, <2>4, InOp DEF OpOK, StepFits, LocalsFit, Current, WriteKinds
    <2> QED
      BY <2>1, <2>2, <2>3, <2>5, InOp, OpStep DEF Decrypt, WriteKinds
  <1> QED
    BY <1>2, <1>3

LEMMA WriteBackupStep ==
  ASSUME WindowInv, NEW c \in Clients, WriteBackup(c)
  PROVE  WindowInv'
  <1>1. backup' \in Backup
    BY InOp DEF WriteBackup, Backup, Op
  <1> QED
    BY <1>1, EndStep DEF WriteBackup

LEMMA KillStep ==
  ASSUME WindowInv, NEW c \in Clients, Kill(c)
  PROVE  WindowInv'
  <1>1. backup' \in Backup
    BY InOp DEF Kill, Backup, Captures, NoCaptures
  <1> QED
    BY <1>1, EndStep DEF Kill

(* A restore goes on to its next capture, or reads the salt for it.          *)
LEMMA RestoreSkipStep ==
  ASSUME WindowInv, NEW c \in Clients, NEW i \in Ids, RestoreSkip(c, i)
  PROVE  WindowInv'
  <1> DEFINE r == [op[c] EXCEPT !.todo = @ \ {i}]
  <1>1. op' = [op EXCEPT ![c] = r]
    BY InOp DEF RestoreSkip
  <1>2. /\ r \in Op /\ r.kind = op[c].kind /\ r.pc = "next" /\ r.data = op[c].data
        /\ r.todo = op[c].todo \ {i}
    BY InOp DEF RestoreSkip, Op
  <1> HIDE DEF r
  <1>3. r.kind = "restore" /\ op[c].kind = "restore"
    BY <1>2, InOp DEF RestoreSkip, OpOK, StepFits
  <1>4. OpOK(r, known[c])
    BY <1>2, <1>3, InOp DEF OpOK, StepFits, LocalsFit, Current, WriteKinds
  <1> QED
    BY <1>1, <1>3, <1>4, InOp, OpStep DEF RestoreSkip, WriteKinds

LEMMA RestoreNewStep ==
  ASSUME WindowInv, NEW c \in Clients, NEW i \in Ids, RestoreNew(c, i)
  PROVE  WindowInv'
  <1> DEFINE r == [op[c] EXCEPT !.todo = @ \ {i}, !.id = i, !.pc = "key"]
  <1>1. op' = [op EXCEPT ![c] = r]
    BY InOp DEF RestoreNew
  <1>2. /\ r \in Op /\ r.kind = op[c].kind /\ r.pc = "key" /\ r.data = op[c].data
        /\ r.todo = op[c].todo \ {i} /\ r.id = i
    BY InOp DEF RestoreNew, Op, Steps
  <1> HIDE DEF r
  <1>3. op[c].kind = "restore" /\ i \in op[c].todo
    BY InOp DEF RestoreNew, OpOK, StepFits
  <1>4. op[c].data[i] \in Contents
    BY <1>3, InOp DEF OpOK, LocalsFit, Held, Op, Captures
  <1>5. OpOK(r, known[c])
    BY <1>2, <1>3, <1>4, InOp DEF OpOK, StepFits, LocalsFit, Current, WriteKinds
  <1> QED
    BY <1>1, <1>2, <1>3, <1>5, InOp, OpStep DEF RestoreNew, WriteKinds

LEMMA RestoreKeyStep ==
  ASSUME WindowInv, NEW c \in Clients, RestoreKey(c)
  PROVE  WindowInv'
  <1> DEFINE r == [op[c] EXCEPT !.salt = salt, !.pc = "insert"]
  <1>1. op' = [op EXCEPT ![c] = r]
    BY InOp DEF RestoreKey
  <1>2. /\ r \in Op /\ r.kind = op[c].kind /\ r.pc = "insert" /\ r.data = op[c].data
        /\ r.todo = op[c].todo /\ r.id = op[c].id /\ r.salt = salt
    BY InOp DEF RestoreKey, Op, Steps
  <1> HIDE DEF r
  <1>3. op[c].kind = "restore"
    BY InOp DEF RestoreKey, OpOK, StepFits
  <1>4. OpOK(r, known[c])
    BY <1>2, <1>3, InOp DEF RestoreKey, OpOK, StepFits, LocalsFit, Current, WriteKinds
  <1> QED
    BY <1>1, <1>2, <1>3, <1>4, InOp, OpStep DEF RestoreKey, WriteKinds

-----------------------------------------------------------------------------
(* A writer other than a rotation excludes rotations.                        *)
LEMMA NobodyRotates ==
  ASSUME WindowInv, NEW c \in Clients, op[c].kind \in {"insert", "restore"}
  PROVE  \A d \in Clients : op[d].kind # "rotate"
  BY DEF WindowInv, RotatesAlone, WriteKinds

LEMMA InsertRowStep ==
  ASSUME WindowInv, NEW c \in Clients, InsertRow(c)
  PROVE  WindowInv'
  <1> DEFINE i == op[c].id
             x == op[c].data[op[c].id]
  <1>1. /\ op[c].kind \in {"insert", "restore"} /\ i \in Ids /\ x \in Contents
        /\ known[c] = salt /\ op[c].salt = salt
    BY InOp DEF InsertRow, OpOK, StepFits, LocalsFit, Current, WriteKinds
  <1>2. \A d \in Clients : op[d].kind # "rotate"
    BY <1>1, NobodyRotates
  <1>3. Seal(x, salt, salt) \in Row /\ Opens(Seal(x, salt, salt), salt)
    BY <1>1, InOp DEF Seal, Row, Opens
  <1>4. rows' = [rows EXCEPT ![i] = Seal(x, salt, salt)]
    BY <1>1 DEF InsertRow
  <1>5. rows' \in Rows /\ \A k \in Ids : rows'[k] = rows[k] \/ Opens(rows'[k], salt)
    BY <1>3, <1>4, <1>1, InOp DEF Rows
  <1>6. op[c].pc = "insert" /\ UNCHANGED <<salt, backup, known>>
    BY DEF InsertRow
  <1>7. CASE op[c].kind = "restore"
    <2> DEFINE r == [op[c] EXCEPT !.pc = "next"]
    <2>1. op' = [op EXCEPT ![c] = r]
      BY <1>7, InOp DEF InsertRow
    <2>2. /\ r \in Op /\ r.kind = "restore" /\ r.pc = "next" /\ r.data = op[c].data
          /\ r.todo = op[c].todo
      BY <1>7, InOp DEF Op, Steps
    <2> HIDE DEF r
    <2>3. StepFits(r) /\ LocalsFit(r)
      BY <1>7, <2>2, InOp DEF OpOK, StepFits, LocalsFit
    <2>4. op' \in [Clients -> Op] /\ \A d \in Clients : op'[d] = IF d = c THEN r ELSE op[d]
      BY <2>1, <2>2, InOp
    <2> HIDE DEF i, x
    <2> QED
      BY <1>1, <1>2, <1>5, <1>6, <2>2, <2>3, <2>4, InOp, RowStep DEF OpOK, Current
  <1>8. CASE op[c].kind # "restore"
    <2>1. op' = [op EXCEPT ![c] = NoOp]
      BY <1>8 DEF InsertRow, EndOp
    <2>2. StepFits(NoOp) /\ LocalsFit(NoOp) /\ NoOp \in Op
      BY NoOpOK DEF OpOK
    <2>3. NoOp.kind = "none" /\ NoOp.pc = "idle"
      BY DEF NoOp
    <2>4. op' \in [Clients -> Op] /\ \A d \in Clients : op'[d] = IF d = c THEN NoOp ELSE op[d]
      BY <2>1, <2>2, InOp
    <2> HIDE DEF i, x
    <2> QED
      BY <1>1, <1>2, <1>5, <1>6, <2>2, <2>3, <2>4, InOp, RowStep DEF OpOK, Current, WriteKinds
  <1> QED
    BY <1>7, <1>8

(* What a deletion does to the locals of the others.                         *)
LEMMA UndoneFits ==
  ASSUME WindowInv, NEW c \in Clients, NEW i \in Ids
  PROVE  /\ Undone(c, i) \in [Clients -> Op]
         /\ \A d \in Clients :
              LET r == Undone(c, i)[d] IN
                /\ r.kind = op[d].kind /\ r.pc = op[d].pc /\ r.salt = op[d].salt
                /\ StepFits(r) /\ LocalsFit(r)
         /\ Undone(c, i)[c] = op[c]
  <1>1. ASSUME NEW d \in Clients
        PROVE  LET r == Undone(c, i)[d] IN
                 /\ r \in Op
                 /\ r.kind = op[d].kind /\ r.pc = op[d].pc /\ r.salt = op[d].salt
                 /\ StepFits(r) /\ LocalsFit(r)
    <2>1. CASE d # c /\ op[d].kind = "restore"
      <3> DEFINE r == [op[d] EXCEPT !.undone = @ \cup {i}]
      <3>1. Undone(c, i)[d] = r
        BY <2>1 DEF Undone
      <3>2. /\ r \in Op /\ r.kind = op[d].kind /\ r.pc = op[d].pc /\ r.salt = op[d].salt
            /\ r.id = op[d].id /\ r.data = op[d].data /\ r.todo = op[d].todo
            /\ r.list = op[d].list
        BY InOp DEF Op
      <3> HIDE DEF r
      <3>3. StepFits(r) /\ LocalsFit(r)
        BY <3>2, InOp DEF OpOK, StepFits, LocalsFit
      <3> QED
        BY <3>1, <3>2, <3>3
    <2>2. CASE ~(d # c /\ op[d].kind = "restore")
      BY <2>2, InOp DEF Undone, OpOK
    <2> QED
      BY <2>1, <2>2
  <1>2. Undone(c, i) \in [Clients -> Op]
    BY <1>1 DEF Undone
  <1> QED
    BY <1>1, <1>2 DEF Undone

LEMMA DeleteStep ==
  ASSUME WindowInv, NEW c \in Clients, NEW i \in Ids, Delete(c, i),
         \A d \in Clients : op[d].kind # "rotate"
  PROVE  WindowInv'
  <1>1. rows' \in Rows /\ \A k \in Ids : rows'[k] # NoRow => rows'[k] = rows[k]
    BY InOp DEF Delete, Rows
  <1>2. op' = Undone(c, i) /\ UNCHANGED <<salt, backup, known>>
    BY DEF Delete
  <1>3. \A d \in Clients : op[d].kind \in WriteKinds => known[d] = salt
    BY InOp DEF OpOK, Current
  <1>4. \A d \in Clients : op[d].pc = "insert" => op[d].salt = salt
    BY InOp DEF OpOK, Current
  <1> QED
    BY <1>1, <1>2, <1>3, <1>4, UndoneFits, RowStep

LEMMA RestoreDeleteStep ==
  ASSUME WindowInv, NEW c \in Clients, NEW i \in Ids, RestoreDelete(c, i)
  PROVE  WindowInv'
  <1>1. rows' \in Rows /\ \A k \in Ids : rows'[k] # NoRow => rows'[k] = rows[k]
    BY InOp DEF RestoreDelete, Rows
  <1>2. op[c].kind = "restore" /\ i \in op[c].todo
    BY InOp DEF RestoreDelete, OpOK, StepFits
  <1>3. \A d \in Clients : op[d].kind # "rotate"
    BY <1>2, NobodyRotates
  <1> DEFINE r == [op[c] EXCEPT !.todo = @ \ {i}, !.id = i, !.pc = "key"]
  <1>4. op' = [Undone(c, i) EXCEPT ![c] = r] /\ UNCHANGED <<salt, backup, known>>
    BY UndoneFits DEF RestoreDelete
  <1>5. /\ r \in Op /\ r.kind = op[c].kind /\ r.pc = "key" /\ r.data = op[c].data
        /\ r.todo = op[c].todo \ {i} /\ r.id = i
    BY InOp DEF Op, Steps
  <1> HIDE DEF r
  <1>6. op[c].data[i] \in Contents
    BY <1>2, InOp DEF OpOK, LocalsFit, Held, Op, Captures
  <1>7. StepFits(r) /\ LocalsFit(r)
    BY <1>2, <1>5, <1>6, InOp DEF OpOK, StepFits, LocalsFit
  <1>8. \A d \in Clients : op'[d] = IF d = c THEN r ELSE Undone(c, i)[d]
    BY <1>4, UndoneFits
  <1>9. op' \in [Clients -> Op]
    BY <1>4, <1>5, UndoneFits
  <1>10. \A d \in Clients : op[d].kind \in WriteKinds => known[d] = salt
    BY InOp DEF OpOK, Current
  <1>11. \A d \in Clients : op[d].pc = "insert" => op[d].salt = salt
    BY InOp DEF OpOK, Current
  <1> QED
    BY <1>1, <1>2, <1>3, <1>4, <1>5, <1>7, <1>8, <1>9, <1>10, <1>11, UndoneFits, RowStep

-----------------------------------------------------------------------------
(* The number of the next rotation.                                          *)
LEMMA NextRotation ==
  ASSUME salt \in Rotations, salt < MaxRotations
  PROVE  salt + 1 \in Rotations
  <1>1. MaxRotations \in Nat
    BY VaultAssumption
  <1> QED
    BY <1>1 DEF Rotations

(* The transaction of a rotation seals every row again: the rows it listed   *)
(* are the rows of the table, since nobody else writes.                      *)
LEMMA CommitRows ==
  ASSUME WindowInv, NEW c \in Clients, CommitRotation(c)
  PROVE  /\ rows' \in Rows
         /\ \A i \in Ids : rows'[i].plain = rows[i].plain
         /\ \A i \in Ids : rows'[i] = NoRow <=> rows[i] = NoRow
         /\ \A i \in Ids : rows[i] # NoRow =>
              rows'[i].plain = rows'[i].meta /\ rows'[i].pass = salt + 1 /\ rows'[i].salt = salt + 1
  <1>1. op[c].kind = "rotate" /\ op[c].list = rows
    BY InOp DEF CommitRotation, OpOK, StepFits, Current
  <1>2. salt + 1 \in Rotations
    BY InOp, NextRotation DEF CommitRotation
  <1>3. ASSUME NEW i \in Ids, rows[i] # NoRow
        PROVE  /\ rows'[i] \in Row
               /\ rows'[i].plain = rows[i].plain /\ rows'[i].meta = rows[i].meta
               /\ rows'[i].pass = salt + 1 /\ rows'[i].salt = salt + 1
               /\ rows[i].plain = rows[i].meta
    <2>1. rows[i] \in Row
      BY <1>3, InOp DEF Rows
    <2>2. op[c].data[i] = rows[i].plain
      BY <1>1, <1>3, InOp DEF CommitRotation, OpOK, LocalsFit
    <2>3. rows'[i] = [rows[i] EXCEPT !.plain = op[c].data[i], !.pass = salt + 1, !.salt = salt + 1]
      BY <1>1, <1>3 DEF CommitRotation
    <2>4. rows[i].plain = rows[i].meta
      BY <1>3 DEF WindowInv, AllReadable, Stored, Opens
    <2> QED
      BY <1>2, <2>1, <2>2, <2>3, <2>4 DEF Row
  <1>4. ASSUME NEW i \in Ids, rows[i] = NoRow PROVE rows'[i] = NoRow
    BY <1>1, <1>4 DEF CommitRotation
  <1>5. NoRow \notin Row
    BY VaultAssumption DEF NoRow, Row
  <1>6. rows' \in Rows
    <2>1. \A i \in Ids : rows'[i] \in Row \cup {NoRow}
      BY <1>3, <1>4
    <2>2. rows' = [i \in Ids |-> rows'[i]]
      BY DEF CommitRotation
    <2> QED
      BY <2>1, <2>2 DEF Rows
  <1> QED
    BY <1>3, <1>4, <1>5, <1>6

LEMMA CommitRotationStep ==
  ASSUME WindowInv, NEW c \in Clients, CommitRotation(c)
  PROVE  WindowInv'
  <1>1. salt' = salt + 1 /\ salt' \in Rotations
    BY InOp, NextRotation DEF CommitRotation
  <1>2. op' = [op EXCEPT ![c] = NoOp] /\ NoOp \in Op
    BY NoOpOK DEF CommitRotation, EndOp, OpOK
  <1>3. VaultTypeOK'
    BY <1>1, <1>2, CommitRows, InOp DEF CommitRotation, WindowInv, VaultTypeOK
  <1>4. AllReadable'
    BY <1>1, CommitRows DEF AllReadable, Stored, Opens
  <1>5. op[c].kind = "rotate"
    BY InOp DEF CommitRotation, OpOK, StepFits
  <1>6. \A d \in Clients : op'[d].kind \notin WriteKinds
    BY <1>2, <1>5, InOp DEF NoOp, WindowInv, RotatesAlone, WriteKinds
  <1>7. ASSUME NEW d \in Clients PROVE OpOK(op[d], known[d])'
    <2>1. op'[d] \in Op /\ StepFits(op'[d]) /\ LocalsFit(op'[d])
      BY <1>2, NoOpOK, InOp DEF WindowInv, OpOK
    <2>2. Current(op[d], known[d])'
      BY <1>6, <2>1 DEF Current, StepFits, WriteKinds
    <2> QED
      BY <2>1, <2>2 DEF OpOK, StepFits, LocalsFit
  <1>8. RotatesAlone'
    BY <1>6 DEF RotatesAlone
  <1> QED
    BY <1>3, <1>4, <1>7, <1>8 DEF WindowInv

LEMMA RestartStep ==
  ASSUME WindowInv, NEW c \in Clients, Restart(c)
  PROVE  WindowInv'
  <1>1. known' \in [Clients -> Rotations] /\ \A d \in Clients : d # c => known'[d] = known[d]
    BY InOp DEF Restart, WindowInv, VaultTypeOK
  <1>2. op[c].kind = "none" /\ op[c].pc = "idle"
    BY InOp DEF Restart, Idle, OpOK, StepFits
  <1>3. UNCHANGED <<rows, salt, backup, op>>
    BY DEF Restart
  <1>4. ASSUME NEW d \in Clients PROVE OpOK(op[d], known[d])'
    BY <1>1, <1>2, <1>3, InOp DEF WindowInv, OpOK, StepFits, LocalsFit, Current, WriteKinds
  <1> QED
    BY <1>1, <1>3, <1>4 DEF WindowInv, VaultTypeOK, AllReadable, Stored, Opens, RotatesAlone

(* Every step of the window keeps the invariant.                             *)
LEMMA NextWindowInv == WindowInv /\ [WindowNext]_vars => WindowInv'
  <1> SUFFICES ASSUME WindowInv, [WindowNext]_vars PROVE WindowInv'
    OBVIOUS
  <1>1. CASE UNCHANGED vars
    BY <1>1 DEF vars, WindowInv, VaultTypeOK, AllReadable, Stored, Opens, RotatesAlone, OpOK,
                StepFits, LocalsFit, Current
  <1>2. ASSUME NEW c \in Clients, known[c] = salt, \A d \in Clients : op[d].kind # "rotate",
               BeginWrite(c)
        PROVE  WindowInv'
    BY <1>2, BeginInsertStep, DeleteStep, BeginRestoreStep DEF BeginWrite
  <1>3. ASSUME NEW c \in Clients, BeginList(c, "backup") PROVE WindowInv'
    BY <1>3, BeginListStep
  <1>4. ASSUME NEW c \in Clients, known[c] = salt, \A d \in Clients : ~Writing(d), BeginRotate(c)
        PROVE  WindowInv'
    BY <1>4, BeginListStep DEF BeginRotate, Writing, WriteKinds
  <1>5. ASSUME NEW c \in Clients, GoOn(c) PROVE WindowInv'
    <2>1. CASE InsertConflict(c) \/ DecryptFails(c) \/ BackupTooLarge(c) \/ RestoreTooLarge(c)
                 \/ EndRestore(c)
      BY <2>1, InOp, EndStep DEF InsertConflict, DecryptFails, BackupTooLarge, RestoreTooLarge,
                                 EndRestore
    <2>2. CASE InsertRow(c)
      BY <2>2, InsertRowStep
    <2>3. CASE Decrypt(c) \/ WriteBackup(c) \/ CommitRotation(c)
      BY <2>3, DecryptStep, WriteBackupStep, CommitRotationStep
    <2>4. CASE \E i \in Ids : RestoreSkip(c, i) \/ RestoreDelete(c, i) \/ RestoreNew(c, i)
      BY <2>4, RestoreSkipStep, RestoreDeleteStep, RestoreNewStep
    <2>5. CASE RestoreKey(c) \/ Kill(c) \/ Restart(c)
      BY <2>5, RestoreKeyStep, KillStep, RestartStep
    <2> QED
      BY <1>5, <2>1, <2>2, <2>3, <2>4, <2>5 DEF GoOn
  <1> QED
    BY <1>1, <1>2, <1>3, <1>4, <1>5 DEF WindowNext

(* The inductive invariant of a vault with a maintenance window.             *)
THEOREM VaultWindowInvariant == WindowSpec => []WindowInv
  BY InitWindowInv, NextWindowInv, PTL DEF WindowSpec

(* Type correctness.                                                         *)
THEOREM VaultTypes == WindowSpec => []VaultTypeOK
  <1>1. WindowInv => VaultTypeOK
    BY DEF WindowInv
  <1> QED
    BY VaultWindowInvariant, <1>1, PTL

(* With a maintenance window around each rotation, every row opens with the  *)
(* owner's passphrase whatever operations interleave, fail or are killed.    *)
THEOREM VaultAllReadable == WindowSpec => []AllReadable
  <1>1. WindowInv => AllReadable
    BY DEF WindowInv
  <1> QED
    BY VaultWindowInvariant, <1>1, PTL

-----------------------------------------------------------------------------
(* What a step does to the table: nothing a reader sees, one capture more,   *)
(* or one less.                                                              *)
SameContents == \A i \in Ids : rows'[i].plain = rows[i].plain
OneMore == \E i \in Ids, x \in Contents :
    /\ rows[i].plain = Empty
    /\ \A k \in Ids : rows'[k].plain = IF k = i THEN x ELSE rows[k].plain
OneLess == \E i \in Ids :
    /\ rows[i].plain # Empty
    /\ \A k \in Ids : rows'[k].plain = IF k = i THEN Empty ELSE rows[k].plain

LEMMA RemovedRow ==
  ASSUME WindowInv, NEW i \in Ids, rows' = [rows EXCEPT ![i] = NoRow]
  PROVE  SameContents \/ OneLess
  <1>1. \A k \in Ids : rows'[k].plain = IF k = i THEN Empty ELSE rows[k].plain
    BY InOp DEF WindowInv, VaultTypeOK, Rows, NoRow
  <1>2. CASE rows[i].plain = Empty
    BY <1>1, <1>2 DEF SameContents
  <1>3. CASE rows[i].plain # Empty
    BY <1>1, <1>3 DEF OneLess
  <1> QED
    BY <1>2, <1>3

LEMMA StepOnTable ==
  ASSUME WindowInv, [WindowNext]_vars
  PROVE  SameContents \/ OneMore \/ OneLess
  <1>1. CASE UNCHANGED vars
    BY <1>1 DEF vars, SameContents
  <1>2. ASSUME NEW c \in Clients, BeginWrite(c) PROVE SameContents \/ OneLess
    <2>1. ASSUME NEW i \in Ids, Delete(c, i) PROVE SameContents \/ OneLess
      BY <2>1, RemovedRow DEF Delete
    <2> QED
      BY <1>2, <2>1 DEF BeginWrite, BeginInsert, BeginRestore, SameContents
  <1>3. ASSUME NEW c \in Clients, BeginList(c, "backup") \/ BeginRotate(c) PROVE SameContents
    BY <1>3 DEF BeginRotate, BeginList, SameContents
  <1>4. ASSUME NEW c \in Clients, GoOn(c) PROVE SameContents \/ OneMore \/ OneLess
    <2>1. CASE InsertRow(c)
      <3> DEFINE i == op[c].id
                 x == op[c].data[op[c].id]
      <3>1. i \in Ids /\ x \in Contents
        BY <2>1, InOp DEF InsertRow, OpOK, LocalsFit
      <3>2. rows[i] = NoRow /\ rows' = [rows EXCEPT ![i] = Seal(x, known[c], op[c].salt)]
        BY <2>1 DEF InsertRow
      <3> HIDE DEF i, x
      <3>3. rows[i].plain = Empty
        BY <3>2 DEF NoRow
      <3>4. \A k \in Ids : rows'[k].plain = IF k = i THEN x ELSE rows[k].plain
        BY <3>1, <3>2, InOp DEF Rows, Seal
      <3> QED
        BY <3>1, <3>3, <3>4 DEF OneMore
    <2>2. CASE CommitRotation(c)
      BY <2>2, CommitRows DEF SameContents
    <2>3. CASE \E i \in Ids : RestoreDelete(c, i)
      BY <2>3, RemovedRow DEF RestoreDelete
    <2>4. CASE InsertConflict(c) \/ Decrypt(c) \/ DecryptFails(c) \/ WriteBackup(c)
                 \/ BackupTooLarge(c) \/ RestoreKey(c) \/ RestoreTooLarge(c) \/ EndRestore(c)
                 \/ Kill(c) \/ Restart(c)
      BY <2>4 DEF InsertConflict, Decrypt, DecryptFails, WriteBackup, BackupTooLarge, RestoreKey,
                  RestoreTooLarge, EndRestore, Kill, Restart, SameContents
    <2>5. CASE \E i \in Ids : RestoreSkip(c, i) \/ RestoreNew(c, i)
      BY <2>5 DEF RestoreSkip, RestoreNew, SameContents
    <2> QED
      BY <1>4, <2>1, <2>2, <2>3, <2>4, <2>5 DEF GoOn
  <1> QED
    BY <1>1, <1>2, <1>3, <1>4 DEF WindowNext

(* What the owner sees is what the rows hold.                                *)
LEMMA SeenContents == WindowInv => \A i \in Ids : Seen(i) = rows[i].plain
  BY DEF WindowInv, AllReadable, Stored, Seen, NoRow

LEMMA StoreStep ==
  ASSUME WindowInv, WindowInv', [WindowNext]_vars
  PROVE  [Store!StoreNext]_([i \in Ids |-> Seen(i)])
  <1> DEFINE seen == [i \in Ids |-> Seen(i)]
  <1>1. \A i \in Ids : seen[i] = rows[i].plain
    BY SeenContents
  <1>2. (\A i \in Ids : Seen(i) = rows[i].plain)'
    BY SeenContents, PTL
  <1>3. \A i \in Ids : seen'[i] = rows'[i].plain
    BY <1>2
  <1>4. seen = [i \in Ids |-> seen[i]] /\ seen' = [i \in Ids |-> seen'[i]]
    OBVIOUS
  <1>5. CASE SameContents
    <2>1. \A i \in Ids : seen'[i] = seen[i]
      BY <1>1, <1>3, <1>5 DEF SameContents
    <2> HIDE DEF seen
    <2>2. seen' = seen
      BY <1>4, <2>1
    <2> USE DEF seen
    <2> QED
      BY <2>2
  <1>6. CASE OneMore
    <2>1. PICK i \in Ids, x \in Contents :
            /\ rows[i].plain = Empty
            /\ \A k \in Ids : rows'[k].plain = IF k = i THEN x ELSE rows[k].plain
      BY <1>6 DEF OneMore
    <2>2. seen[i] = Empty
      BY <1>1, <2>1
    <2>3. \A k \in Ids : seen'[k] = IF k = i THEN x ELSE seen[k]
      BY <1>1, <1>3, <2>1
    <2> HIDE DEF seen
    <2>4. seen' = [seen EXCEPT ![i] = x]
      BY <1>4, <2>3
    <2> USE DEF seen
    <2>5. Store!Put(i, x)
      BY <2>2, <2>4 DEF Store!Put
    <2> QED
      BY <2>5 DEF Store!StoreNext
  <1>7. CASE OneLess
    <2>1. PICK i \in Ids :
            /\ rows[i].plain # Empty
            /\ \A k \in Ids : rows'[k].plain = IF k = i THEN Empty ELSE rows[k].plain
      BY <1>7 DEF OneLess
    <2>2. seen[i] # Empty
      BY <1>1, <2>1
    <2>3. \A k \in Ids : seen'[k] = IF k = i THEN Empty ELSE seen[k]
      BY <1>1, <1>3, <2>1
    <2> HIDE DEF seen
    <2>4. seen' = [seen EXCEPT ![i] = Empty]
      BY <1>4, <2>3
    <2> USE DEF seen
    <2>5. Store!Remove(i)
      BY <2>2, <2>4 DEF Store!Remove
    <2> QED
      BY <2>5 DEF Store!StoreNext
  <1> QED
    BY StepOnTable, <1>5, <1>6, <1>7

(* Seen through the owner's passphrase, the vault with its maintenance       *)
(* window is a store of captures.                                            *)
THEOREM VaultImplementsStore == WindowSpec => ImplementsStore
  <1>1. VaultInit => Store!StoreInit
    <2> SUFFICES ASSUME VaultInit PROVE Store!StoreInit
      OBVIOUS
    <2>1. \A i \in Ids : Seen(i) = Empty
      BY DEF VaultInit, Seen, NoRows
    <2> QED
      BY <2>1 DEF Store!StoreInit
  <1>2. WindowInv /\ WindowInv' /\ [WindowNext]_vars => [Store!StoreNext]_([i \in Ids |-> Seen(i)])
    BY StoreStep
  <1> QED
    BY VaultWindowInvariant, <1>1, <1>2, PTL DEF WindowSpec, ImplementsStore, Store!StoreSpec


-----------------------------------------------------------------------------
(* What a restore with locals r has done to a table t: the ids that it has   *)
(* found in the table and still has to visit are there, and the ids it has   *)
(* left behind are in place, except the one it is about to insert, and those *)
(* that somebody else deleted.                                               *)
InPlace(r, t, i) == t[i] # NoRow /\ (r.replace => t[i].plain = r.data[i])

Restoring(r, t) ==
    r.kind = "restore" =>
      /\ \A i \in (r.todo \cap r.old) \ r.undone : t[i] # NoRow
      /\ \A i \in Held(r.data) \ (r.todo \cup r.undone) :
           InPlace(r, t, i) \/ (r.pc \in {"key", "insert"} /\ r.id = i)

RestoreInv == WindowInv /\ \A c \in Clients : Restoring(op[c], rows)

(* A step of another client keeps what a restore relies on: it may only add  *)
(* rows, delete rows that the restore remembers as undone, or seal the same  *)
(* captures again.                                                           *)
LEMMA RestoringKept ==
  ASSUME NEW r \in Op, NEW s, NEW t, NEW u, Restoring(r, t),
         s.kind = "restore" =>
           /\ r.kind = "restore" /\ s.pc = r.pc /\ s.id = r.id /\ s.data = r.data /\ s.todo = r.todo
           /\ s.old = r.old /\ s.replace = r.replace /\ r.undone \subseteq s.undone,
         \A i \in Ids : t[i] # NoRow => \/ u[i] # NoRow /\ u[i].plain = t[i].plain
                                        \/ i \in s.undone
  PROVE  Restoring(s, u)
  <1> SUFFICES ASSUME s.kind = "restore"
               PROVE  /\ \A i \in (s.todo \cap s.old) \ s.undone : u[i] # NoRow
                      /\ \A i \in Held(s.data) \ (s.todo \cup s.undone) :
                           InPlace(s, u, i) \/ (s.pc \in {"key", "insert"} /\ s.id = i)
    BY DEF Restoring
  <1>1. r.todo \subseteq Ids /\ Held(r.data) \subseteq Ids
    BY DEF Op, Held
  <1>2. \A i \in (s.todo \cap s.old) \ s.undone : u[i] # NoRow
    BY <1>1 DEF Restoring
  <1>3. ASSUME NEW i \in Held(s.data) \ (s.todo \cup s.undone)
        PROVE  InPlace(s, u, i) \/ (s.pc \in {"key", "insert"} /\ s.id = i)
    <2>1. i \in Held(r.data) \ (r.todo \cup r.undone) /\ i \in Ids
      BY <1>1
    <2>2. InPlace(r, t, i) \/ (r.pc \in {"key", "insert"} /\ r.id = i)
      BY <2>1 DEF Restoring
    <2> QED
      BY <2>1, <2>2 DEF InPlace
  <1> QED
    BY <1>2, <1>3

LEMMA OthersRestoring ==
  ASSUME RestoreInv, NEW c \in Clients, NEW d \in Clients, d # c,
         BeginWrite(c) \/ BeginList(c, "backup") \/ BeginRotate(c) \/ GoOn(c)
  PROVE  Restoring(op'[d], rows')
  <1>0. WindowInv /\ Restoring(op[d], rows) /\ op[d] \in Op /\ op \in [Clients -> Op] /\ rows \in Rows
    BY InOp DEF RestoreInv
  <1>1. ASSUME NEW i \in Ids, rows' = [rows EXCEPT ![i] = NoRow], op'[d] = Undone(c, i)[d]
        PROVE  Restoring(op'[d], rows')
    <2>1. \A k \in Ids : rows'[k] = IF k = i THEN NoRow ELSE rows[k]
      BY <1>0, <1>1 DEF Rows
    <2>2. CASE op[d].kind = "restore"
      <3> DEFINE s == [op[d] EXCEPT !.undone = @ \cup {i}]
      <3>1. op'[d] = s
        BY <1>1, <2>2 DEF Undone
      <3>2. /\ s.kind = op[d].kind /\ s.pc = op[d].pc /\ s.id = op[d].id /\ s.data = op[d].data
            /\ s.todo = op[d].todo /\ s.old = op[d].old /\ s.replace = op[d].replace
            /\ s.undone = op[d].undone \cup {i}
        BY <1>0 DEF Op
      <3> HIDE DEF s
      <3> QED
        BY <1>0, <2>1, <2>2, <3>1, <3>2, RestoringKept
    <2>3. CASE op[d].kind # "restore"
      BY <1>1, <2>3 DEF Undone, Restoring
    <2> QED
      BY <2>2, <2>3
  <1>2. ASSUME op'[d] = op[d],
               \A i \in Ids : rows[i] # NoRow => rows'[i] # NoRow /\ rows'[i].plain = rows[i].plain
        PROVE  Restoring(op'[d], rows')
    BY <1>0, <1>2, RestoringKept
  <1>3. CASE UNCHANGED rows /\ op'[d] = op[d]
    BY <1>2, <1>3
  <1>4. CASE \E i \in Ids : Delete(c, i)
    BY <1>1, <1>4 DEF Delete
  <1>5. CASE \E i \in Ids : RestoreDelete(c, i)
    <2>1. PICK i \in Ids : RestoreDelete(c, i)
      BY <1>5
    <2>2. op'[d] = Undone(c, i)[d]
      BY <2>1 DEF RestoreDelete, Undone
    <2> QED
      BY <1>1, <2>1, <2>2 DEF RestoreDelete
  <1>6. CASE InsertRow(c)
    <2>1. op'[d] = op[d]
      BY <1>0, <1>6 DEF InsertRow, EndOp
    <2>2. \A i \in Ids : rows[i] # NoRow => rows'[i] = rows[i]
      BY <1>0, <1>6 DEF InsertRow, Rows
    <2> QED
      BY <1>2, <2>1, <2>2
  <1>7. CASE CommitRotation(c)
    <2>1. op'[d] = op[d]
      BY <1>0, <1>7 DEF CommitRotation, EndOp
    <2> QED
      BY <1>0, <1>2, <1>7, <2>1, CommitRows
  <1>8. \/ UNCHANGED rows /\ op'[d] = op[d]
        \/ InsertRow(c) \/ CommitRotation(c)
        \/ \E i \in Ids : Delete(c, i) \/ RestoreDelete(c, i)
    <2>1. CASE BeginWrite(c)
      BY <1>0, <2>1 DEF BeginWrite, BeginInsert, BeginRestore
    <2>2. CASE BeginList(c, "backup") \/ BeginRotate(c)
      BY <1>0, <2>2 DEF BeginList, BeginRotate
    <2>3. CASE InsertConflict(c) \/ DecryptFails(c) \/ WriteBackup(c) \/ BackupTooLarge(c)
               \/ RestoreTooLarge(c) \/ EndRestore(c) \/ Kill(c) \/ Restart(c)
      BY <1>0, <2>3 DEF InsertConflict, DecryptFails, WriteBackup, BackupTooLarge, RestoreTooLarge,
                        EndRestore, Kill, Restart, EndOp
    <2>4. CASE Decrypt(c)
      BY <1>0, <2>4 DEF Decrypt
    <2>5. CASE RestoreKey(c)
      BY <1>0, <2>5 DEF RestoreKey
    <2>6. CASE \E i \in Ids : RestoreSkip(c, i) \/ RestoreNew(c, i)
      BY <1>0, <2>6 DEF RestoreSkip, RestoreNew
    <2> QED
      BY <2>1, <2>2, <2>3, <2>4, <2>5, <2>6 DEF GoOn
  <1> QED
    BY <1>3, <1>4, <1>5, <1>6, <1>7, <1>8

(* What a restore does itself, from one capture of the backup to the next.   *)
LEMMA RestoreGoesOn ==
  ASSUME RestoreInv, NEW c \in Clients, op[c].kind = "restore",
         \/ \E i \in Ids : RestoreSkip(c, i) \/ RestoreDelete(c, i) \/ RestoreNew(c, i)
         \/ RestoreKey(c) \/ InsertRow(c)
  PROVE  Restoring(op'[c], rows')
  <1>0. /\ WindowInv /\ Restoring(op[c], rows) /\ op[c] \in Op /\ op \in [Clients -> Op]
        /\ rows \in Rows
    BY InOp DEF RestoreInv
  <1>1. /\ \A i \in (op[c].todo \cap op[c].old) \ op[c].undone : rows[i] # NoRow
        /\ \A i \in Held(op[c].data) \ (op[c].todo \cup op[c].undone) :
             InPlace(op[c], rows, i) \/ (op[c].pc \in {"key", "insert"} /\ op[c].id = i)
    BY <1>0 DEF Restoring
  <1>2. Held(op[c].data) \subseteq Ids /\ op[c].todo \subseteq Ids
    BY <1>0 DEF Held, Op
  <1>3. ASSUME NEW i \in Ids, RestoreSkip(c, i) PROVE Restoring(op'[c], rows')
    <2> DEFINE s == [op[c] EXCEPT !.todo = @ \ {i}]
    <2>1. op'[c] = s /\ rows' = rows /\ op[c].pc = "next" /\ i \in op[c].old /\ i \in op[c].todo
          /\ ~op[c].replace
      BY <1>0, <1>3 DEF RestoreSkip
    <2>2. /\ s.todo = op[c].todo \ {i} /\ s.old = op[c].old /\ s.undone = op[c].undone
          /\ s.data = op[c].data /\ s.replace = op[c].replace
      BY <1>0 DEF Op
    <2> HIDE DEF s
    <2> QED
      BY <1>1, <1>2, <2>1, <2>2 DEF Restoring, InPlace
  <1>4. ASSUME NEW i \in Ids, RestoreNew(c, i) \/ RestoreDelete(c, i) PROVE Restoring(op'[c], rows')
    <2> DEFINE s == [op[c] EXCEPT !.todo = @ \ {i}, !.id = i, !.pc = "key"]
    <2>1. op'[c] = s /\ op[c].pc = "next"
      BY <1>0, <1>4, UndoneFits DEF RestoreNew, RestoreDelete
    <2>2. \A k \in Ids \ {i} : rows'[k] = rows[k]
      BY <1>0, <1>4 DEF RestoreNew, RestoreDelete, Rows
    <2>3. /\ s.todo = op[c].todo \ {i} /\ s.old = op[c].old /\ s.undone = op[c].undone
          /\ s.data = op[c].data /\ s.replace = op[c].replace /\ s.id = i /\ s.pc = "key"
      BY <1>0 DEF Op
    <2> HIDE DEF s
    <2>4. \A k \in (s.todo \cap s.old) \ s.undone : rows'[k] # NoRow
      BY <1>1, <1>2, <2>2, <2>3
    <2>5. \A k \in Held(s.data) \ (s.todo \cup s.undone) :
            InPlace(s, rows', k) \/ (s.pc \in {"key", "insert"} /\ s.id = k)
      BY <1>1, <1>2, <2>1, <2>2, <2>3 DEF InPlace
    <2> QED
      BY <2>1, <2>4, <2>5 DEF Restoring
  <1>5. CASE RestoreKey(c)
    <2> DEFINE s == [op[c] EXCEPT !.salt = salt, !.pc = "insert"]
    <2>1. op'[c] = s /\ rows' = rows
      BY <1>0, <1>5 DEF RestoreKey
    <2>2. /\ s.todo = op[c].todo /\ s.old = op[c].old /\ s.undone = op[c].undone /\ s.id = op[c].id
          /\ s.data = op[c].data /\ s.replace = op[c].replace /\ s.pc = "insert"
      BY <1>0 DEF Op
    <2> HIDE DEF s
    <2> QED
      BY <1>1, <2>1, <2>2 DEF Restoring, InPlace
  <1>6. CASE InsertRow(c)
    <2> DEFINE s == [op[c] EXCEPT !.pc = "next"]
               k == op[c].id
               new == Seal(op[c].data[k], known[c], op[c].salt)
    <2>1. op'[c] = s /\ rows' = [rows EXCEPT ![k] = new] /\ op[c].pc = "insert"
      BY <1>0, <1>6 DEF InsertRow
    <2>2. /\ s.todo = op[c].todo /\ s.old = op[c].old /\ s.undone = op[c].undone
          /\ s.data = op[c].data /\ s.replace = op[c].replace
      BY <1>0 DEF Op
    <2>3. k \in Ids /\ op[c].data[k] \in Contents
      BY <1>0, <2>1, InOp DEF OpOK, LocalsFit
    <2>4. new.plain = op[c].data[k] /\ new # NoRow
      BY <2>3, VaultAssumption DEF Seal, NoRow
    <2> HIDE DEF s, k, new
    <2>5. \A i \in Ids : rows'[i] = IF i = k THEN new ELSE rows[i]
      BY <1>0, <2>1, <2>3 DEF Rows
    <2>6. \A i \in (s.todo \cap s.old) \ s.undone : rows'[i] # NoRow
      BY <1>1, <1>2, <2>2, <2>4, <2>5
    <2>7. \A i \in Held(s.data) \ (s.todo \cup s.undone) : InPlace(s, rows', i)
      BY <1>1, <1>2, <2>2, <2>4, <2>5 DEF InPlace, k
    <2> QED
      BY <2>1, <2>6, <2>7 DEF Restoring
  <1> QED
    BY <1>3, <1>4, <1>5, <1>6

LEMMA OwnRestoring ==
  ASSUME RestoreInv, NEW c \in Clients,
         BeginWrite(c) \/ BeginList(c, "backup") \/ BeginRotate(c) \/ GoOn(c)
  PROVE  Restoring(op'[c], rows')
  <1>0. /\ WindowInv /\ Restoring(op[c], rows) /\ op[c] \in Op /\ op \in [Clients -> Op]
        /\ StepFits(op[c])
    BY InOp DEF RestoreInv, OpOK
  <1>1. NoOp.kind = "none" /\ NoOp \in Op
    BY NoOpOK DEF NoOp, OpOK
  <1>2. CASE op'[c].kind # "restore"
    BY <1>2 DEF Restoring
  <1>3. ASSUME NEW replace \in BOOLEAN, BeginRestore(c, replace) PROVE Restoring(op'[c], rows')
    <2> DEFINE s == [NoOp EXCEPT !.kind = "restore", !.pc = "next", !.data = backup.data,
                                 !.todo = Held(backup.data), !.old = Stored(rows),
                                 !.replace = replace]
    <2>1. op'[c] = s /\ rows' = rows
      BY <1>0, <1>3 DEF BeginRestore
    <2>2. s.data = backup.data /\ s.todo = Held(backup.data) /\ s.old = Stored(rows)
      BY DEF NoOp
    <2> HIDE DEF s
    <2> QED
      BY <2>1, <2>2 DEF Restoring, Stored
  <1>4. CASE Restart(c)
    BY <1>0, <1>4 DEF Restart
  <1>5. CASE op[c].kind = "restore" /\ (RestoreKey(c) \/ InsertRow(c))
    BY <1>5, RestoreGoesOn
  <1>6. CASE \E i \in Ids : RestoreSkip(c, i) \/ RestoreDelete(c, i) \/ RestoreNew(c, i)
    <2>1. op[c].kind = "restore"
      BY <1>0, <1>6 DEF RestoreSkip, RestoreDelete, RestoreNew, StepFits
    <2> QED
      BY <1>6, <2>1, RestoreGoesOn
  <1>7. ASSUME NEW i \in Ids, (\E x \in Contents : BeginInsert(c, i, x)) \/ Delete(c, i)
        PROVE  op'[c].kind # "restore"
    BY <1>0, <1>1, <1>7 DEF BeginInsert, Delete, Undone, Idle, StepFits, NoOp
  <1>8. CASE BeginList(c, "backup") \/ BeginRotate(c)
    <2>1. op'[c].kind # "restore"
      BY <1>0, <1>1, <1>8 DEF BeginList, BeginRotate, NoOp
    <2> QED
      BY <1>2, <2>1
  <1>9. CASE op[c].kind # "restore" /\ InsertRow(c)
    <2>1. op'[c].kind # "restore"
      BY <1>0, <1>1, <1>9 DEF InsertRow, EndOp
    <2> QED
      BY <1>2, <2>1
  <1>10. CASE InsertConflict(c) \/ DecryptFails(c) \/ WriteBackup(c) \/ BackupTooLarge(c)
              \/ RestoreTooLarge(c) \/ EndRestore(c) \/ Kill(c) \/ CommitRotation(c)
    <2>1. op'[c] = NoOp
      BY <1>0, <1>10 DEF InsertConflict, DecryptFails, WriteBackup, BackupTooLarge, RestoreTooLarge,
                         EndRestore, Kill, CommitRotation, EndOp
    <2> QED
      BY <1>1, <1>2, <2>1
  <1>11. CASE Decrypt(c)
    <2>1. op[c].pc = "decrypt" /\ op[c].kind # "restore"
      BY <1>0, <1>11 DEF Decrypt, StepFits
    <2> DEFINE data == [i \in Ids |-> op[c].list[i].plain]
    <2>2. \/ op' = [op EXCEPT ![c].pc = "write", ![c].data = data, ![c].list = NoRows]
          \/ op' = [op EXCEPT ![c].pc = "commit", ![c].data = data]
      BY <1>11 DEF Decrypt
    <2> HIDE DEF data
    <2>3. op'[c].kind = op[c].kind
      BY <1>0, <2>2 DEF Op
    <2> QED
      BY <1>2, <2>1, <2>3
  <1>12. ASSUME RestoreKey(c) PROVE op[c].kind = "restore"
    BY <1>0, <1>12 DEF RestoreKey, StepFits
  <1>13. CASE BeginWrite(c)
    BY <1>2, <1>3, <1>7, <1>13 DEF BeginWrite
  <1>14. CASE GoOn(c)
    BY <1>4, <1>5, <1>6, <1>9, <1>10, <1>11, <1>12, <1>14 DEF GoOn
  <1> QED
    BY <1>8, <1>13, <1>14

LEMMA NextRestoreInv == RestoreInv /\ [WindowNext]_vars => RestoreInv'
  <1> SUFFICES ASSUME RestoreInv, [WindowNext]_vars PROVE RestoreInv'
    OBVIOUS
  <1>1. WindowInv'
    BY NextWindowInv DEF RestoreInv
  <1>2. \A d \in Clients : Restoring(op'[d], rows')
    <2>1. CASE UNCHANGED vars
      BY <2>1 DEF vars, RestoreInv
    <2>2. CASE WindowNext
      <3>1. PICK c \in Clients : BeginWrite(c) \/ BeginList(c, "backup") \/ BeginRotate(c) \/ GoOn(c)
        BY <2>2 DEF WindowNext
      <3> QED
        BY <3>1, OwnRestoring, OthersRestoring
    <2> QED
      BY <2>1, <2>2
  <1>3. (\A d \in Clients : Restoring(op[d], rows))'
    BY <1>2 DEF Restoring, InPlace, Held
  <1> QED
    BY <1>1, <1>3 DEF RestoreInv

(* The inductive invariant of restores among other operations.               *)
THEOREM VaultRestoreInvariant == WindowSpec => []RestoreInv
  <1>1. VaultInit => RestoreInv
    BY InitWindowInv DEF RestoreInv, VaultInit, NoOp, Restoring
  <1> QED
    BY <1>1, NextRestoreInv, PTL DEF WindowSpec

(* A restore that runs to its end leaves every capture of the backup in      *)
(* place, with --replace with the backup's content, except where somebody    *)
(* else has deleted a row, whatever reads and writes come between its        *)
(* transactions.                                                             *)
THEOREM VaultRestoreMakesWhole == WindowSpec => RestoreMakesWhole
  <1> DEFINE A == \A c \in Clients :
         op[c].kind = "restore" /\ op[c].pc = "next" /\ op[c].todo = {} /\ op'[c] = NoOp
         => \A i \in Held(op[c].data) \ op[c].undone :
              /\ rows[i] # NoRow
              /\ op[c].replace => rows[i].plain = op[c].data[i]
  <1>1. RestoreInv => A
    <2> SUFFICES ASSUME RestoreInv, NEW c \in Clients,
                        op[c].kind = "restore", op[c].pc = "next", op[c].todo = {},
                        NEW i \in Held(op[c].data) \ op[c].undone
                 PROVE  rows[i] # NoRow /\ (op[c].replace => rows[i].plain = op[c].data[i])
      OBVIOUS
    <2>1. Restoring(op[c], rows)
      BY DEF RestoreInv
    <2> QED
      BY <2>1 DEF Restoring, InPlace
  <1>2. RestoreInv /\ [WindowNext]_vars => [A]_vars
    BY <1>1
  <1> QED
    BY VaultRestoreInvariant, <1>2, PTL DEF WindowSpec, RestoreMakesWhole
=============================================================================
