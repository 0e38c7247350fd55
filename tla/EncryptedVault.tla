--------------------------- MODULE EncryptedVault ---------------------------
(***************************************************************************)
(* companion/encrypted_vault.py: the rows of an SQLite table, each sealed  *)
(* with a key derived from a passphrase and from the salt in the table of  *)
(* metadata.                                                               *)
(*                                                                         *)
(* Every transaction is a step.  What an operation reads in one and uses   *)
(* in another is in its locals: the salt of an insert, the rows of a       *)
(* listing, the ids a restore found.  Any process may hold a vault object, *)
(* with the passphrase it was given when it was started.                   *)
(*                                                                         *)
(* A passphrase or a salt is named by the rotation that introduced it (0:  *)
(* the first ones), so the number in `salt` also names the passphrase that *)
(* the owner regards as the vault's.                                       *)
(***************************************************************************)
EXTENDS Naturals, FiniteSets, FiniteSetsExt

CONSTANTS
    Ids,            \* capture ids
    Contents,       \* what a capture holds: title, body, payload and metadata
    Empty,          \* nothing stored under an id
    Unreadable,     \* a row that does not decrypt
    Clients,        \* processes and threads with a vault object
    Size,           \* content -> its share of a backup's plaintext
    MaxBackup,      \* MAX_BACKUP_BYTES, in the unit of Size
    Swollen,        \* contents that no longer fit MAX_CAPTURE_BYTES when they
                    \* come back from a backup, which adds a field to them
    MaxRotations    \* bound: rotations

ASSUME VaultAssumption ==
    /\ Empty \notin Contents /\ Unreadable \notin Contents /\ Empty # Unreadable
    /\ IsFiniteSet(Ids)
    /\ Size \in [Contents -> Nat]
    /\ Swollen \subseteq Contents
    /\ MaxBackup \in Nat /\ MaxRotations \in Nat

VARIABLES
    rows,       \* encrypted_mobile_captures: id -> its row, if any
    salt,       \* encrypted_vault_meta: the salt (and the key_id made from it)
    backup,     \* the backup file: missing, cut short, or the captures it holds
    known,      \* client -> the passphrase it was started with
    op          \* client -> the operation it is in and its locals

vars == <<rows, salt, backup, known, op>>

-----------------------------------------------------------------------------
(* `meta` is the content the columns beside the ciphertext belong to; they   *)
(* are the associated data of the encryption.                                *)
Rotations == 0..MaxRotations
Row == [plain : Contents, meta : Contents, pass : Rotations, salt : Rotations]
NoRow == [plain |-> Empty, meta |-> Empty, pass |-> 0, salt |-> 0]
Rows == [Ids -> Row \cup {NoRow}]
Captures == [Ids -> Contents \cup {Empty}]

NoCaptures == [i \in Ids |-> Empty]
NoRows == [i \in Ids |-> NoRow]

Backup == [state : {"missing", "cut", "whole"}, data : Captures]

Seal(x, p, s) == [plain |-> x, meta |-> x, pass |-> p, salt |-> s]

(* decrypt_capture_row: the key comes from the salt stored now, not from the *)
(* one the row was sealed with.                                              *)
Opens(row, p) ==
    row.plain = row.meta /\ row.pass = p /\ row.salt = salt

Kinds == {"none", "insert", "backup", "rotate", "restore"}
Steps == {"idle", "decrypt", "write", "commit", "next", "key", "insert"}

Op == [kind : Kinds, pc : Steps, id : Ids \cup {Empty}, salt : Rotations,
       list : Rows, data : Captures, todo : SUBSET Ids, old : SUBSET Ids,
       replace : BOOLEAN, undone : SUBSET Ids]

NoOp == [kind |-> "none", pc |-> "idle", id |-> Empty, salt |-> 0,
         list |-> NoRows, data |-> NoCaptures, todo |-> {}, old |-> {},
         replace |-> FALSE, undone |-> {}]

VaultInit ==
    /\ rows = NoRows
    /\ salt = 0
    /\ backup = [state |-> "missing", data |-> NoCaptures]
    /\ known = [c \in Clients |-> 0]
    /\ op = [c \in Clients |-> NoOp]

Stored(r) == {i \in Ids : r[i] # NoRow}
Held(d) == {i \in Ids : d[i] # Empty}

(* The plaintext of a backup, and the file it becomes: base64 makes four     *)
(* characters of three bytes.                                                *)
PlainSize(d) == MapThenSumSet(LAMBDA i : Size[d[i]], Held(d))
FileSize(d) == 4 * ((PlainSize(d) + 2) \div 3)

(* decrypt_backup_payload: what is missing, cut short or too large is        *)
(* refused; the limit is here applied to the file.                           *)
Restorable == backup.state = "whole" /\ FileSize(backup.data) <= MaxBackup

Idle(c) == op[c].pc = "idle"
EndOp(c) == op' = [op EXCEPT ![c] = NoOp]

(* The locals of the others after c has deleted a row: restores under way    *)
(* remember (an observation) that one of their ids may be gone again.        *)
Undone(c, i) ==
    [d \in Clients |->
        IF d # c /\ op[d].kind = "restore" THEN [op[d] EXCEPT !.undone = @ \cup {i}] ELSE op[d]]

-----------------------------------------------------------------------------
(* encrypt_capture_record.                                                   *)
BeginInsert(c, i, x) ==
    /\ Idle(c)
    /\ op' = [op EXCEPT ![c] = [NoOp EXCEPT !.kind = "insert", !.pc = "insert", !.id = i,
                                            !.salt = salt,
                                            !.data = [NoCaptures EXCEPT ![i] = x]]]
    /\ UNCHANGED <<rows, salt, backup, known>>

(* Mutant: INSERT OR REPLACE.                                                *)
InsertRowOver(c) ==
    /\ op[c].pc = "insert"
    /\ LET i == op[c].id IN
         rows' = [rows EXCEPT ![i] = Seal(op[c].data[i], known[c], op[c].salt)]
    /\ IF op[c].kind = "restore"
         THEN op' = [op EXCEPT ![c].pc = "next"]
         ELSE EndOp(c)
    /\ UNCHANGED <<salt, backup, known>>

InsertRow(c) ==
    /\ op[c].pc = "insert"
    /\ rows[op[c].id] = NoRow
    /\ LET i == op[c].id IN
         rows' = [rows EXCEPT ![i] = Seal(op[c].data[i], known[c], op[c].salt)]
    /\ IF op[c].kind = "restore"
         THEN op' = [op EXCEPT ![c].pc = "next"]
         ELSE EndOp(c)
    /\ UNCHANGED <<salt, backup, known>>

(* The primary key is taken: the operation, a whole restore included, ends   *)
(* with an IntegrityError.                                                   *)
InsertConflict(c) ==
    /\ op[c].pc = "insert"
    /\ rows[op[c].id] # NoRow
    /\ EndOp(c)
    /\ UNCHANGED <<rows, salt, backup, known>>

(* delete_encrypted_capture.                                                 *)
Delete(c, i) ==
    /\ Idle(c)
    /\ rows[i] # NoRow
    /\ rows' = [rows EXCEPT ![i] = NoRow]
    /\ op' = Undone(c, i)
    /\ UNCHANGED <<salt, backup, known>>

-----------------------------------------------------------------------------
(* list_decrypted_captures, at the start of a backup or a rotation: the rows *)
(* are selected first and decrypted afterwards, and one row that does not    *)
(* open fails the whole listing.                                             *)
BeginList(c, kind) ==
    /\ Idle(c)
    /\ op' = [op EXCEPT ![c] = [NoOp EXCEPT !.kind = kind, !.pc = "decrypt", !.list = rows]]
    /\ UNCHANGED <<rows, salt, backup, known>>

(* The rotation script asks for the path of an existing backup.              *)
BeginRotate(c) ==
    /\ backup.state # "missing"
    /\ salt < MaxRotations
    /\ BeginList(c, "rotate")

Decrypt(c) ==
    /\ op[c].pc = "decrypt"
    /\ \A i \in Stored(op[c].list) : Opens(op[c].list[i], known[c])
    /\ LET data == [i \in Ids |-> op[c].list[i].plain] IN
         IF op[c].kind = "backup"
           THEN op' = [op EXCEPT ![c].pc = "write", ![c].data = data, ![c].list = NoRows]
           ELSE op' = [op EXCEPT ![c].pc = "commit", ![c].data = data]
    /\ UNCHANGED <<rows, salt, backup, known>>

DecryptFails(c) ==
    /\ op[c].pc = "decrypt"
    /\ \E i \in Stored(op[c].list) : ~Opens(op[c].list[i], known[c])
    /\ EndOp(c)
    /\ UNCHANGED <<rows, salt, backup, known>>

(* export_encrypted_backup: the limit is applied to the plaintext.           *)
WriteBackup(c) ==
    /\ op[c].pc = "write"
    /\ PlainSize(op[c].data) <= MaxBackup
    /\ backup' = [state |-> "whole", data |-> op[c].data]
    /\ EndOp(c)
    /\ UNCHANGED <<rows, salt, known>>

BackupTooLarge(c) ==
    /\ op[c].pc = "write"
    /\ PlainSize(op[c].data) > MaxBackup
    /\ EndOp(c)
    /\ UNCHANGED <<rows, salt, backup, known>>

(* Mutant: the new ciphertexts are made with the old salt.                   *)
CommitRotationOldSalt(c) ==
    /\ op[c].pc = "commit"
    /\ salt < MaxRotations
    /\ rows' = [i \in Ids |->
                  IF op[c].list[i] # NoRow /\ rows[i] # NoRow
                    THEN [rows[i] EXCEPT !.plain = op[c].data[i], !.pass = salt + 1, !.salt = salt]
                    ELSE rows[i]]
    /\ salt' = salt + 1
    /\ known' = [known EXCEPT ![c] = salt + 1]
    /\ EndOp(c)
    /\ UNCHANGED <<backup>>

(* The last transaction of rotate_vault_passphrase: a new salt, and new      *)
(* ciphertexts under the listed ids that are still there.  The columns       *)
(* beside the ciphertext are not written.                                    *)
CommitRotation(c) ==
    /\ op[c].pc = "commit"
    /\ salt < MaxRotations
    /\ rows' = [i \in Ids |->
                  IF op[c].list[i] # NoRow /\ rows[i] # NoRow
                    THEN [rows[i] EXCEPT !.plain = op[c].data[i],
                                         !.pass = salt + 1, !.salt = salt + 1]
                    ELSE rows[i]]
    /\ salt' = salt + 1
    /\ known' = [known EXCEPT ![c] = salt + 1]
    /\ EndOp(c)
    /\ UNCHANGED <<backup>>

-----------------------------------------------------------------------------
(* Mutant: the ids of the backup, not of the table, count as existing.       *)
BeginRestoreTrusting(c, replace) ==
    /\ Idle(c)
    /\ Restorable
    /\ op' = [op EXCEPT ![c] = [NoOp EXCEPT !.kind = "restore", !.pc = "next",
                                            !.data = backup.data, !.todo = Held(backup.data),
                                            !.old = Held(backup.data), !.replace = replace]]
    /\ UNCHANGED <<rows, salt, backup, known>>

(* restore_encrypted_backup: the file is decrypted, and the ids in the table *)
(* are read once.                                                            *)
BeginRestore(c, replace) ==
    /\ Idle(c)
    /\ Restorable
    /\ op' = [op EXCEPT ![c] = [NoOp EXCEPT !.kind = "restore", !.pc = "next",
                                            !.data = backup.data, !.todo = Held(backup.data),
                                            !.old = Stored(rows), !.replace = replace]]
    /\ UNCHANGED <<rows, salt, backup, known>>

RestoreSkip(c, i) ==
    /\ op[c].pc = "next"
    /\ i \in op[c].todo \cap op[c].old
    /\ ~op[c].replace
    /\ op' = [op EXCEPT ![c].todo = @ \ {i}]
    /\ UNCHANGED <<rows, salt, backup, known>>

(* An existing capture is deleted in a transaction of its own.               *)
RestoreDelete(c, i) ==
    /\ op[c].pc = "next"
    /\ i \in op[c].todo \cap op[c].old
    /\ op[c].replace
    /\ rows' = [rows EXCEPT ![i] = NoRow]
    /\ op' = [Undone(c, i) EXCEPT ![c].todo = @ \ {i}, ![c].id = i, ![c].pc = "key"]
    /\ UNCHANGED <<salt, backup, known>>

RestoreNew(c, i) ==
    /\ op[c].pc = "next"
    /\ i \in op[c].todo \ op[c].old
    /\ op' = [op EXCEPT ![c].todo = @ \ {i}, ![c].id = i, ![c].pc = "key"]
    /\ UNCHANGED <<rows, salt, backup, known>>

(* encrypt_capture_record: the record is checked, then the salt is read.     *)
RestoreKey(c) ==
    /\ op[c].pc = "key"
    /\ op[c].data[op[c].id] \notin Swollen
    /\ op' = [op EXCEPT ![c].salt = salt, ![c].pc = "insert"]
    /\ UNCHANGED <<rows, salt, backup, known>>

RestoreTooLarge(c) ==
    /\ op[c].pc = "key"
    /\ op[c].data[op[c].id] \in Swollen
    /\ EndOp(c)
    /\ UNCHANGED <<rows, salt, backup, known>>

EndRestore(c) ==
    /\ op[c].pc = "next"
    /\ op[c].todo = {}
    /\ EndOp(c)
    /\ UNCHANGED <<rows, salt, backup, known>>

-----------------------------------------------------------------------------
(* An operation is killed: what it has committed stays, and a file that was  *)
(* being written may be cut short.                                           *)
Kill(c) ==
    /\ ~Idle(c)
    /\ EndOp(c)
    /\ \/ UNCHANGED backup
       \/ /\ op[c].pc = "write"
          /\ PlainSize(op[c].data) <= MaxBackup
          /\ backup' = [state |-> "cut", data |-> NoCaptures]
    /\ UNCHANGED <<rows, salt, known>>

(* A process is started again, with the passphrase the owner now uses.       *)
Restart(c) ==
    /\ Idle(c)
    /\ known[c] # salt
    /\ known' = [known EXCEPT ![c] = salt]
    /\ UNCHANGED <<rows, salt, backup, op>>

BeginWrite(c) ==
    \/ \E i \in Ids, x \in Contents : BeginInsert(c, i, x)
    \/ \E i \in Ids : Delete(c, i)
    \/ \E replace \in BOOLEAN : BeginRestore(c, replace)

GoOn(c) ==
    \/ InsertRow(c) \/ InsertConflict(c)
    \/ Decrypt(c) \/ DecryptFails(c)
    \/ WriteBackup(c) \/ BackupTooLarge(c) \/ CommitRotation(c)
    \/ \E i \in Ids : RestoreSkip(c, i) \/ RestoreDelete(c, i) \/ RestoreNew(c, i)
    \/ RestoreKey(c) \/ RestoreTooLarge(c) \/ EndRestore(c)
    \/ Kill(c) \/ Restart(c)

(* Nothing in the code keeps a rotation and other operations apart.          *)
VaultNext == \E c \in Clients : BeginWrite(c) \/ BeginList(c, "backup") \/ BeginRotate(c) \/ GoOn(c)

VaultSpec == VaultInit /\ [][VaultNext]_vars

(* A maintenance window: the owner stops whatever writes for a rotation and  *)
(* starts it again with the new passphrase.  Readers may go on, with         *)
(* whichever passphrase they have.                                           *)
Writing(c) == op[c].kind \in {"insert", "restore", "rotate"}

WindowNext ==
    \E c \in Clients :
        \/ /\ \A d \in Clients : op[d].kind # "rotate"
           /\ known[c] = salt
           /\ BeginWrite(c)
        \/ BeginList(c, "backup")
        \/ /\ \A d \in Clients : ~Writing(d)
           /\ known[c] = salt
           /\ BeginRotate(c)
        \/ GoOn(c)

WindowSpec == VaultInit /\ [][WindowNext]_vars

-----------------------------------------------------------------------------
VaultTypeOK ==
    /\ rows \in Rows
    /\ salt \in Rotations
    /\ backup \in Backup
    /\ known \in [Clients -> Rotations]
    /\ op \in [Clients -> Op]

(* Every row opens with the passphrase the owner uses: after a rotation the  *)
(* new passphrase decrypts whatever is in the table, the old one nothing.    *)
AllReadable == \A i \in Stored(rows) : Opens(rows[i], salt)

(* A restore that runs to its end has put every capture of the backup in     *)
(* place, and with --replace the backup's content, except where somebody     *)
(* else deleted a row meanwhile.  (Deletions and insertions interleave with  *)
(* the restore's own transactions.)                                          *)
RestoreMakesWhole ==
    [][\A c \in Clients :
         op[c].kind = "restore" /\ op[c].pc = "next" /\ op[c].todo = {} /\ op'[c] = NoOp
         => \A i \in Held(op[c].data) \ op[c].undone :
              /\ rows[i] # NoRow
              /\ op[c].replace => rows[i].plain = op[c].data[i]]_vars

(* Seen through the owner's passphrase the vault is a store of captures, in  *)
(* which a rotation, a backup and a listing change nothing.                  *)
Seen(i) ==
    IF rows[i] = NoRow THEN Empty
    ELSE IF Opens(rows[i], salt) THEN rows[i].plain ELSE Unreadable

Store == INSTANCE CaptureStore WITH store <- [i \in Ids |-> Seen(i)]

ImplementsStore == Store!StoreSpec

=============================================================================
