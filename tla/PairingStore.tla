---------------------------- MODULE PairingStore ----------------------------
(***************************************************************************)
(* The persistent store of USB pairing keys                                *)
(* (desktop/crates/app/src/pairing_store.rs): a map in memory behind a     *)
(* RwLock, and the TOML file it is saved to by a write to a `.tmp` sibling *)
(* and a rename.  Tauri commands (trust_usb_device, forget_usb_device) call*)
(* put and forget concurrently; a write or a rename may fail; the process  *)
(* may die between any two steps, and is then started again.               *)
(*                                                                         *)
(* A file's text is abstracted to the map it decodes to, or Torn when it   *)
(* decodes to none.  An absent file reads as the empty map.                *)
(***************************************************************************)
EXTENDS Options, FiniteSets

CONSTANTS Procs,   \* the calls that can be under way at once
          Udids,   \* devices
          Keys,    \* pairing keys
          Torn     \* a text that does not decode

Contents == [Udids -> Keys \cup {None}]
Empty == [u \in Udids |-> None]
Files == Contents \cup {Torn}
\* put(udid, key), or forget(udid) when there is no key.
Requests == [udid : Udids, key : Keys \cup {None}]

ASSUME StoreAssumption ==
    /\ None \notin Keys /\ None \notin Procs
    /\ None \notin Files /\ Torn \notin Contents /\ None # Torn
    /\ None \notin Requests

VARIABLES
    up,        \* the process runs
    mem,       \* data: the map in memory
    lock,      \* who holds data's write lock
    pc, req,   \* per call: where it is, and what it was asked
    text,      \* per call: the serialized map it is to save
    tmp,       \* pairings.toml.tmp: None when absent
    disk,      \* pairings.toml, as the file system shows it
    failed,    \* history: the last save failed
    promised   \* history: per device, the values its callers must reckon with

callVars == <<pc, req, text>>
storeVars == <<up, mem, lock, callVars, tmp, disk, failed, promised>>

StoreInit ==
    /\ up = FALSE
    /\ mem = Empty
    /\ lock = None
    /\ pc = [p \in Procs |-> "idle"]
    /\ req = [p \in Procs |-> None]
    /\ text = [p \in Procs |-> None]
    /\ tmp = None
    /\ disk = Empty
    /\ failed = FALSE
    /\ promised = [u \in Udids |-> {None}]

-----------------------------------------------------------------------------
\* open_at: a text that does not decode is an error, and the app does not start.
Open ==
    /\ ~up
    /\ disk # Torn
    /\ up' = TRUE
    /\ mem' = disk
    /\ failed' = FALSE
    /\ UNCHANGED <<lock, callVars, tmp, disk, promised>>

Call(p, r) ==
    /\ up
    /\ pc[p] = "idle"
    /\ pc' = [pc EXCEPT ![p] = "waiting"]
    /\ req' = [req EXCEPT ![p] = r]
    /\ UNCHANGED <<up, mem, lock, text, tmp, disk, failed, promised>>

\* Mutant: a read lock is taken.
UpdateUnlocked(p) ==
    /\ pc[p] = "waiting"
    /\ lock' = p
    /\ mem' = [mem EXCEPT ![req[p].udid] = req[p].key]
    /\ promised' = [promised EXCEPT ![req[p].udid] = @ \cup {req[p].key}]
    /\ text' = [text EXCEPT ![p] = mem']
    /\ pc' = [pc EXCEPT ![p] = "write"]
    /\ UNCHANGED <<up, req, tmp, disk, failed>>

\* The write lock, the change in memory, and the text: no await in between.
Update(p) ==
    /\ pc[p] = "waiting"
    /\ lock = None
    /\ lock' = p
    /\ mem' = [mem EXCEPT ![req[p].udid] = req[p].key]
    /\ promised' = [promised EXCEPT ![req[p].udid] = @ \cup {req[p].key}]
    /\ text' = [text EXCEPT ![p] = mem']
    /\ pc' = [pc EXCEPT ![p] = "write"]
    /\ UNCHANGED <<up, req, tmp, disk, failed>>

WriteTmp(p) ==
    /\ pc[p] = "write"
    /\ tmp' = text[p]
    /\ pc' = [pc EXCEPT ![p] = "rename"]
    /\ UNCHANGED <<up, mem, lock, req, text, disk, failed, promised>>

\* The call is over; the guard is dropped.
Finish(p) ==
    /\ lock' = None
    /\ pc' = [pc EXCEPT ![p] = "idle"]
    /\ req' = [req EXCEPT ![p] = None]
    /\ text' = [text EXCEPT ![p] = None]

\* Disk full, no permission: the call returns Err, the change stays in memory.
WriteFails(p) ==
    /\ pc[p] = "write"
    /\ tmp' \in {tmp, Torn}
    /\ failed' = TRUE
    /\ Finish(p)
    /\ UNCHANGED <<up, mem, disk, promised>>

Rename(p) ==
    /\ pc[p] = "rename"
    /\ disk' = tmp
    /\ tmp' = None
    /\ failed' = FALSE
    /\ promised' = [promised EXCEPT ![req[p].udid] = {req[p].key}]
    /\ Finish(p)
    /\ UNCHANGED <<up, mem>>

RenameFails(p) ==
    /\ pc[p] = "rename"
    /\ failed' = TRUE
    /\ Finish(p)
    /\ UNCHANGED <<up, mem, tmp, disk, promised>>

Restart == /\ up' = FALSE
           /\ mem' = Empty
           /\ lock' = None
           /\ pc' = [p \in Procs |-> "idle"]
           /\ req' = [p \in Procs |-> None]
           /\ text' = [p \in Procs |-> None]

\* The process dies; a write to the temporary file may be cut short.
Crash ==
    /\ up
    /\ Restart
    /\ tmp' \in {tmp} \cup (IF \E p \in Procs : pc[p] = "write" THEN {Torn} ELSE {})
    /\ UNCHANGED <<disk, failed, promised>>

StoreNext ==
    \/ Open \/ Crash
    \/ \E p \in Procs :
          \/ \E r \in Requests : Call(p, r)
          \/ Update(p) \/ WriteTmp(p) \/ WriteFails(p) \/ Rename(p) \/ RenameFails(p)

StoreSpec == StoreInit /\ [][StoreNext]_storeVars

-----------------------------------------------------------------------------
(* Properties.                                                              *)

\* Every variable has its type; in particular pairings.toml is never replaced by
\* a temporary file that is not there.
StoreTypeOK ==
    /\ up \in BOOLEAN
    /\ mem \in Contents
    /\ lock \in Procs \cup {None}
    /\ pc \in [Procs -> {"idle", "waiting", "write", "rename"}]
    /\ req \in [Procs -> Requests \cup {None}]
    /\ text \in [Procs -> Contents \cup {None}]
    /\ tmp \in Files \cup {None}
    /\ disk \in Files
    /\ failed \in BOOLEAN
    /\ promised \in [Udids -> SUBSET (Keys \cup {None})]

\* write_atomically: "a crash mid-write leaves the previous good file in place".
DiskReadable == disk # Torn

\* A put or forget that returned Ok is durable: memory and file hold, for each
\* device, the value of its last successful call or of a later one that failed or
\* was cut off, never an older one, whatever calls on other devices, failed saves
\* and crashes come between, and the file can always be read.  A forgotten device does not come back.
PromiseKept ==
    /\ disk # Torn
    /\ \A u \in Udids : disk[u] \in promised[u] /\ (up => mem[u] \in promised[u])

\* Between calls memory and file differ only after a failed save.
MemoryMatchesFile == (up /\ lock = None /\ ~failed) => mem = disk
=============================================================================
