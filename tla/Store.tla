------------------------------- MODULE Store --------------------------------
(***************************************************************************)
(* The Storage substrate (src/storage/store.py): checksummed files written *)
(* through a temporary file and os.replace, guarded by a lock file.  One   *)
(* action per system call of write(), so that a process can crash, a call  *)
(* can fail, or another process can run between any two of them.           *)
(*                                                                         *)
(* Torn stands for the bytes of a file whose envelope does not verify: an  *)
(* empty or partly written one.  read() raises CorruptionError for it.     *)
(***************************************************************************)
EXTENDS Naturals, FiniteSets

CONSTANTS
  Procs,      \* processes that use the directory
  Keys,       \* storage keys
  OnceKeys,   \* the keys that callers write with write_once
  Values,     \* whole envelopes
  Missing,    \* no such file
  Torn,       \* an envelope that fails verification
  NoOne,      \* no lock file
  OsFaults,   \* subset of {"error", "short", "bus"}: what may go wrong
  MaxWrites   \* bound: write calls

Faults == {"error", "short", "bus"}

ASSUME StoreAssumption ==
  /\ OnceKeys \subseteq Keys
  /\ Missing \notin Values /\ Torn \notin Values /\ Missing # Torn
  /\ NoOne \notin Procs
  /\ OsFaults \subseteq Faults
  /\ MaxWrites \in Nat

VARIABLES
  file,   \* the file of each key
  tmp,    \* its temporary file
  lock,   \* the lock file: who created it, or NoOne
  open,   \* the processes with an open Store
  pc,     \* where each process is in write(): the next system call
  arg,    \* the key and value of the write call
  prior,  \* history: the file when the call began
  outcome,\* what the last write of a process reported
  writes  \* write calls so far

storeVars == <<file, tmp, lock, open, pc, arg, prior, outcome, writes>>

PCs == {"idle", "create", "write", "fsync", "replace", "emit"}
\* "failed" is WriteFailedError, "exists" KeyExistsError, "raised" any other.
Outcomes == {"none", "committed", "failed", "exists", "raised"}
Calls == [key : Keys, value : Values]

-----------------------------------------------------------------------------
(* The Store object.                                                       *)

\* Store(dir): O_CREAT | O_EXCL; LockHeldError leaves everything as it is.
Open(p) ==
  /\ p \notin open
  /\ lock = NoOne
  /\ lock' = p
  /\ open' = open \cup {p}
  /\ outcome' = [outcome EXCEPT ![p] = "none"]
  /\ UNCHANGED <<file, tmp, pc, arg, prior, writes>>

Close(p) ==
  /\ p \in open
  /\ pc[p] = "idle"
  /\ lock' = NoOne
  /\ open' = open \ {p}
  /\ UNCHANGED <<file, tmp, pc, arg, prior, outcome, writes>>

\* The process dies; its lock file and temporary file stay behind.
Crash(p) ==
  /\ p \in open
  /\ open' = open \ {p}
  /\ pc' = [pc EXCEPT ![p] = "idle"]
  /\ outcome' = [outcome EXCEPT ![p] = "none"]
  /\ UNCHANGED <<file, tmp, lock, arg, prior, writes>>

\* An operator deletes the lock file of a dead process (external).
RemoveStaleLock ==
  /\ lock # NoOne
  /\ lock \notin open
  /\ lock' = NoOne
  /\ UNCHANGED <<file, tmp, open, pc, arg, prior, outcome, writes>>

-----------------------------------------------------------------------------
(* write() and write_once(), call by call.                                 *)

At(p, label) == p \in open /\ pc[p] = label
Goto(p, label) == pc' = [pc EXCEPT ![p] = label]

\* Mutant: write_once does not look.
BeginOverwrites(p, k, v) ==
  /\ At(p, "idle")
  /\ writes < MaxWrites
  /\ writes' = writes + 1
  /\ arg' = [arg EXCEPT ![p] = [key |-> k, value |-> v]]
  /\ prior' = [prior EXCEPT ![p] = file[k]]
  /\ Goto(p, "create")
  /\ outcome' = [outcome EXCEPT ![p] = "none"]
  /\ UNCHANGED <<file, tmp, lock, open>>
\* The call; write_once refuses a key that exists.
Begin(p, k, v) ==
  /\ At(p, "idle")
  /\ writes < MaxWrites
  /\ writes' = writes + 1
  /\ arg' = [arg EXCEPT ![p] = [key |-> k, value |-> v]]
  /\ prior' = [prior EXCEPT ![p] = file[k]]
  /\ IF k \in OnceKeys /\ file[k] # Missing
       THEN outcome' = [outcome EXCEPT ![p] = "exists"] /\ UNCHANGED pc
       ELSE outcome' = [outcome EXCEPT ![p] = "none"] /\ Goto(p, "create")
  /\ UNCHANGED <<file, tmp, lock, open>>

\* Mutant: the file itself is opened for writing.
CreateInPlace(p) ==
  /\ At(p, "create")
  /\ file' = [file EXCEPT ![arg[p].key] = Torn]
  /\ Goto(p, "write")
  /\ UNCHANGED <<tmp, lock, open, arg, prior, outcome, writes>>
\* os.open(tmp, O_CREAT | O_TRUNC)
CreateTmp(p) ==
  /\ At(p, "create")
  /\ tmp' = [tmp EXCEPT ![arg[p].key] = Torn]
  /\ Goto(p, "write")
  /\ UNCHANGED <<file, lock, open, arg, prior, outcome, writes>>

\* os.write: the number of bytes written is not looked at.
WriteTmp(p) ==
  /\ At(p, "write")
  /\ \/ tmp' = [tmp EXCEPT ![arg[p].key] = arg[p].value]
     \/ "short" \in OsFaults /\ tmp' = [tmp EXCEPT ![arg[p].key] = Torn]
  /\ Goto(p, "fsync")
  /\ UNCHANGED <<file, lock, open, arg, prior, outcome, writes>>

Fsync(p) ==
  /\ At(p, "fsync")
  /\ Goto(p, "replace")
  /\ UNCHANGED <<file, tmp, lock, open, arg, prior, outcome, writes>>

\* os.replace(tmp, path)
Replace(p) ==
  /\ At(p, "replace")
  /\ file' = [file EXCEPT ![arg[p].key] = tmp[arg[p].key]]
  /\ tmp' = [tmp EXCEPT ![arg[p].key] = Missing]
  /\ Goto(p, "emit")
  /\ UNCHANGED <<lock, open, arg, prior, outcome, writes>>

\* A system call raises OSError: remove the temporary file, emit
\* storage.rejected, raise WriteFailedError.  The bus may refuse the event and
\* os.remove may fail too: then that exception is what the caller sees.
OsError(p) ==
  /\ "error" \in OsFaults
  /\ p \in open
  /\ pc[p] \in {"create", "write", "fsync", "replace"}
  /\ Goto(p, "idle")
  /\ \/ /\ tmp' = [tmp EXCEPT ![arg[p].key] = Missing]
        /\ outcome' = [outcome EXCEPT ![p] = "failed"]
     \/ /\ "bus" \in OsFaults
        /\ tmp' = [tmp EXCEPT ![arg[p].key] = Missing]
        /\ outcome' = [outcome EXCEPT ![p] = "raised"]
     \/ /\ UNCHANGED tmp
        /\ outcome' = [outcome EXCEPT ![p] = "raised"]
  /\ UNCHANGED <<file, lock, open, arg, prior, writes>>

\* _emit("storage.committed") and return; a bus that refuses the event makes
\* write raise although the value is in place.
Emit(p) ==
  /\ At(p, "emit")
  /\ Goto(p, "idle")
  /\ \/ outcome' = [outcome EXCEPT ![p] = "committed"]
     \/ "bus" \in OsFaults /\ outcome' = [outcome EXCEPT ![p] = "raised"]
  /\ UNCHANGED <<file, tmp, lock, open, arg, prior, writes>>

StoreInit ==
  /\ file = [k \in Keys |-> Missing]
  /\ tmp = [k \in Keys |-> Missing]
  /\ lock = NoOne
  /\ open = {}
  /\ pc = [p \in Procs |-> "idle"]
  /\ arg \in [Procs -> Calls]
  /\ prior = [p \in Procs |-> Missing]
  /\ outcome = [p \in Procs |-> "none"]
  /\ writes = 0

WriteStep(p) ==
  CreateTmp(p) \/ WriteTmp(p) \/ Fsync(p) \/ Replace(p) \/ OsError(p) \/ Emit(p)

StoreNext ==
  \/ \E p \in Procs : Open(p) \/ Close(p) \/ Crash(p) \/ WriteStep(p)
  \/ \E p \in Procs, k \in Keys, v \in Values : Begin(p, k, v)
  \/ RemoveStaleLock

StoreSpec == StoreInit /\ [][StoreNext]_storeVars

-----------------------------------------------------------------------------
(* Properties.                                                             *)

\* Every variable holds a value of its kind.
StoreTypeOK ==
  /\ file \in [Keys -> Values \cup {Missing, Torn}]
  /\ tmp \in [Keys -> Values \cup {Missing, Torn}]
  /\ lock \in Procs \cup {NoOne}
  /\ open \subseteq Procs
  /\ pc \in [Procs -> PCs]
  /\ arg \in [Procs -> Calls]
  /\ prior \in [Procs -> Values \cup {Missing, Torn}]
  /\ outcome \in [Procs -> Outcomes]

\* INVARIANT (Atomicity): no interleaving of system calls, errors, crashes and
\* restarts ever leaves a file whose envelope does not verify.
NeverTorn == \A k \in Keys : file[k] # Torn

\* When write() reports WriteFailedError, the file is what it was when the call
\* began.
FailureLeavesPrior ==
  \A p \in open : outcome[p] = "failed" /\ pc[p] = "idle" => file[arg[p].key] = prior[p]

\* When write() reports "committed", a read by the same store returns the value.
CommitIsStored ==
  \A p \in open : outcome[p] = "committed" /\ pc[p] = "idle" => file[arg[p].key] = arg[p].value

\* INVARIANT (Atomicity and the port contract): what write() reports is true, for
\* a failure and for a commit, at any point after other processes came and went.
ReportsTrue == FailureLeavesPrior /\ CommitIsStored

\* INVARIANT (Locking, V1-H5): a second writer never gets in, however processes
\* crash and the lock file is cleaned up.
OneWriter == \A p, q \in open : p = q /\ lock = p

\* INVARIANT: one writer, whole files and true reports (Store.write, Store.__init__).
StoreSound == NeverTorn /\ OneWriter /\ ReportsTrue

\* REFINEMENT: the store implements the atomic store.
Abstract == INSTANCE AtomicStore WITH contents <- file
AtomicWrites == Abstract!Spec
=============================================================================
