------------------------------ MODULE AuditLog ------------------------------
(***************************************************************************)
(* The hash-chained audit log (audit.py): processes that append under a    *)
(* file lock, and a reader that verifies without it.                       *)
(*                                                                         *)
(* The file is the sequence of the records that were written to it, each   *)
(* as far as it got.  A record names the one whose event_hash it was       *)
(* chained to by its place in the file (0: the genesis hash): two records  *)
(* of one place never exist at once, so the place stands for the hash.     *)
(***************************************************************************)
EXTENDS Naturals, Sequences, FiniteSets

CONSTANTS
    Writer,         \* processes that append
    Event,          \* what they record
    None,
    DiskMayFail,    \* TRUE: os.write may be short or raise, os.fsync may raise
    MayCrash,       \* TRUE: a process may be killed inside append
    MayLosePower,   \* TRUE: the machine may stop, losing what fsync has not flushed
    MaxFile         \* bound on the records in the file, those under way included

ASSUME AuditAssumption ==
    /\ None \notin Writer \cup Event
    /\ MaxFile \in Nat
    /\ {DiskMayFail, MayCrash, MayLosePower} \subseteq BOOLEAN

VARIABLES
    file,       \* the records in the file
    synced,     \* how many of them a returned fsync has flushed
    lock,       \* the holder of the flock on the .lock file
    call,       \* for each process, the append it is in
    acked       \* history: the records whose append returned

logVars == <<file, synced, lock, call, acked>>

\* "line": the record and its newline; "body": all but the newline; "torn": less.
Part == {"line", "body", "torn"}
Record == [event : Event, prev : Nat, part : Part]
LogPC == {"idle", "lock", "write", "sync", "returned", "raised"}
LogIdle == [pc |-> "idle", event |-> None, prev |-> 0]

LogTypeOK ==
    /\ file \in Seq(Record)
    /\ synced \in 0 .. Len(file)
    /\ acked \subseteq 1 .. Len(file)
    /\ lock \in Writer \cup {None}
    /\ call \in [Writer -> [pc : LogPC, event : Event \cup {None}, prev : Nat]]
    \* the lock's holder is inside the locked part of append
    /\ \A p \in Writer : call[p].pc \in {"write", "sync"} <=> lock = p

LogInit ==
    /\ file = <<>>
    /\ synced = 0
    /\ lock = None
    /\ call = [p \in Writer |-> LogIdle]
    /\ acked = {}

----------------------------------------------------------------------------
(* Reading the file by lines.                                              *)

\* A record without its newline runs into the next one on the same line; json.loads
\* takes a line only if it is one whole record.
Readable(i) ==
    /\ file[i].part # "torn"
    /\ i > 1 => file[i - 1].part = "line"
    /\ i < Len(file) => file[i].part = "line"

Chained(i) == file[i].prev = i - 1

\* Mutant: the last line is not looked at; its hash is taken from what is there.
LastHashRaises_Never == FALSE

\* _last_hash: "audit_log_corrupt", or the event_hash of the last line.
LastHashRaises == file # <<>> /\ ~Readable(Len(file))

\* verify: what the first bad line makes of it.
Verdict ==
    LET bad == {i \in DOMAIN file : ~Readable(i) \/ ~Chained(i)}
    IN IF bad = {} THEN "valid"
       ELSE IF Readable(CHOOSE i \in bad : \A j \in bad : i <= j) THEN "invalid" ELSE "raises"

----------------------------------------------------------------------------
(* append.                                                                 *)

LogGoto(p, pc) == call' = [call EXCEPT ![p].pc = pc]
Ends(p, how) == call' = [call EXCEPT ![p] = [LogIdle EXCEPT !.pc = how]]

\* A call of append(event) comes to the lock.
append(p, e) ==
    /\ call[p].pc = "idle"
    /\ Len(file) + Cardinality({q \in Writer : call[q].pc \in {"lock", "write"}}) < MaxFile
    /\ call' = [call EXCEPT ![p] = [pc |-> "lock", event |-> e, prev |-> 0]]
    /\ UNCHANGED <<file, synced, lock, acked>>

\* Mutant: writers do not exclude one another.
LockFree_Always == TRUE

\* flock(LOCK_EX) waits for the holder.
LockFree == lock = None

\* Mutant: the lock is kept when the body of the with statement raises.
Unlock_OnReturn(how) == lock' = IF how = "raised" THEN lock ELSE None

\* _process_lock's finally.
Unlock(how) == lock' = None

\* The lock is taken and the last line is read.
_process_lock(p) ==
    /\ call[p].pc = "lock"
    /\ LockFree
    /\ IF LastHashRaises
       THEN Ends(p, "raised") /\ Unlock("raised")
       ELSE /\ call' = [call EXCEPT ![p].pc = "write", ![p].prev = Len(file)]
            /\ lock' = p
    /\ UNCHANGED <<file, synced, acked>>

\* Mutant: the file is opened without O_APPEND, and written from its start.
Written_Over(record) == <<record>>

\* O_APPEND: at the end of the file.
Written(record) == Append(file, record)

\* One os.write, whose count is not looked at: a short one goes on like a whole one.
os_write(p) ==
    /\ call[p].pc = "write"
    /\ \E part \in IF DiskMayFail THEN Part ELSE {"line"} :
           file' = Written([event |-> call[p].event, prev |-> call[p].prev, part |-> part])
    /\ LogGoto(p, "sync")
    /\ UNCHANGED <<synced, lock, acked>>

\* Mutant: append returns once the kernel has the data.
Flushed_Write == synced

Flushed == Len(file)

os_fsync(p) ==
    /\ call[p].pc = "sync"
    /\ synced' = Flushed
    /\ acked' = acked \cup {Len(file)}
    /\ Ends(p, "returned")
    /\ Unlock("returned")
    /\ UNCHANGED file

\* os.open, os.write or os.fsync raises; nothing is taken back.
os_raise(p) ==
    /\ DiskMayFail
    /\ call[p].pc \in {"write", "sync"}
    /\ Ends(p, "raised")
    /\ Unlock("raised")
    /\ UNCHANGED <<file, synced, acked>>

append_step(p) == _process_lock(p) \/ os_write(p) \/ os_fsync(p) \/ os_raise(p)

\* The caller takes the result.
Returned(p) == call[p].pc \in {"returned", "raised"}

LogDone(p) == Returned(p) /\ call' = [call EXCEPT ![p] = LogIdle]

----------------------------------------------------------------------------
(* Faults.                                                                 *)

\* The kernel releases a dead process's flock; what it wrote stays.
LogCrash(p) ==
    /\ MayCrash
    /\ call[p].pc # "idle"
    /\ call' = [call EXCEPT ![p] = LogIdle]
    /\ lock' = IF lock = p THEN None ELSE lock
    /\ UNCHANGED <<file, synced, acked>>

\* The end of the file that was not flushed comes back cut anywhere.
PowerLoss ==
    /\ MayLosePower
    /\ \E n \in synced .. Len(file), part \in Part :
           file' = [i \in 1 .. n |-> IF i = n /\ n > synced /\ file[i].part = "line"
                                     THEN [file[i] EXCEPT !.part = part] ELSE file[i]]
    /\ call' = [p \in Writer |-> LogIdle]
    /\ lock' = None
    /\ synced' = Len(file')
    /\ UNCHANGED acked

LogNext ==
    \/ \E p \in Writer : (\E e \in Event : append(p, e)) \/ append_step(p)
                       \/ (LogDone(p) /\ UNCHANGED <<file, synced, lock, acked>>) \/ LogCrash(p)
    \/ PowerLoss

LogSpec == LogInit /\ [][LogNext]_logVars

\* A caller in append runs on.
LogFairSpec == LogSpec /\ \A p \in Writer : WF_logVars(append_step(p))

----------------------------------------------------------------------------
(* Properties.                                                             *)

\* Tampering is never reported of a log nobody tampered with: whatever failed, verify
\* answers valid or cannot read the log, but finds no hash out of place (audit.py:141).
NeverInvalid == Verdict # "invalid"

\* Damage stays at the end of the file: a record that cannot be read is on the last
\* line, so every acknowledged event above it is still there (audit.py:136, the count
\* of os.write is not looked at).
DamageConfined ==
    \A i \in DOMAIN file :
        \/ Readable(i)
        \/ \A j \in i .. Len(file) - 1 : file[j].part # "line"

\* An acknowledged event is on the disk for good, and verify calls a log valid only if
\* every acknowledged event can be read from it.
AckedKept ==
    /\ \A i \in acked : i <= synced
    /\ Verdict = "valid" => \A i \in acked : Readable(i)

\* Nobody waits for a lock that is never given back: a holder that returns, raises or
\* dies leaves it (audit.py:63, the finally of _process_lock).
LockReleased == \A p \in Writer : (lock = p) ~> (lock # p)

\* The flushed events, as an append-only log.
Abstract ==
    INSTANCE AppendOnlyLog
        WITH log <- [i \in 1 .. synced |-> file[i].event]

\* What fsync has flushed is never changed or lost.
OnlyAppended == Abstract!Spec
=============================================================================
