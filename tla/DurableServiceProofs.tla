------------------------ MODULE DurableServiceProofs ------------------------
(***************************************************************************)
(* What AuditLog promises for every set of processes and events and every  *)
(* size of the file, whatever disk, processes and power do; then what      *)
(* DurableService promises for every contract.  Its two parts behave as    *)
(* TaskService and AuditLog specify, so that their theorems carry over;    *)
(* its own properties relate the two.                                      *)
(***************************************************************************)
EXTENDS DurableService, FiniteSetTheorems, SequenceTheorems, TLAPS

----------------------------------------------------------------------------
(* The audit log by itself: its inductive invariant.                       *)

\* Every record names the one before it.
AllChained == \A i \in DOMAIN file : Chained(i)

\* Only the last record may be torn, and only the last two may miss their newline: a
\* writer looks at the last line before it writes behind it.
FrontWhole ==
    /\ \A i \in DOMAIN file : i < Len(file) => file[i].part # "torn"
    /\ \A i \in DOMAIN file : i + 1 < Len(file) => file[i].part = "line"

\* The holder that is about to write has read the hash of a last line that is whole.
WriterSawEnd ==
    \A p \in Writer : call[p].pc = "write" =>
        /\ call[p].prev = Len(file)
        /\ file # <<>> => Readable(Len(file))

\* A call that came to the lock has an event to record.
EventGiven == \A p \in Writer : call[p].pc \in {"lock", "write", "sync"} => call[p].event \in Event

\* The holder that is about to flush has written.
FlushesSomething == \A p \in Writer : call[p].pc = "sync" => file # <<>>

AckedFlushed == \A i \in acked : i <= synced

LogInv ==
    /\ LogTypeOK
    /\ AllChained
    /\ FrontWhole
    /\ WriterSawEnd
    /\ EventGiven
    /\ FlushesSomething
    /\ AckedFlushed

LEMMA InitLog == LogInit => LogInv
  BY AuditAssumption
     DEF LogInit, LogInv, LogTypeOK, AllChained, FrontWhole, WriterSawEnd, EventGiven,
         FlushesSomething, AckedFlushed, LogIdle, LogPC

\* A step that leaves the file alone, gives nobody the right to write and flushes nothing
\* disturbs only the program counters.
LEMMA CallsOnly ==
    ASSUME LogInv, LogTypeOK', EventGiven', UNCHANGED <<file, synced, acked>>,
           \A p \in Writer : call'[p].pc \in {"write", "sync"} => call'[p] = call[p]
    PROVE  LogInv'
<1>1. AllChained' /\ FrontWhole' /\ AckedFlushed'
  BY DEF LogInv, AllChained, Chained, FrontWhole, AckedFlushed
<1>2. WriterSawEnd' /\ FlushesSomething'
  BY DEF LogInv, WriterSawEnd, FlushesSomething, Readable
<1>. QED  BY <1>1, <1>2 DEF LogInv

LEMMA AppendKeeps ==
    ASSUME LogInv, NEW p \in Writer, NEW e \in Event, append(p, e)
    PROVE  LogInv'
<1>1. LogTypeOK'
  BY AuditAssumption DEF LogInv, LogTypeOK, append, LogPC
<1>2. \A q \in Writer : call'[q].pc \in {"write", "sync"} => call'[q] = call[q]
  BY DEF LogInv, LogTypeOK, append
<1>3. EventGiven'
  BY DEF LogInv, LogTypeOK, append, EventGiven
<1>. QED  BY <1>1, <1>2, <1>3, CallsOnly DEF append

\* A call that ends lets the lock go if it had it.
LEMMA EndType ==
    ASSUME LogInv, NEW p \in Writer, NEW how \in {"returned", "raised"}, Ends(p, how),
           lock \in {p, None}, lock' = None
    PROVE  /\ call' \in [Writer -> [pc : LogPC, event : Event \cup {None}, prev : Nat]]
           /\ lock' \in Writer \cup {None}
           /\ \A q \in Writer : call'[q].pc \in {"write", "sync"} <=> lock' = q
           /\ \A q \in Writer : q # p => call'[q] = call[q]
           /\ call'[p].pc = how
           /\ EventGiven'
<1>. USE DEF Ends
<1>1. [LogIdle EXCEPT !.pc = how] \in [pc : LogPC, event : Event \cup {None}, prev : Nat]
  BY DEF LogIdle, LogPC
<1>2. call' \in [Writer -> [pc : LogPC, event : Event \cup {None}, prev : Nat]]
  BY <1>1 DEF LogInv, LogTypeOK
<1>3. (\A q \in Writer : q # p => call'[q] = call[q]) /\ call'[p].pc = how
  BY DEF LogInv, LogTypeOK, LogIdle
<1>4. \A q \in Writer : call'[q].pc \in {"write", "sync"} <=> lock' = q
  BY <1>3, AuditAssumption DEF LogInv, LogTypeOK
<1>5. EventGiven'
  BY <1>3 DEF LogInv, EventGiven
<1>. QED  BY <1>2, <1>3, <1>4, <1>5

LEMMA LockKeeps ==
    ASSUME LogInv, NEW p \in Writer, _process_lock(p)
    PROVE  LogInv'
<1>. USE DEF _process_lock, LockFree, Ends, Unlock
<1>1. CASE LastHashRaises
  <2>1. LogTypeOK' /\ EventGiven'
    BY <1>1, EndType DEF LogInv, LogTypeOK
  <2>2. \A q \in Writer : call'[q].pc \in {"write", "sync"} => call'[q] = call[q]
    BY <1>1, EndType
  <2>. QED  BY <2>1, <2>2, CallsOnly
<1>2. CASE ~LastHashRaises
  <2>0. Len(file) \in Nat
    BY LenProperties DEF LogInv, LogTypeOK
  <2>1. LogTypeOK'
    <3>0. call[p] \in [pc : LogPC, event : Event \cup {None}, prev : Nat]
      BY DEF LogInv, LogTypeOK
    <3>. DEFINE c == [call[p] EXCEPT !.pc = "write", !.prev = Len(file)]
    <3>1a. c \in [pc : LogPC, event : Event \cup {None}, prev : Nat]
      BY <3>0, <2>0 DEF LogPC
    <3>1b. call' = [call EXCEPT ![p] = c]
      BY <1>2 DEF LogInv, LogTypeOK
    <3>1. call' \in [Writer -> [pc : LogPC, event : Event \cup {None}, prev : Nat]]
      BY <3>1a, <3>1b DEF LogInv, LogTypeOK
    <3>2. \A q \in Writer : call'[q].pc \in {"write", "sync"} <=> lock' = q
      BY <1>2, AuditAssumption DEF LogInv, LogTypeOK
    <3>. QED  BY <1>2, <3>1, <3>2 DEF LogInv, LogTypeOK
  <2>2. AllChained' /\ FrontWhole' /\ AckedFlushed'
    BY <1>2 DEF LogInv, AllChained, Chained, FrontWhole, AckedFlushed
  <2>3. WriterSawEnd'
    <3> SUFFICES ASSUME NEW q \in Writer, call'[q].pc = "write"
                 PROVE  /\ call'[q].prev = Len(file)
                        /\ file # <<>> => Readable(Len(file))
      BY <1>2 DEF WriterSawEnd, Readable
    <3>1. q = p
      BY <1>2, AuditAssumption DEF LogInv, LogTypeOK
    <3>. QED  BY <1>2, <3>1 DEF LogInv, LogTypeOK, LastHashRaises
  <2>4. FlushesSomething' /\ EventGiven'
    <3>1. \A q \in Writer : /\ call'[q].event = call[q].event
                            /\ q # p => call'[q] = call[q]
      BY <1>2 DEF LogInv, LogTypeOK
    <3>2. call'[p].pc = "write" /\ call[p].pc = "lock"
      BY <1>2 DEF LogInv, LogTypeOK
    <3>. QED  BY <3>1, <3>2 DEF LogInv, FlushesSomething, EventGiven
  <2>. QED  BY <2>1, <2>2, <2>3, <2>4 DEF LogInv
<1>. QED  BY <1>1, <1>2

\* A record behind a last line that was read keeps the damage at the end.
LEMMA WriteFront ==
    ASSUME LogInv, NEW record \in Record, record.prev = Len(file), file' = Append(file, record),
           file # <<>> => Readable(Len(file))
    PROVE  /\ Len(file') = Len(file) + 1
           /\ file' \in Seq(Record)
           /\ \A i \in DOMAIN file : i \in DOMAIN file' /\ file'[i] = file[i]
           /\ AllChained'
           /\ FrontWhole'
<1>1. file \in Seq(Record) /\ Len(file) \in Nat /\ DOMAIN file = 1 .. Len(file)
  BY LenProperties DEF LogInv, LogTypeOK
<1>2. /\ file' \in Seq(Record)
      /\ Len(file') = Len(file) + 1
      /\ \A i \in 1 .. Len(file) : file'[i] = file[i]
      /\ file'[Len(file) + 1] = record
  BY <1>1, AppendProperties
<1>3. DOMAIN file' = 1 .. Len(file) + 1
  BY <1>2, LenProperties
<1>4. AllChained'
  BY <1>1, <1>2, <1>3 DEF LogInv, AllChained, Chained
<1>5. FrontWhole'
  <2>1. ASSUME NEW i \in DOMAIN file', i < Len(file')
        PROVE  file'[i].part # "torn"
    <3>1. i \in 1 .. Len(file) /\ file'[i] = file[i]
      BY <1>1, <1>2, <1>3, <2>1
    <3>2. CASE i < Len(file)
      BY <1>1, <3>1, <3>2 DEF LogInv, FrontWhole
    <3>3. CASE i = Len(file)
      BY <1>1, <3>1, <3>3 DEF Readable
    <3>. QED  BY <1>1, <3>1, <3>2, <3>3
  <2>2. ASSUME NEW i \in DOMAIN file', i + 1 < Len(file')
        PROVE  file'[i].part = "line"
    <3>1. i \in 1 .. Len(file) /\ i < Len(file) /\ file'[i] = file[i]
      BY <1>1, <1>2, <1>3, <2>2
    <3>2. CASE i + 1 < Len(file)
      BY <1>1, <3>1, <3>2 DEF LogInv, FrontWhole
    <3>3. CASE i + 1 = Len(file)
      BY <1>1, <3>1, <3>3 DEF Readable
    <3>. QED  BY <1>1, <3>1, <3>2, <3>3
  <2>. QED  BY <2>1, <2>2 DEF FrontWhole
<1>. QED  BY <1>1, <1>2, <1>3, <1>4, <1>5

LEMMA WriteKeeps ==
    ASSUME LogInv, NEW p \in Writer, os_write(p)
    PROVE  LogInv'
<1>. USE DEF os_write, LogGoto
<1>1. PICK part \in Part :
          file' = Append(file, [event |-> call[p].event, prev |-> call[p].prev, part |-> part])
  BY DEF Part, Written
<1>. DEFINE record == [event |-> call[p].event, prev |-> call[p].prev, part |-> part]
<1>2. file \in Seq(Record) /\ Len(file) \in Nat /\ DOMAIN file = 1 .. Len(file)
  BY LenProperties DEF LogInv, LogTypeOK
<1>3. record \in Record /\ record.prev = Len(file) /\ (file # <<>> => Readable(Len(file)))
  BY DEF LogInv, LogTypeOK, EventGiven, WriterSawEnd, Record
<1>4. /\ Len(file') = Len(file) + 1
      /\ file' \in Seq(Record)
      /\ AllChained' /\ FrontWhole'
  BY <1>1, <1>3, WriteFront
<1>5. /\ call' \in [Writer -> [pc : LogPC, event : Event \cup {None}, prev : Nat]]
      /\ call'[p].pc = "sync" /\ call'[p].event = call[p].event
      /\ \A q \in Writer : q # p => call'[q] = call[q] /\ call[q].pc \notin {"write", "sync"}
  BY AuditAssumption DEF LogInv, LogTypeOK, LogPC
<1>6. LogTypeOK'
  <2>1. synced' \in 0 .. Len(file') /\ acked' \subseteq 1 .. Len(file')
    BY <1>2, <1>4 DEF LogInv, LogTypeOK
  <2>2. \A q \in Writer : call'[q].pc \in {"write", "sync"} <=> lock' = q
    BY <1>5 DEF LogInv, LogTypeOK
  <2>. QED  BY <1>4, <1>5, <2>1, <2>2 DEF LogInv, LogTypeOK
<1>7. WriterSawEnd' /\ EventGiven'
  BY <1>5 DEF LogInv, WriterSawEnd, EventGiven
<1>8. FlushesSomething'
  BY <1>2, <1>4, EmptySeq DEF FlushesSomething
<1>9. AckedFlushed'
  BY DEF LogInv, AckedFlushed
<1>. QED  BY <1>4, <1>6, <1>7, <1>8, <1>9 DEF LogInv

LEMMA FsyncKeeps ==
    ASSUME LogInv, NEW p \in Writer, os_fsync(p)
    PROVE  LogInv'
<1>. USE DEF os_fsync, Flushed, Unlock
<1>1. file \in Seq(Record) /\ Len(file) \in Nat \ {0} /\ DOMAIN file = 1 .. Len(file)
  BY LenProperties, EmptySeq DEF LogInv, LogTypeOK, FlushesSomething
<1>2. lock = p
  BY DEF LogInv, LogTypeOK
<1>3. /\ call' \in [Writer -> [pc : LogPC, event : Event \cup {None}, prev : Nat]]
      /\ lock' \in Writer \cup {None}
      /\ \A q \in Writer : call'[q].pc \in {"write", "sync"} <=> lock' = q
      /\ \A q \in Writer : q # p => call'[q] = call[q]
      /\ call'[p].pc = "returned"
      /\ EventGiven'
  BY <1>2, EndType
<1>4. synced' \in 0 .. Len(file') /\ acked' \subseteq 1 .. Len(file')
  <2>1. synced' = Len(file) /\ acked' = acked \cup {Len(file)} /\ file' = file
    OBVIOUS
  <2>2. acked \subseteq 1 .. Len(file)
    BY DEF LogInv, LogTypeOK
  <2>3. Len(file') = Len(file)
    BY <2>1
  <2>4. Len(file) \in 1 .. Len(file)
    BY <1>1
  <2>. QED  BY <1>1, <2>1, <2>2, <2>3, <2>4
<1>5. LogTypeOK'
  BY <1>3, <1>4 DEF LogInv, LogTypeOK
<1>6. AckedFlushed'
  BY <1>1, <1>4 DEF AckedFlushed
<1>7. AllChained' /\ FrontWhole'
  BY DEF LogInv, AllChained, Chained, FrontWhole
<1>8. WriterSawEnd' /\ FlushesSomething'
  BY <1>3 DEF LogInv, WriterSawEnd, FlushesSomething, Readable
<1>. QED  BY <1>3, <1>5, <1>6, <1>7, <1>8 DEF LogInv

LEMMA RaiseKeeps ==
    ASSUME LogInv, NEW p \in Writer, os_raise(p)
    PROVE  LogInv'
<1>. USE DEF os_raise, Unlock
<1>1. lock = p
  BY DEF LogInv, LogTypeOK
<1>2. LogTypeOK' /\ EventGiven'
  BY <1>1, EndType DEF LogInv, LogTypeOK
<1>3. \A q \in Writer : call'[q].pc \in {"write", "sync"} => call'[q] = call[q]
  BY <1>1, EndType
<1>. QED  BY <1>2, <1>3, CallsOnly

\* A process that is idle again, having taken its result or died, holds nothing.
LEMMA IdleKeeps ==
    ASSUME LogInv, NEW p \in Writer, call' = [call EXCEPT ![p] = LogIdle],
           lock' = IF lock = p THEN None ELSE lock, UNCHANGED <<file, synced, acked>>
    PROVE  LogInv'
<1>1. LogIdle \in [pc : LogPC, event : Event \cup {None}, prev : Nat] /\ LogIdle.pc = "idle"
  BY DEF LogIdle, LogPC
<1>2. call' \in [Writer -> [pc : LogPC, event : Event \cup {None}, prev : Nat]]
  BY <1>1 DEF LogInv, LogTypeOK
<1>3. (\A q \in Writer : q # p => call'[q] = call[q]) /\ call'[p].pc = "idle"
  BY <1>1 DEF LogInv, LogTypeOK
<1>4. \A q \in Writer : call'[q].pc \in {"write", "sync"} <=> lock' = q
  BY <1>3, AuditAssumption DEF LogInv, LogTypeOK
<1>5. LogTypeOK'
  BY <1>2, <1>4 DEF LogInv, LogTypeOK
<1>6. EventGiven'
  BY <1>3 DEF LogInv, EventGiven
<1>. QED  BY <1>3, <1>5, <1>6, CallsOnly

LEMMA FunctionIsSeq ==
    ASSUME NEW T, NEW n \in Nat, NEW f \in [1 .. n -> T]
    PROVE  f \in Seq(T) /\ Len(f) = n /\ DOMAIN f = 1 .. n
<1>1. f \in Seq(T)
  BY SeqDef
<1>2. Len(f) \in Nat /\ DOMAIN f = 1 .. Len(f)
  BY <1>1, LenProperties
<1>. QED  BY <1>1, <1>2

\* What power leaves of the file is a prefix of it, its last record perhaps damaged.
LEMMA PowerKeeps ==
    ASSUME LogInv, PowerLoss
    PROVE  LogInv'
<1>. USE DEF PowerLoss
<1>1. file \in Seq(Record) /\ Len(file) \in Nat /\ DOMAIN file = 1 .. Len(file)
      /\ synced \in 0 .. Len(file)
  BY LenProperties DEF LogInv, LogTypeOK
<1>2. PICK n \in synced .. Len(file), part \in Part :
          file' = [i \in 1 .. n |-> IF i = n /\ n > synced /\ file[i].part = "line"
                                    THEN [file[i] EXCEPT !.part = part] ELSE file[i]]
  OBVIOUS
<1>3. n \in Nat /\ n <= Len(file) /\ synced <= n
  BY <1>1
<1>4. /\ file' \in Seq(Record)
      /\ Len(file') = n
      /\ DOMAIN file' = 1 .. n
  <2>1. ASSUME NEW i \in 1 .. n
        PROVE  file'[i] \in Record
    <3>1. file[i] \in Record
      BY <1>1, <1>3, ElementOfSeq
    <3>2. [file[i] EXCEPT !.part = part] \in Record
      BY <3>1 DEF Record, Part
    <3>. QED  BY <1>2, <3>1, <3>2
  <2>2. file' \in [1 .. n -> Record]
    BY <1>2, <2>1
  <2>. QED  BY <1>3, <2>2, FunctionIsSeq
<1>5. \A i \in 1 .. n : file'[i].prev = file[i].prev /\ (i < n => file'[i] = file[i])
  BY <1>1, <1>2, <1>3, ElementOfSeq DEF Record
<1>6. AllChained'
  BY <1>1, <1>3, <1>4, <1>5 DEF LogInv, AllChained, Chained
<1>7. FrontWhole'
  BY <1>1, <1>3, <1>4, <1>5 DEF LogInv, FrontWhole
<1>8. \A q \in Writer : call'[q].pc = "idle"
  BY DEF LogIdle
<1>9. LogTypeOK'
  <2>1. call' \in [Writer -> [pc : LogPC, event : Event \cup {None}, prev : Nat]]
    BY DEF LogIdle, LogPC
  <2>2. acked' \subseteq 1 .. Len(file') /\ synced' \in 0 .. Len(file')
    BY <1>1, <1>3, <1>4 DEF LogInv, LogTypeOK, AckedFlushed
  <2>. QED  BY <1>4, <1>8, <2>1, <2>2, AuditAssumption DEF LogTypeOK
<1>10. AckedFlushed'
  BY <1>1, <1>3, <1>4 DEF LogInv, LogTypeOK, AckedFlushed
<1>11. WriterSawEnd' /\ EventGiven' /\ FlushesSomething'
  BY <1>8 DEF WriterSawEnd, EventGiven, FlushesSomething
<1>. QED  BY <1>6, <1>7, <1>9, <1>10, <1>11 DEF LogInv

LEMMA NextLog == LogInv /\ [LogNext]_logVars => LogInv'
<1> SUFFICES ASSUME LogInv, [LogNext]_logVars
             PROVE  LogInv'
  OBVIOUS
<1>1. ASSUME NEW p \in Writer, NEW e \in Event, append(p, e)
      PROVE  LogInv'
  BY <1>1, AppendKeeps
<1>2. ASSUME NEW p \in Writer, append_step(p)
      PROVE  LogInv'
  BY <1>2, LockKeeps, WriteKeeps, FsyncKeeps, RaiseKeeps DEF append_step
<1>3. ASSUME NEW p \in Writer, LogDone(p), UNCHANGED <<file, synced, lock, acked>>
      PROVE  LogInv'
  <2>1. lock # p
    BY <1>3 DEF LogInv, LogTypeOK, LogDone, Returned
  <2>. QED  BY <1>3, <2>1, IdleKeeps DEF LogDone
<1>4. ASSUME NEW p \in Writer, LogCrash(p)
      PROVE  LogInv'
  BY <1>4, IdleKeeps DEF LogCrash
<1>5. CASE PowerLoss
  BY <1>5, PowerKeeps
<1>6. CASE UNCHANGED logVars
  BY <1>6 DEF logVars, LogInv, LogTypeOK, AllChained, Chained, FrontWhole, WriterSawEnd, Readable,
              EventGiven, FlushesSomething, AckedFlushed
<1>. QED  BY <1>1, <1>2, <1>3, <1>4, <1>5, <1>6 DEF LogNext

LEMMA LogInvariant == LogSpec => []LogInv
  BY InitLog, NextLog, PTL DEF LogSpec

----------------------------------------------------------------------------
(* The audit log: its properties.                                          *)

\* The type invariant of the file, its lock and the calls of append.
THEOREM LogTypeCorrect == LogSpec => []LogTypeOK
  BY LogInvariant, PTL DEF LogInv

\* Damage stays at the end of the file, however many writers, short writes, killed
\* processes and power losses there were (audit.py:136).
THEOREM DamageStaysConfined == LogSpec => []DamageConfined
<1>1. LogInv => DamageConfined
  <2> SUFFICES ASSUME LogInv, NEW i \in DOMAIN file, ~Readable(i),
                      NEW j \in i .. Len(file) - 1
               PROVE  file[j].part # "line"
    BY DEF DamageConfined
  <2>1. Len(file) \in Nat /\ DOMAIN file = 1 .. Len(file)
    BY LenProperties DEF LogInv, LogTypeOK
  <2>2. i < Len(file) /\ j < Len(file) /\ i <= j
    BY <2>1
  <2>3. i > 1 => file[i - 1].part = "line"
    BY <2>1, <2>2 DEF LogInv, FrontWhole
  <2>4. file[i].part # "line"
    BY <2>1, <2>2, <2>3 DEF Readable
  <2>5. i + 1 = Len(file)
    BY <2>1, <2>2, <2>4 DEF LogInv, FrontWhole
  <2>. QED  BY <2>1, <2>2, <2>4, <2>5
<1>. QED  BY <1>1, LogInvariant, PTL

\* Nothing is reported as tampered with in a log nobody tampered with (verify): a bad
\* line is one that cannot be read.
THEOREM NeverCalledInvalid == LogSpec => []NeverInvalid
<1>1. LogInv => NeverInvalid
  <2> SUFFICES ASSUME LogInv
               PROVE  Verdict # "invalid"
    BY DEF NeverInvalid
  <2>. DEFINE bad == {i \in DOMAIN file : ~Readable(i) \/ ~Chained(i)}
              first == CHOOSE i \in bad : \A j \in bad : i <= j
  <2>1. Len(file) \in Nat /\ DOMAIN file = 1 .. Len(file)
    BY LenProperties DEF LogInv, LogTypeOK
  <2>2. \A i \in bad : ~Readable(i)
    BY DEF LogInv, AllChained
  <2>3. \A i \in bad : i + 1 = Len(file) \/ i = Len(file)
    BY <2>1, <2>2 DEF Readable, LogInv, FrontWhole
  <2>4. bad # {} => \E i \in bad : \A j \in bad : i <= j
    <3>1. CASE Len(file) - 1 \in bad
      BY <2>1, <2>3, <3>1
    <3>2. CASE Len(file) - 1 \notin bad
      BY <2>1, <2>3, <3>2
    <3>. QED  BY <3>1, <3>2
  <2>5. bad # {} => first \in bad
    BY <2>4
  <2>6. bad # {} => ~Readable(first)
    BY <2>2, <2>5
  <2>7. Verdict = IF bad = {} THEN "valid"
                  ELSE IF Readable(first) THEN "invalid" ELSE "raises"
    BY DEF Verdict
  <2>. HIDE DEF bad, first
  <2>. QED  BY <2>6, <2>7
<1>. QED  BY <1>1, LogInvariant, PTL

\* An acknowledged event is on the disk, and a valid log has all of them.
THEOREM AcknowledgedKept == LogSpec => []AckedKept
<1>1. LogInv => AckedKept
  <2> SUFFICES ASSUME LogInv
               PROVE  AckedKept
    OBVIOUS
  <2>1. \A i \in acked : i <= synced /\ i \in DOMAIN file
    BY LenProperties DEF LogInv, LogTypeOK, AckedFlushed
  <2>2. ASSUME Verdict = "valid", NEW i \in acked
        PROVE  Readable(i)
    <3>. DEFINE bad == {k \in DOMAIN file : ~Readable(k) \/ ~Chained(k)}
                first == CHOOSE k \in bad : \A j \in bad : k <= j
    <3>1. Verdict = IF bad = {} THEN "valid"
                    ELSE IF Readable(first) THEN "invalid" ELSE "raises"
      BY DEF Verdict
    <3>2. bad = {}
      <4>. HIDE DEF bad, first
      <4>. QED  BY <2>2, <3>1
    <3>. QED  BY <2>1, <3>2
  <2>. QED  BY <2>1, <2>2 DEF AckedKept
<1>. QED  BY <1>1, LogInvariant, PTL

----------------------------------------------------------------------------
(* The audit log: the append-only log it implements.                       *)

\* The flushed part of the log grows at its end or stays what it is.
FlushedGrows ==
    /\ synced <= synced'
    /\ \A i \in 1 .. synced : file'[i].event = file[i].event

LEMMA StepGrows == LogInv /\ LogInv' /\ [LogNext]_logVars => FlushedGrows
<1> SUFFICES ASSUME LogInv, LogInv', [LogNext]_logVars
             PROVE  FlushedGrows
  OBVIOUS
<1>0. file \in Seq(Record) /\ Len(file) \in Nat /\ DOMAIN file = 1 .. Len(file)
      /\ synced \in 0 .. Len(file)
  BY LenProperties DEF LogInv, LogTypeOK
<1>1. CASE UNCHANGED <<file, synced>>
  BY <1>0, <1>1 DEF FlushedGrows
<1>2. ASSUME NEW p \in Writer, append_step(p)
      PROVE  FlushedGrows
  <2>1. CASE os_write(p)
    <3>1. PICK part \in Part :
              file' = Append(file, [event |-> call[p].event, prev |-> call[p].prev,
                                    part |-> part])
      BY <2>1 DEF os_write, Written, Part
    <3>2. [event |-> call[p].event, prev |-> call[p].prev, part |-> part] \in Record
      BY <2>1 DEF LogInv, LogTypeOK, EventGiven, Record, os_write
    <3>3. \A i \in 1 .. Len(file) : file'[i] = file[i]
      BY <1>0, <3>1, <3>2, AppendProperties
    <3>. QED  BY <1>0, <2>1, <3>3 DEF FlushedGrows, os_write
  <2>2. CASE os_fsync(p)
    BY <1>0, <2>2 DEF FlushedGrows, os_fsync, Flushed
  <2>. QED  BY <1>1, <1>2, <2>1, <2>2 DEF append_step, _process_lock, os_raise
<1>3. CASE PowerLoss
  <2>1. PICK n \in synced .. Len(file), part \in Part :
            file' = [i \in 1 .. n |-> IF i = n /\ n > synced /\ file[i].part = "line"
                                      THEN [file[i] EXCEPT !.part = part] ELSE file[i]]
    BY <1>3 DEF PowerLoss
  <2>2. n \in Nat /\ synced <= n
    BY <1>0
  <2>3. Len(file') = n
    <3>1. Len(file') \in Nat /\ DOMAIN file' = 1 .. Len(file')
      BY LenProperties DEF LogInv, LogTypeOK
    <3>2. DOMAIN file' = 1 .. n
      BY <2>1
    <3>. DEFINE len == Len(file')
    <3>3. len \in Nat /\ 1 .. len = 1 .. n
      BY <3>1, <3>2
    <3>. HIDE DEF len
    <3>4. len <= n
      BY <2>2, <3>3
    <3>5. n <= len
      BY <2>2, <3>3
    <3>. QED  BY <2>2, <3>3, <3>4, <3>5 DEF len
  <2>4. \A i \in 1 .. synced : file'[i].event = file[i].event
    BY <1>0, <2>1, <2>2
  <2>. QED  BY <1>3, <2>2, <2>3, <2>4 DEF FlushedGrows, PowerLoss
<1>. QED  BY <1>1, <1>2, <1>3 DEF LogNext, logVars, append, LogDone, LogCrash

\* AuditLog implements AppendOnlyLog: the flushed events only ever grow at their end.
THEOREM ImplementsAppendOnly == LogSpec => OnlyAppended
<1>. DEFINE log == [i \in 1 .. synced |-> file[i].event]
<1>1. LogInv => log \in Seq(Event) /\ Len(log) = synced /\ synced \in Nat
  <2> SUFFICES ASSUME LogInv
               PROVE  log \in Seq(Event) /\ Len(log) = synced /\ synced \in Nat
    OBVIOUS
  <2>1. file \in Seq(Record) /\ Len(file) \in Nat /\ synced \in 0 .. Len(file)
    BY LenProperties DEF LogInv, LogTypeOK
  <2>2. \A i \in 1 .. synced : file[i].event \in Event
    <3>1. \A i \in 1 .. synced : i \in 1 .. Len(file)
      BY <2>1
    <3>2. \A i \in 1 .. Len(file) : file[i] \in Record
      BY <2>1, ElementOfSeq
    <3>. QED  BY <3>1, <3>2 DEF Record
  <2>3. log \in [1 .. synced -> Event] /\ synced \in Nat
    BY <2>1, <2>2
  <2>. HIDE DEF log
  <2>. QED  BY <2>3, FunctionIsSeq
<1>2. LogInit => Abstract!Init
  <2> SUFFICES ASSUME LogInit
               PROVE  log = <<>>
    BY DEF Abstract!Init
  <2>1. Len(log) = 0 /\ log \in Seq(Event)
    BY <1>1, InitLog DEF LogInit
  <2>. HIDE DEF log
  <2>. QED  BY <2>1, EmptySeq
<1>3. LogInv /\ LogInv' /\ [LogNext]_logVars => [Abstract!Next]_log
  <2> SUFFICES ASSUME LogInv, LogInv', [LogNext]_logVars
               PROVE  Abstract!Next
    OBVIOUS
  <2>1. log \in Seq(Event) /\ Len(log) = synced /\ synced \in Nat
    BY <1>1
  <2>2. log' \in Seq(Event) /\ Len(log') = synced' /\ synced' \in Nat
    <3>1. file' \in Seq(Record) /\ Len(file') \in Nat /\ synced' \in 0 .. Len(file')
      BY LenProperties DEF LogInv, LogTypeOK
    <3>2. \A i \in 1 .. synced' : file'[i].event \in Event
      <4>1. \A i \in 1 .. synced' : i \in 1 .. Len(file')
        BY <3>1
      <4>2. \A i \in 1 .. Len(file') : file'[i] \in Record
        BY <3>1, ElementOfSeq
      <4>. QED  BY <4>1, <4>2 DEF Record
    <3>3. log' \in [1 .. synced' -> Event] /\ synced' \in Nat
      BY <3>1, <3>2
    <3>. HIDE DEF log
    <3>. QED  BY <3>3, FunctionIsSeq
  <2>3. FlushedGrows
    BY StepGrows
  <2>4. \A i \in 1 .. synced : log'[i] = log[i]
    BY <2>1, <2>2, <2>3 DEF FlushedGrows
  <2>5. SubSeq(log', 1, Len(log)) = log
    <3>. HIDE DEF log
    <3>1. synced <= synced'
      BY <2>3 DEF FlushedGrows
    <3>2. /\ SubSeq(log', 1, synced) \in Seq(Event)
          /\ Len(SubSeq(log', 1, synced)) = synced
          /\ \A i \in 1 .. synced : SubSeq(log', 1, synced)[i] = log'[i]
      BY <2>1, <2>2, <3>1, SubSeqProperties
    <3>. QED  BY <2>1, <2>4, <3>2, SeqEqual
  <2>. QED  BY <2>1, <2>2, <2>3, <2>5 DEF Abstract!Next, FlushedGrows
<1>. QED  BY <1>2, <1>3, LogInvariant, PTL DEF LogSpec, OnlyAppended, Abstract!Spec

----------------------------------------------------------------------------
(* The durable service: its inductive invariants.                          *)

\* Checkpoints are sound, and so is every one still to be saved.
CheckInv ==
    /\ CheckpointSound
    /\ \A p \in Writer : wrap[p].pc = "checkpoint" =>
           \A n \in wrap[p].todo, m \in Steps :
               m <= n => wrap[p].latest[m] \in S!OfKind(Pipeline[m])

\* A run in the service is where run is, and one that returned left an artifact of
\* every required kind.
AllKinds == \A k \in S!Required : S!OfKind(k) # {}

InRun == {"run_start", "run_scan", "run_produce", "returned", "raised"}

RunInv ==
    \A p \in Writer :
        /\ wrap[p].pc = "service" /\ wrap[p].op = "run" =>
               /\ proc[p].pc \in InRun
               /\ proc[p].pc = "returned" => AllKinds
        /\ wrap[p].pc = "checkpoint" =>
               /\ AllKinds /\ Supported
               /\ \A n \in Steps : checkpoints[n] # None \/ n \in wrap[p].todo

\* The event on its way into the file.
Under(p) == call[p].pc \in {"lock", "write"}

Completes(e) == e.type = "task.execution_completed"
Observes(e, k) == e.type = "artifact.observed" /\ e.art \in S!OfKind(k)

\* A process that is still to record a completion, itself or in its trail, has recorded
\* an artifact of every kind, or will before that.
Owes(p) == (Under(p) /\ Completes(call[p].event)) \/ \E n \in DOMAIN wrap[p].trail : Completes(wrap[p].trail[n])

Recorded(k) == \E j \in DOMAIN file : Observes(file[j].event, k)

Backed(p) ==
    /\ \A n \in Steps : checkpoints[n] # None
    /\ \A k \in S!Required :
           \/ Recorded(k)
           \/ Under(p) /\ Observes(call[p].event, k)
           \/ \E n \in DOMAIN wrap[p].trail : Observes(wrap[p].trail[n], k)

BackedInv ==
    /\ \A p \in Writer :
           /\ \A n \in DOMAIN wrap[p].trail : Completes(wrap[p].trail[n]) => n = Len(wrap[p].trail)
           /\ Under(p) /\ Completes(call[p].event) => wrap[p].trail = <<>>
           /\ Owes(p) /\ call[p].pc # "raised" => Backed(p)
    /\ \A i \in DOMAIN file : Completes(file[i].event) =>
           /\ \A n \in Steps : checkpoints[n] # None
           /\ \A k \in S!Required : \E j \in 1 .. i - 1 : Observes(file[j].event, k)

\* The acknowledged records of executions, and the processes that have one and have not
\* begun on the task.
Starts == {i \in acked : file[i].event.type = "task.started"}

Entitled ==
    {p \in Writer : \/ wrap[p].pc = "started" /\ call[p].pc = "returned"
                    \/ proc[p].pc = "run_start"}

StartInv ==
    /\ task.attempt + Cardinality(Entitled) <= Cardinality(Starts)
    /\ \A p \in Writer : proc[p].pc = "run_start" =>
           proc[p].snap.attempt + Cardinality(Entitled) <= Cardinality(Starts)
    /\ \A p \in Writer :
           /\ wrap[p].pc = "started" => call[p].pc # "idle"
           /\ wrap[p].pc = "started" /\ Under(p) => call[p].event.type = "task.started"
           /\ call[p].pc = "sync" =>
                  /\ Len(file) \notin acked
                  /\ wrap[p].pc = "started" => file[Len(file)].event.type = "task.started"

----------------------------------------------------------------------------
(* The parts.                                                              *)

LEMMA EventIs == /\ Event = [type : EventType, art : 0 .. MaxArtifacts]
                 /\ MaxArtifacts \in Nat
  BY DurableAssumption

LEMMA WriterIs == Writer = Runner \cup Caller /\ S!Proc = Writer
  BY DurableAssumption DEF S!Proc

LEMMA PartsAssume == S!ServiceAssumption
  BY AuditAssumption, DurableAssumption DEF S!ServiceAssumption, Method, S!Required

\* To the task's tables every step is one of the service's, or none.
LEMMA ServiceSteps == [Next]_vars => [S!Next]_(S!vars)
<1>. SUFFICES ASSUME [Next]_vars
              PROVE  S!Next \/ UNCHANGED S!vars
  OBVIOUS
<1>1. ASSUME UNCHANGED taskVars
      PROVE  UNCHANGED S!vars
  BY <1>1 DEF taskVars, S!vars
<1>2. ASSUME NEW p \in Runner, run_enter(p)
      PROVE  S!run_read(p) \/ UNCHANGED taskVars
  BY <1>2 DEF run_enter
<1>3. ASSUME NEW p \in Caller, NEW op \in Method, method(p, op)
      PROVE  S!CallBegin(p)
  <2>1. op \in Methods /\ Enter(p, op)
    BY <1>3 DEF method
  <2>2. CASE op = "approve"
    <3>1. PICK i \in DOMAIN arts, d \in S!Decision : S!approve_read(p, {i}, d)
      BY <2>1, <2>2 DEF Enter
    <3>2. S!Cardinality({i}) = Cardinality({i}) /\ Cardinality({i}) = 1
      BY FS_Singleton DEF S!Cardinality, Cardinality
    <3>3. S!Cardinality({i}) \in 1 .. MaxIds
      BY <3>2, DurableAssumption
    <3>. QED  BY <2>1, <2>2, <3>1, <3>3 DEF S!CallBegin
  <2>3. CASE op # "approve"
    BY <2>1, <2>3 DEF Enter, S!CallBegin, Method
  <2>. QED  BY <2>2, <2>3
<1>4. ASSUME NEW p \in Writer, ServiceStep(p)
      PROVE  \/ p \in Runner /\ S!RunStep(p)
             \/ p \in Caller /\ S!CallStep(p)
             \/ S!session_fails(p)
  BY <1>4 DEF ServiceStep
<1>5. ASSUME NEW p \in Writer, run_exit(p) \/ method_exit(p)
      PROVE  S!Done(p)
  BY <1>5 DEF run_exit, method_exit
<1>6. ASSUME NEW p \in Writer, Crash(p)
      PROVE  S!Crash(p) \/ UNCHANGED taskVars
  BY <1>6 DEF Crash
<1>7. ASSUME NEW p \in Writer,
             \/ run(p) \/ (\E n \in Steps : save(p, n)) \/ save_raise(p) \/ run_observe(p)
             \/ AppendStep(p) \/ trail_append(p) \/ trail_next(p)
      PROVE  UNCHANGED taskVars
  BY <1>7 DEF run, save, save_raise, run_observe, AppendStep, trail_append, trail_next, taskVars
<1>. QED  BY <1>1, <1>2, <1>3, <1>4, <1>5, <1>6, <1>7, WriterIs DEF Next, vars, S!Proc, S!Next

\* Behind the wrapper the service behaves as TaskService says: every step of the durable
\* service is one of its steps or leaves its tables alone (durable_service.py).
THEOREM ServicePart == Spec => S!Spec
<1>1. Init => S!Init
  BY DEF Init
<1>. QED  BY <1>1, ServiceSteps, PTL DEF Spec, S!Spec

\* Whatever is released through the durable wrapper was reviewed.
THEOREM ReleasesReviewed == Spec => []S!ReleaseReviewed
  BY ServicePart, S!ReleasesReviewed, PartsAssume, PTL

LEMMA ServiceType == Spec => []S!TypeOK
  BY ServicePart, S!TypeCorrect, PartsAssume, PTL

----------------------------------------------------------------------------
(* The wrapper's own state.                                                *)

WrapType ==
    /\ checkpoints \in [Steps -> Checkpoint \cup {None}]
    /\ wrap \in [Writer -> Wrap]

LEMMA WrapFields ==
    ASSUME WrapType, NEW p \in Writer
    PROVE  /\ wrap[p] \in Wrap /\ wrap[p].pc \in WrapPC /\ wrap[p].op \in Method \cup {"run"}
           /\ wrap[p].trail \in Seq(Event) /\ wrap[p].latest \in [Steps -> Nat]
           /\ wrap[p].todo \subseteq Steps
<1>1. wrap[p] \in Wrap
  BY DEF WrapType
<1>. QED  BY <1>1 DEF Wrap, Outputs

LEMMA Goes ==
    ASSUME WrapType, NEW p \in Writer, NEW w \in Wrap, Goto(p, w)
    PROVE  wrap' \in [Writer -> Wrap] /\ wrap'[p] = w /\ \A q \in Writer \ {p} : wrap'[q] = wrap[q]
BY DEF WrapType, Goto

\* The records the actions make.
LEMMA WrapMakes ==
    /\ Idle \in Wrap
    /\ \A pc \in WrapPC :
           /\ [Idle EXCEPT !.pc = pc] \in Wrap
           /\ \A op \in Method : [Idle EXCEPT !.pc = pc, !.op = op] \in Wrap
           /\ \A trail \in Seq(Event) : [Idle EXCEPT !.pc = pc, !.trail = trail] \in Wrap
           /\ \A latest \in [Steps -> Nat], todo \in SUBSET Steps :
                  [Idle EXCEPT !.pc = pc, !.latest = latest, !.todo = todo] \in Wrap
    /\ \A w \in Wrap :
           /\ \A pc \in WrapPC : [w EXCEPT !.pc = pc] \in Wrap
           /\ \A trail \in Seq(Event) : [w EXCEPT !.trail = trail] \in Wrap
           /\ \A todo \in SUBSET Steps : [w EXCEPT !.todo = todo] \in Wrap
<1>1. Nothing \in [Steps -> Nat]
  BY DEF Nothing
<1>2. <<>> \in Seq(Event)
  OBVIOUS
<1>3. Idle \in Wrap
  BY <1>1, <1>2 DEF Idle, Wrap, WrapPC, Outputs
<1>. QED  BY <1>3 DEF Wrap, Outputs

LEMMA Events == \A type \in EventType : Ev(type) \in Event
  BY EventIs DEF Ev

\* A run's trail: each artifact's event at its place, and the completion behind them.
LEMMA TrailIs ==
    ASSUME S!TypeOK
    PROVE  /\ RunTrail \in Seq(Event) /\ Len(RunTrail) = Len(arts) + 1
           /\ DOMAIN RunTrail = 1 .. Len(arts) + 1 /\ DOMAIN arts = 1 .. Len(arts)
           /\ \A i \in DOMAIN arts : RunTrail[i] = [type |-> "artifact.observed", art |-> i]
           /\ RunTrail[Len(arts) + 1] = Ev("task.execution_completed")
<1>. DEFINE observed == [i \in DOMAIN arts |-> [type |-> "artifact.observed", art |-> i]]
<1>1. Len(arts) \in Nat /\ DOMAIN arts = 1 .. Len(arts)
  BY DEF S!TypeOK
<1>2. \A i \in DOMAIN arts : [type |-> "artifact.observed", art |-> i] \in Event
  BY <1>1, EventIs DEF EventType, S!TypeOK
<1>3. observed \in Seq(Event) /\ Len(observed) = Len(arts)
  BY <1>1, <1>2
<1>4. Ev("task.execution_completed") \in Event
  BY Events DEF EventType
<1>5. RunTrail = Append(observed, Ev("task.execution_completed"))
  BY DEF RunTrail
<1>6. \A i \in DOMAIN arts : observed[i] = [type |-> "artifact.observed", art |-> i]
  OBVIOUS
<1>. HIDE DEF observed
<1>. QED  BY <1>1, <1>3, <1>4, <1>5, <1>6

LEMMA StepsAre == Steps \subseteq 1 .. 4 /\ Steps \subseteq Nat
  BY DEF Steps, Pipeline

\* What a checkpoint is made of.
LEMMA FoundIs ==
    ASSUME S!TypeOK
    PROVE  /\ Found \in [Steps -> Nat] /\ Reached \subseteq Steps
           /\ \A n \in Reached, m \in Steps :
                  m <= n => Found[m] \in S!OfKind(Pipeline[m])
<1>1. ASSUME NEW n \in Steps, S!OfKind(Pipeline[n]) # {}
      PROVE  S!GateLatest(Pipeline[n]) \in S!OfKind(Pipeline[n])
  <2>1. S!Latest(Pipeline[n]) # {}
    BY <1>1, S!LatestExists, PartsAssume
  <2>2. S!GateLatest(Pipeline[n]) \in S!Latest(Pipeline[n])
    BY <2>1, S!GateLatestIsLatest, PartsAssume
  <2>. QED  BY <2>2 DEF S!Latest
<1>2. \A n \in Steps : S!OfKind(Pipeline[n]) \subseteq Nat
  BY DEF S!OfKind, S!TypeOK
<1>3. ASSUME NEW n \in Reached
      PROVE  n \in Steps /\ S!OfKind(Pipeline[n]) # {}
  BY StepsAre DEF Reached
<1>4. Found \in [Steps -> Nat]
  BY <1>1, <1>2, <1>3 DEF Found
<1>5. ASSUME NEW n \in Reached, NEW m \in Steps, m <= n
      PROVE  m \in Reached
  BY <1>5, StepsAre DEF Reached
<1>. QED  BY <1>1, <1>3, <1>4, <1>5 DEF Found, Reached

LEMMA WrapTypeKept == S!TypeOK /\ WrapType /\ [Next]_vars => WrapType'
<1>. SUFFICES ASSUME S!TypeOK, WrapType, [Next]_vars
              PROVE  WrapType'
  OBVIOUS
<1>0. ASSUME NEW p \in Writer, NEW w \in Wrap, Goto(p, w), UNCHANGED checkpoints
      PROVE  WrapType'
  BY <1>0, Goes DEF WrapType
<1>1. ASSUME NEW p \in Writer, Exit(p), UNCHANGED checkpoints
      PROVE  WrapType'
  BY <1>0, <1>1, WrapMakes DEF Exit
<1>2. ASSUME NEW p \in Writer, run(p)
      PROVE  WrapType'
  BY <1>0, <1>2, WrapMakes DEF run, WrapPC
<1>3. ASSUME NEW p \in Writer, run_enter(p)
      PROVE  WrapType'
  BY <1>0, <1>1, <1>3, WrapMakes, WrapFields DEF run_enter, WrapPC
<1>4. ASSUME NEW p \in Writer, run_exit(p)
      PROVE  WrapType'
  <2>1. <<Ev("task.failed")>> \in Seq(Event)
    BY Events DEF EventType
  <2>2. /\ Idle \in Wrap
        /\ [Idle EXCEPT !.pc = "trail", !.trail = <<Ev("task.failed")>>] \in Wrap
        /\ [Idle EXCEPT !.pc = "checkpoint", !.latest = Found, !.todo = Reached] \in Wrap
    BY <2>1, WrapMakes, FoundIs DEF WrapPC
  <2>. QED  BY <1>0, <1>4, <2>2 DEF run_exit
<1>5. ASSUME NEW p \in Writer, NEW n \in Steps, save(p, n)
      PROVE  WrapType'
  <2>. DEFINE c == [lineage |-> Lineage(wrap[p], n), output |-> wrap[p].latest[n]]
  <2>1. Goto(p, [wrap[p] EXCEPT !.todo = wrap[p].todo \ {n}]) /\ checkpoints' = [checkpoints EXCEPT ![n] = c]
    BY <1>5 DEF save
  <2>2. [wrap[p] EXCEPT !.todo = wrap[p].todo \ {n}] \in Wrap
    BY WrapFields, WrapMakes
  <2>3. wrap' \in [Writer -> Wrap]
    BY <2>1, <2>2, Goes
  <2>4. c \in Checkpoint
    BY WrapFields DEF Checkpoint, Outputs, Lineage
  <2>. HIDE DEF c
  <2>. QED  BY <2>1, <2>3, <2>4 DEF WrapType
<1>6. ASSUME NEW p \in Writer, save_raise(p)
      PROVE  WrapType'
  BY <1>1, <1>6 DEF save_raise
<1>7. ASSUME NEW p \in Writer, run_observe(p)
      PROVE  WrapType'
  BY <1>0, <1>7, WrapMakes, TrailIs DEF run_observe, WrapPC
<1>8. ASSUME NEW p \in Writer, NEW op \in Method, method(p, op)
      PROVE  WrapType'
  BY <1>0, <1>8, WrapMakes DEF method, WrapPC
<1>9. ASSUME NEW p \in Writer, method_exit(p)
      PROVE  WrapType'
  <2>1. wrap[p].op \in Method
    BY <1>9, WrapFields DEF method_exit
  <2>2. Ev(wrap[p].op) \in Event
    BY <2>1, Events DEF EventType
  <2>3. Idle \in Wrap /\ [Idle EXCEPT !.pc = "trail", !.trail = <<Ev(wrap[p].op)>>] \in Wrap
    <3>1. <<Ev(wrap[p].op)>> \in Seq(Event)
      BY <2>2
    <3>. QED  BY <3>1, WrapMakes DEF WrapPC
  <2>. QED  BY <1>0, <1>9, <2>3 DEF method_exit
<1>10. ASSUME NEW p \in Writer, trail_append(p)
       PROVE  WrapType'
  <2>1. Tail(wrap[p].trail) \in Seq(Event)
    BY <1>10, WrapFields DEF trail_append
  <2>. QED  BY <1>0, <1>10, <2>1, WrapMakes, WrapFields DEF trail_append
<1>11. ASSUME NEW p \in Writer, trail_next(p)
       PROVE  WrapType'
  BY <1>1, <1>11 DEF trail_next, WrapType
<1>12. ASSUME NEW p \in Writer, Crash(p)
       PROVE  WrapType'
  BY <1>1, <1>12 DEF Crash, Exit, Goto
<1>13. ASSUME NEW p \in Writer, ServiceStep(p) \/ AppendStep(p)
       PROVE  WrapType'
  BY <1>13 DEF ServiceStep, AppendStep, WrapType
<1>14. CASE UNCHANGED vars
  BY <1>14 DEF vars, WrapType
<1>. QED  BY <1>2, <1>3, <1>4, <1>5, <1>6, <1>7, <1>8, <1>9, <1>10, <1>11, <1>12, <1>13, <1>14,
             WriterIs DEF Next

LEMMA WrapTypeHolds == Spec => []WrapType
<1>1. Init => WrapType
  BY WrapMakes DEF Init, WrapType
<1>. QED  BY <1>1, WrapTypeKept, ServiceType, PTL DEF Spec

\* To the log every step is one of a writer's, or none.
LEMMA LogSteps == WrapType /\ [Next]_vars => [LogNext]_(logVars)
<1>. SUFFICES ASSUME WrapType, [Next]_vars
              PROVE  LogNext \/ UNCHANGED logVars
  OBVIOUS
<1>1. ASSUME UNCHANGED logVars
      PROVE  UNCHANGED logVars
  BY <1>1 DEF logVars, logVars
<1>2. ASSUME NEW p \in Runner, run(p)
      PROVE  append(p, Ev("task.started")) /\ Ev("task.started") \in Event
  BY <1>2, Events DEF run, EventType
<1>3. ASSUME NEW p \in Writer, trail_append(p)
      PROVE  append(p, Head(wrap[p].trail)) /\ Head(wrap[p].trail) \in Event
  BY <1>3, WrapFields DEF trail_append
<1>4. ASSUME NEW p \in Writer, run_enter(p) \/ trail_next(p)
      PROVE  LogDone(p) /\ UNCHANGED <<file, synced, lock, acked>>
  BY <1>4 DEF run_enter, trail_next
<1>5. ASSUME NEW p \in Writer, AppendStep(p)
      PROVE  append_step(p)
  BY <1>5 DEF AppendStep
<1>6. ASSUME NEW p \in Writer, Crash(p)
      PROVE  LogCrash(p) \/ UNCHANGED logVars
  BY <1>6 DEF Crash
<1>7. ASSUME NEW p \in Writer,
             \/ run_exit(p) \/ (\E n \in Steps : save(p, n)) \/ save_raise(p) \/ run_observe(p)
             \/ (\E op \in Method : method(p, op)) \/ method_exit(p) \/ ServiceStep(p)
      PROVE  UNCHANGED logVars
  BY <1>7 DEF run_exit, save, save_raise, run_observe, method, method_exit, ServiceStep
<1>. QED  BY <1>1, <1>2, <1>3, <1>4, <1>5, <1>6, <1>7, WriterIs DEF Next, vars, LogNext

\* The wrapper uses the log as AuditLog says: every step of the durable service is one of a
\* writer's or leaves the log alone.
THEOREM LogPart == Spec => LogSpec
<1>1. Init => LogInit
  BY DEF Init
<1>. QED  BY <1>1, LogSteps, WrapTypeHolds, PTL DEF Spec, LogSpec

LEMMA LogHolds == Spec => []LogInv
  BY LogPart, LogInvariant, PTL

\* What the wrapper recorded is there for good, and a log that verifies has all of it.
THEOREM RecordsKept == Spec => []AckedKept
  BY LogPart, AcknowledgedKept, PTL

\* Nothing the wrapper does takes a flushed record back or puts one before it: the log of
\* the durable service implements the append-only log.
THEOREM RecordsOnlyAppended == Spec => OnlyAppended
  BY LogPart, ImplementsAppendOnly, PTL

----------------------------------------------------------------------------
(* What a step does to the process that takes it.                          *)

\* The other processes are where they were.
OthersStay(p) == \A q \in Writer \ {p} : wrap'[q] = wrap[q] /\ proc'[q] = proc[q] /\ call'[q] = call[q]

\* A step of a service's method.
LEMMA ServiceDoes ==
    ASSUME S!TypeOK, NEW p \in Writer, ServiceStep(p)
    PROVE  /\ wrap[p].pc = "service" /\ UNCHANGED <<wrap, call>> /\ OthersStay(p)
           /\ \/ /\ proc[p].pc = "run_start" /\ proc'[p].pc = "run_scan"
                 /\ task'.attempt = proc[p].snap.attempt + 1
              \/ /\ proc[p].pc \in {"run_start", "run_scan", "run_produce"}
                 /\ proc'[p].pc \in {"run_produce", "raised"}
                 /\ task'.attempt = task.attempt
              \/ /\ proc[p].pc = "run_produce" /\ proc'[p].pc = "returned" /\ AllKinds
                 /\ task'.attempt = task.attempt
              \/ /\ proc[p].pc \notin InRun
                 /\ proc'[p].pc \in {"release_write", "returned", "raised"}
                 /\ task'.attempt = task.attempt
<1>0. p \in S!Proc /\ proc \in [S!Proc -> S!Call] /\ task \in S!TaskRow /\ S!Proc = Writer
  BY WriterIs DEF S!TypeOK, S!Proc
<1>1. wrap[p].pc = "service" /\ UNCHANGED <<wrap, call>>
  BY DEF ServiceStep, logVars
<1>2. ASSUME S!Returns(p) \/ S!Raises(p)
      PROVE  /\ \A q \in Writer \ {p} : proc'[q] = proc[q]
             /\ S!Returns(p) => proc'[p].pc = "returned"
             /\ S!Raises(p) => proc'[p].pc = "raised"
             /\ proc'[p].pc \in {"returned", "raised"}
  BY <1>0, <1>2 DEF S!Returns, S!Raises, S!Idle
<1>3. ASSUME S!run_start(p)
      PROVE  /\ \A q \in Writer \ {p} : proc'[q] = proc[q]
             /\ proc[p].pc = "run_start" /\ proc'[p].pc = "run_scan"
             /\ task'.attempt = proc[p].snap.attempt + 1
  BY <1>0, <1>3 DEF S!run_start, S!Call
<1>4. ASSUME S!run_scan(p) \/ S!run_revision(p) \/ S!run_produce(p)
      PROVE  /\ \A q \in Writer \ {p} : proc'[q] = proc[q]
             /\ proc[p].pc \in {"run_scan", "run_produce"} /\ proc'[p].pc = "run_produce"
             /\ task'.attempt = task.attempt
  <2>1. CASE S!run_scan(p)
    BY <1>0, <2>1 DEF S!run_scan, S!Call, S!rows
  <2>2. CASE S!run_revision(p)
    BY <1>0, <2>2 DEF S!run_revision, S!Call, S!rows
  <2>3. CASE S!run_produce(p)
    BY <1>0, <2>3 DEF S!run_produce, S!Call
  <2>. QED  BY <1>4, <2>1, <2>2, <2>3
<1>5. ASSUME S!run_settle(p)
      PROVE  proc[p].pc = "run_produce" /\ S!Returns(p) /\ AllKinds /\ task'.attempt = task.attempt
  <2>1. S!Missing(p) = {} /\ proc[p].ids \subseteq DOMAIN arts
    BY <1>0, <1>5 DEF S!run_settle, S!TypeOK
  <2>2. AllKinds
    BY <2>1 DEF S!Missing, AllKinds, S!Required, S!OfKind
  <2>. QED  BY <1>0, <1>5, <2>2 DEF S!run_settle, S!TaskRow
<1>6. ASSUME S!run_fail(p)
      PROVE  /\ proc[p].pc \in {"run_scan", "run_produce"} /\ S!Raises(p)
             /\ task'.attempt = task.attempt
  BY <1>0, <1>6 DEF S!run_fail, S!TaskRow
<1>7. ASSUME S!session_fails(p)
      PROVE  /\ proc[p].pc = "run_start" \/ proc[p].pc \notin InRun
             /\ S!Raises(p) /\ task'.attempt = task.attempt
  BY <1>7 DEF S!session_fails, S!rows, InRun
<1>8. ASSUME S!CallStep(p)
      PROVE  /\ \A q \in Writer \ {p} : proc'[q] = proc[q]
             /\ proc[p].pc \notin InRun
             /\ proc'[p].pc \in {"release_write", "returned", "raised"}
             /\ task'.attempt = task.attempt
  <2>1. CASE S!revise_commit(p)
    BY <1>0, <1>2, <2>1 DEF S!revise_commit, InRun, S!TaskRow
  <2>2. CASE S!approve_commit(p)
    <3>1. task'.attempt = task.attempt
      BY <1>0, <2>2 DEF S!approve_commit, S!TaskRow
    <3>. QED  BY <1>2, <2>2, <3>1 DEF S!approve_commit, InRun
  <2>3. CASE S!release_read(p)
    BY <1>0, <1>2, <2>3 DEF S!release_read, InRun, S!rows, S!Call
  <2>7. CASE S!release_revision(p)
    BY <1>0, <2>7 DEF S!release_revision, InRun, S!rows, S!Call
  <2>4. CASE S!release_write(p)
    BY <1>2, <2>4 DEF S!release_write, InRun
  <2>5. CASE S!retry_commit(p)
    BY <1>0, <1>2, <2>5 DEF S!retry_commit, InRun, S!TaskRow
  <2>6. CASE S!cancel_commit(p)
    BY <1>0, <1>2, <2>6 DEF S!cancel_commit, InRun, S!TaskRow
  <2>. QED  BY <1>8, <2>1, <2>2, <2>3, <2>4, <2>5, <2>6, <2>7 DEF S!CallStep
<1>9. S!RunStep(p) \/ S!CallStep(p) \/ S!session_fails(p)
  BY DEF ServiceStep
<1>. QED  BY <1>1, <1>2, <1>3, <1>4, <1>5, <1>6, <1>7, <1>8, <1>9 DEF S!RunStep, OthersStay

\* A step of an append.
LEMMA AppendDoes ==
    ASSUME LogInv, NEW p \in Writer, AppendStep(p)
    PROVE  /\ UNCHANGED <<wrap, taskVars, checkpoints>> /\ OthersStay(p)
           /\ \/ /\ call[p].pc \in {"lock", "write", "sync"} /\ call'[p].pc = "raised"
                 /\ UNCHANGED <<file, acked>>
              \/ /\ call[p].pc = "lock" /\ call'[p].pc = "write"
                 /\ call'[p].event = call[p].event /\ UNCHANGED <<file, acked>>
              \/ /\ call[p].pc = "write" /\ call'[p].pc = "sync"
                 /\ \E r \in Record : file' = Append(file, r) /\ r.event = call[p].event
                 /\ UNCHANGED acked
              \/ /\ call[p].pc = "sync" /\ call'[p].pc = "returned"
                 /\ acked' = acked \cup {Len(file)} /\ UNCHANGED file
<1>0. call \in [Writer -> [pc : LogPC, event : Event \cup {None}, prev : Nat]]
  BY DEF LogInv, LogTypeOK
<1>1. UNCHANGED <<wrap, taskVars, checkpoints>> /\ UNCHANGED proc
  BY DEF AppendStep, taskVars
<1>2. ASSUME NEW how, Ends(p, how)
      PROVE  (\A q \in Writer \ {p} : call'[q] = call[q]) /\ call'[p].pc = how
  BY <1>0, <1>2 DEF Ends, LogIdle
<1>3. ASSUME _process_lock(p)
      PROVE  /\ \A q \in Writer \ {p} : call'[q] = call[q]
             /\ call[p].pc = "lock" /\ UNCHANGED <<file, acked>>
             /\ \/ call'[p].pc = "raised"
                \/ call'[p].pc = "write" /\ call'[p].event = call[p].event
  BY <1>0, <1>2, <1>3 DEF _process_lock
<1>4. ASSUME os_write(p)
      PROVE  /\ \A q \in Writer \ {p} : call'[q] = call[q]
             /\ call[p].pc = "write" /\ call'[p].pc = "sync" /\ UNCHANGED acked
             /\ \E r \in Record : file' = Append(file, r) /\ r.event = call[p].event
  <2>1. PICK part \in Part :
            file' = Append(file, [event |-> call[p].event, prev |-> call[p].prev, part |-> part])
    BY <1>4 DEF os_write, Written, Part
  <2>2. call[p].event \in Event /\ call[p].prev \in Nat
    BY <1>0, <1>4 DEF os_write, LogInv, EventGiven
  <2>3. [event |-> call[p].event, prev |-> call[p].prev, part |-> part] \in Record
    BY <2>2 DEF Record
  <2>4. (\A q \in Writer \ {p} : call'[q] = call[q]) /\ call'[p].pc = "sync"
    BY <1>0, <1>4 DEF os_write, LogGoto
  <2>. QED  BY <1>4, <2>1, <2>3, <2>4 DEF os_write
<1>5. ASSUME os_fsync(p)
      PROVE  /\ \A q \in Writer \ {p} : call'[q] = call[q]
             /\ call[p].pc = "sync" /\ call'[p].pc = "returned"
             /\ acked' = acked \cup {Len(file)} /\ UNCHANGED file
  BY <1>2, <1>5 DEF os_fsync
<1>6. ASSUME os_raise(p)
      PROVE  /\ \A q \in Writer \ {p} : call'[q] = call[q]
             /\ call[p].pc \in {"write", "sync"} /\ call'[p].pc = "raised"
             /\ UNCHANGED <<file, acked>>
  BY <1>2, <1>6 DEF os_raise
<1>7. append_step(p)
  BY DEF AppendStep
<1>. QED  BY <1>1, <1>3, <1>4, <1>5, <1>6, <1>7 DEF append_step, OthersStay

\* The wrapper's own steps.
LEMMA RunDoes ==
    ASSUME LogInv, WrapType, NEW p \in Writer, run(p)
    PROVE  /\ OthersStay(p) /\ UNCHANGED <<taskVars, file, acked, checkpoints>> /\ proc' = proc
           /\ wrap[p].pc = "idle" /\ call[p].pc = "idle"
           /\ wrap'[p].pc = "started" /\ wrap'[p].trail = <<>>
           /\ call'[p].pc = "lock" /\ call'[p].event = Ev("task.started")
<1>1. call \in [Writer -> [pc : LogPC, event : Event \cup {None}, prev : Nat]]
  BY DEF LogInv, LogTypeOK
<1>2. [Idle EXCEPT !.pc = "started"] \in Wrap
  BY WrapMakes DEF WrapPC
<1>3. wrap'[p] = [Idle EXCEPT !.pc = "started"] /\ \A q \in Writer \ {p} : wrap'[q] = wrap[q]
  BY <1>2, Goes DEF run
<1>4. wrap'[p].pc = "started" /\ wrap'[p].trail = <<>>
  BY <1>3 DEF Idle
<1>. QED  BY <1>1, <1>3, <1>4 DEF run, append, taskVars, OthersStay

LEMMA EnterDoes ==
    ASSUME S!TypeOK, LogInv, WrapType, NEW p \in Writer, run_enter(p)
    PROVE  /\ OthersStay(p) /\ UNCHANGED <<task, arts, file, acked, checkpoints>>
           /\ wrap[p].pc = "started" /\ call[p].pc \in {"returned", "raised"}
           /\ call'[p].pc = "idle"
           /\ \/ wrap'[p] = Idle /\ proc' = proc
              \/ /\ call[p].pc = "returned" /\ proc[p].pc = "idle"
                 /\ wrap'[p].pc = "service" /\ wrap'[p].op = wrap[p].op
                 /\ wrap'[p].trail = wrap[p].trail
                 /\ \/ proc'[p].pc = "run_start" /\ proc'[p].snap = task
                    \/ proc'[p].pc = "raised"
<1>1. call \in [Writer -> [pc : LogPC, event : Event \cup {None}, prev : Nat]]
  BY DEF LogInv, LogTypeOK
<1>2. call[p].pc \in {"returned", "raised"} /\ call'[p].pc = "idle"
      /\ \A q \in Writer \ {p} : call'[q] = call[q]
  BY <1>1 DEF run_enter, LogDone, Returned, LogIdle
<1>3. CASE call[p].pc = "raised"
  <2>1. wrap'[p] = Idle /\ \A q \in Writer \ {p} : wrap'[q] = wrap[q]
    BY <1>3, Goes, WrapMakes DEF run_enter, Exit
  <2>. QED  BY <1>2, <1>3, <2>1 DEF run_enter, taskVars, OthersStay
<1>4. CASE call[p].pc # "raised"
  <2>1. S!run_read(p) /\ Goto(p, [wrap[p] EXCEPT !.pc = "service"])
    BY <1>4 DEF run_enter
  <2>. DEFINE w == [wrap[p] EXCEPT !.pc = "service"]
  <2>2. wrap[p] \in Wrap
    BY WrapFields
  <2>3. w.pc = "service" /\ w.op = wrap[p].op /\ w.trail = wrap[p].trail
    BY <2>2 DEF Wrap
  <2>4. w \in Wrap
    BY <2>2, WrapMakes DEF WrapPC
  <2>5. w \in Wrap /\ w.pc = "service" /\ w.op = wrap[p].op /\ w.trail = wrap[p].trail
    BY <2>3, <2>4
  <2>6. Goto(p, w)
    BY <2>1
  <2>. HIDE DEF w
  <2>7. wrap'[p] = w /\ \A q \in Writer \ {p} : wrap'[q] = wrap[q]
    BY <2>5, <2>6, Goes
  <2>8. p \in S!Proc /\ proc \in [S!Proc -> S!Call] /\ S!Proc = Writer
    BY WriterIs DEF S!TypeOK, S!Proc
  <2>9. /\ proc[p].pc = "idle" /\ UNCHANGED <<task, arts>>
        /\ \A q \in Writer \ {p} : proc'[q] = proc[q]
        /\ (proc'[p].pc = "run_start" /\ proc'[p].snap = task) \/ proc'[p].pc = "raised"
    BY <2>1, <2>8 DEF S!run_read, S!Begin, S!Raises, S!Idle, S!rows
  <2>. QED  BY <1>2, <1>4, <2>5, <2>7, <2>9 DEF run_enter, OthersStay
<1>. QED  BY <1>3, <1>4

\* A process that takes the result of the service is idle there.
LEMMA DoneDoes ==
    ASSUME S!TypeOK, NEW p \in Writer, S!Done(p)
    PROVE  /\ proc[p].pc \in {"returned", "raised"} /\ proc'[p].pc = "idle"
           /\ UNCHANGED <<task, arts>> /\ \A q \in Writer \ {p} : proc'[q] = proc[q]
<1>1. p \in S!Proc /\ proc \in [S!Proc -> S!Call] /\ S!Proc = Writer
  BY WriterIs DEF S!TypeOK, S!Proc
<1>. QED  BY <1>1 DEF S!Done, S!rows, S!Idle

LEMMA ExitDoes ==
    ASSUME S!TypeOK, WrapType, NEW p \in Writer, run_exit(p)
    PROVE  /\ OthersStay(p) /\ UNCHANGED <<task, arts, call, file, acked, checkpoints>>
           /\ wrap[p].pc = "service" /\ wrap[p].op = "run"
           /\ proc[p].pc \in {"returned", "raised"} /\ proc'[p].pc = "idle"
           /\ \/ wrap'[p] = Idle
              \/ wrap'[p].pc = "trail" /\ wrap'[p].trail = <<Ev("task.failed")>>
              \/ /\ proc[p].pc = "returned" /\ Supported
                 /\ wrap'[p].pc = "checkpoint" /\ wrap'[p].trail = <<>>
                 /\ wrap'[p].latest = Found /\ wrap'[p].todo = Reached
<1>1. <<Ev("task.failed")>> \in Seq(Event)
  BY Events DEF EventType
<1>. DEFINE failed == [Idle EXCEPT !.pc = "trail", !.trail = <<Ev("task.failed")>>]
            found == [Idle EXCEPT !.pc = "checkpoint", !.latest = Found, !.todo = Reached]
<1>2. Idle \in Wrap /\ failed \in Wrap /\ found \in Wrap
  BY <1>1, WrapMakes, FoundIs DEF WrapPC
<1>3. /\ failed.pc = "trail" /\ failed.trail = <<Ev("task.failed")>>
      /\ found.pc = "checkpoint" /\ found.trail = <<>>
      /\ found.latest = Found /\ found.todo = Reached
  BY DEF Idle
<1>4. \/ Goto(p, Idle) \/ Goto(p, failed)
      \/ Goto(p, found) /\ proc[p].pc # "raised" /\ Supported
  BY DEF run_exit
<1>. HIDE DEF failed, found
<1>5. /\ \A q \in Writer \ {p} : wrap'[q] = wrap[q]
      /\ \/ wrap'[p] = Idle \/ wrap'[p] = failed
         \/ wrap'[p] = found /\ proc[p].pc # "raised" /\ Supported
  BY <1>2, <1>4, Goes
<1>. QED  BY <1>3, <1>5, DoneDoes DEF run_exit, OthersStay, logVars

LEMMA SaveDoes ==
    ASSUME WrapType, NEW p \in Writer, NEW n \in Steps, save(p, n)
    PROVE  /\ OthersStay(p) /\ UNCHANGED <<taskVars, logVars>> /\ proc' = proc /\ call' = call
           /\ wrap[p].pc = "checkpoint" /\ n \in wrap[p].todo
           /\ wrap'[p].pc = "checkpoint" /\ wrap'[p].todo = wrap[p].todo \ {n}
           /\ wrap'[p].trail = wrap[p].trail /\ wrap'[p].latest = wrap[p].latest
           /\ checkpoints' = [checkpoints EXCEPT ![n] =
                                 [lineage |-> Lineage(wrap[p], n), output |-> wrap[p].latest[n]]]
<1>. DEFINE w == [wrap[p] EXCEPT !.todo = wrap[p].todo \ {n}]
<1>1. Goto(p, w)
  BY DEF save
<1>2. /\ w \in Wrap /\ w.pc = wrap[p].pc /\ w.todo = wrap[p].todo \ {n}
      /\ w.trail = wrap[p].trail /\ w.latest = wrap[p].latest
  BY WrapFields, WrapMakes DEF Wrap
<1>. HIDE DEF w
<1>3. wrap'[p] = w /\ \A q \in Writer \ {p} : wrap'[q] = wrap[q]
  BY <1>1, <1>2, Goes
<1>. QED  BY <1>2, <1>3 DEF save, OthersStay, taskVars, logVars

\* A step to an idle wrapper, or to one with a trail.
LEMMA ObserveDoes ==
    ASSUME S!TypeOK, WrapType, NEW p \in Writer, run_observe(p)
    PROVE  /\ OthersStay(p) /\ UNCHANGED <<taskVars, logVars, checkpoints>>
           /\ proc' = proc /\ call' = call
           /\ wrap[p].pc = "checkpoint" /\ wrap[p].todo = {}
           /\ wrap'[p].pc = "trail" /\ wrap'[p].trail = RunTrail
<1>. DEFINE w == [Idle EXCEPT !.pc = "trail", !.trail = RunTrail]
<1>1. Goto(p, w)
  BY DEF run_observe
<1>2. w \in Wrap /\ w.pc = "trail" /\ w.trail = RunTrail
  BY TrailIs, WrapMakes DEF WrapPC, Idle
<1>. HIDE DEF w
<1>3. wrap'[p] = w /\ \A q \in Writer \ {p} : wrap'[q] = wrap[q]
  BY <1>1, <1>2, Goes
<1>. QED  BY <1>2, <1>3 DEF run_observe, OthersStay, taskVars, logVars

LEMMA RaiseDoes ==
    ASSUME WrapType, NEW p \in Writer, save_raise(p)
    PROVE  /\ OthersStay(p) /\ UNCHANGED <<taskVars, logVars, checkpoints>>
           /\ proc' = proc /\ call' = call
           /\ wrap[p].pc = "checkpoint" /\ wrap'[p] = Idle
<1>1. wrap'[p] = Idle /\ \A q \in Writer \ {p} : wrap'[q] = wrap[q]
  BY Goes, WrapMakes DEF save_raise, Exit
<1>. QED  BY <1>1 DEF save_raise, OthersStay, taskVars, logVars

\* The other methods begin at the service.
LEMMA MethodDoes ==
    ASSUME S!TypeOK, WrapType, NEW p \in Writer, NEW op \in Method, method(p, op)
    PROVE  /\ OthersStay(p) /\ UNCHANGED <<arts, logVars, checkpoints>> /\ call' = call
           /\ wrap[p].pc = "idle" /\ proc[p].pc = "idle"
           /\ wrap'[p].pc = "service" /\ wrap'[p].op = op /\ wrap'[p].trail = <<>>
           /\ proc'[p].pc \notin {"idle", "run_start", "run_scan", "run_produce"}
           /\ task'.attempt \in {task.attempt, 0}
<1>. DEFINE w == [Idle EXCEPT !.pc = "service", !.op = op]
<1>1. Goto(p, w) /\ Enter(p, op)
  BY DEF method
<1>2. w \in Wrap /\ w.pc = "service" /\ w.op = op /\ w.trail = <<>>
  BY WrapMakes DEF WrapPC, Idle
<1>. HIDE DEF w
<1>3. wrap'[p] = w /\ \A q \in Writer \ {p} : wrap'[q] = wrap[q]
  BY <1>1, <1>2, Goes
<1>4. p \in S!Proc /\ proc \in [S!Proc -> S!Call] /\ S!Proc = Writer
  BY WriterIs DEF S!TypeOK, S!Proc
<1>. DEFINE Entered == /\ proc[p].pc = "idle" /\ UNCHANGED arts
                       /\ \A q \in Writer \ {p} : proc'[q] = proc[q]
                       /\ proc'[p].pc \notin {"idle", "run_start", "run_scan", "run_produce"}
                       /\ task'.attempt \in {task.attempt, 0}
<1>5. ASSUME op = "submit"
      PROVE  Entered
  BY <1>1, <1>4, <1>5 DEF Enter, S!submit, S!NoTask, S!Returns, S!Idle
<1>6. ASSUME op = "revise"
      PROVE  Entered
  <2>1. PICK i \in DOMAIN arts : S!revise_read(p, i)
    BY <1>1, <1>6 DEF Enter
  <2>2. UNCHANGED <<task, arts>> /\ proc[p].pc = "idle"
    BY <2>1 DEF S!revise_read, S!rows
  <2>. QED  BY <1>4, <2>1, <2>2 DEF S!revise_read, S!Raises, S!Idle
<1>7. ASSUME op = "approve"
      PROVE  Entered
  BY <1>1, <1>4, <1>7 DEF Enter, S!approve_read, S!rows, S!Idle
<1>8. ASSUME op \in {"release", "retry", "cancel"}
      PROVE  Entered
  BY <1>1, <1>4, <1>8
     DEF Enter, S!release_status, S!retry_read, S!cancel_read, S!Begin, S!Returns, S!Raises, S!rows, S!Idle
<1>9. Entered
  BY <1>5, <1>6, <1>7, <1>8 DEF Method
<1>. QED  BY <1>2, <1>3, <1>9 DEF method, OthersStay, logVars

LEMMA MethodExitDoes ==
    ASSUME S!TypeOK, WrapType, NEW p \in Writer, method_exit(p)
    PROVE  /\ OthersStay(p) /\ UNCHANGED <<task, arts, logVars, checkpoints>> /\ call' = call
           /\ wrap[p].pc = "service" /\ wrap[p].op # "run" /\ proc'[p].pc = "idle"
           /\ \/ wrap'[p] = Idle
              \/ wrap'[p].pc = "trail" /\ wrap'[p].trail = <<Ev(wrap[p].op)>>
<1>1. wrap[p].op \in Method
  BY WrapFields DEF method_exit
<1>2. <<Ev(wrap[p].op)>> \in Seq(Event)
  <2>1. Ev(wrap[p].op) \in Event
    BY <1>1, Events DEF EventType
  <2>. QED  BY <2>1
<1>. DEFINE w == [Idle EXCEPT !.pc = "trail", !.trail = <<Ev(wrap[p].op)>>]
<1>3. Idle \in Wrap /\ w \in Wrap /\ w.pc = "trail" /\ w.trail = <<Ev(wrap[p].op)>>
  BY <1>2, WrapMakes DEF WrapPC, Idle
<1>4. Goto(p, Idle) \/ Goto(p, w)
  BY DEF method_exit
<1>. HIDE DEF w
<1>5. (wrap'[p] = Idle \/ wrap'[p] = w) /\ \A q \in Writer \ {p} : wrap'[q] = wrap[q]
  BY <1>3, <1>4, Goes
<1>. QED  BY <1>3, <1>5, DoneDoes DEF method_exit, OthersStay, logVars

\* The trail.
LEMMA TrailDoes ==
    ASSUME LogInv, WrapType, NEW p \in Writer, trail_append(p)
    PROVE  /\ OthersStay(p) /\ UNCHANGED <<taskVars, file, acked, checkpoints>> /\ proc' = proc
           /\ wrap[p].pc = "trail" /\ call[p].pc = "idle" /\ wrap[p].trail # <<>>
           /\ wrap'[p].pc = "trail" /\ wrap'[p].trail = Tail(wrap[p].trail)
           /\ call'[p].pc = "lock" /\ call'[p].event = Head(wrap[p].trail)
<1>1. call \in [Writer -> [pc : LogPC, event : Event \cup {None}, prev : Nat]]
  BY DEF LogInv, LogTypeOK
<1>2. Tail(wrap[p].trail) \in Seq(Event)
  BY WrapFields DEF trail_append
<1>. DEFINE w == [wrap[p] EXCEPT !.trail = Tail(wrap[p].trail)]
<1>3. Goto(p, w)
  BY DEF trail_append
<1>4. w \in Wrap /\ w.pc = wrap[p].pc /\ w.trail = Tail(wrap[p].trail)
  BY <1>2, WrapFields, WrapMakes DEF Wrap
<1>. HIDE DEF w
<1>5. wrap'[p] = w /\ \A q \in Writer \ {p} : wrap'[q] = wrap[q]
  BY <1>3, <1>4, Goes
<1>. QED  BY <1>1, <1>4, <1>5 DEF trail_append, append, taskVars, OthersStay

LEMMA TrailNextDoes ==
    ASSUME LogInv, WrapType, NEW p \in Writer, trail_next(p)
    PROVE  /\ OthersStay(p) /\ UNCHANGED <<taskVars, file, acked, checkpoints>> /\ proc' = proc
           /\ wrap[p].pc = "trail" /\ call[p].pc \in {"returned", "raised"} /\ call'[p].pc = "idle"
           /\ \/ wrap'[p] = Idle
              \/ wrap'[p] = wrap[p] /\ call[p].pc = "returned"
<1>1. call \in [Writer -> [pc : LogPC, event : Event \cup {None}, prev : Nat]]
  BY DEF LogInv, LogTypeOK
<1>2. call[p].pc \in {"returned", "raised"} /\ call'[p].pc = "idle"
      /\ \A q \in Writer \ {p} : call'[q] = call[q]
  BY <1>1 DEF trail_next, LogDone, Returned, LogIdle
<1>3. (wrap'[p] = Idle \/ (wrap' = wrap /\ call[p].pc # "raised")) /\ \A q \in Writer \ {p} : wrap'[q] = wrap[q]
  BY Goes, WrapMakes DEF trail_next, Exit
<1>. QED  BY <1>2, <1>3 DEF trail_next, taskVars, OthersStay

LEMMA CrashDoes ==
    ASSUME S!TypeOK, LogInv, WrapType, NEW p \in Writer, Crash(p)
    PROVE  /\ OthersStay(p) /\ UNCHANGED <<task, arts, file, acked, checkpoints>>
           /\ wrap'[p] = Idle /\ proc'[p].pc = "idle" /\ call'[p].pc = "idle"
<1>1. call \in [Writer -> [pc : LogPC, event : Event \cup {None}, prev : Nat]]
  BY DEF LogInv, LogTypeOK
<1>2. p \in S!Proc /\ proc \in [S!Proc -> S!Call] /\ S!Proc = Writer
  BY WriterIs DEF S!TypeOK, S!Proc
<1>3. wrap'[p] = Idle /\ \A q \in Writer \ {p} : wrap'[q] = wrap[q]
  BY DEF Crash, WrapType
<1>4. /\ proc'[p].pc = "idle" /\ UNCHANGED <<task, arts>>
      /\ \A q \in Writer \ {p} : proc'[q] = proc[q]
  BY <1>2 DEF Crash, S!Crash, S!rows, S!Idle, taskVars
<1>5. /\ call'[p].pc = "idle" /\ UNCHANGED <<file, acked>>
      /\ \A q \in Writer \ {p} : call'[q] = call[q]
  BY <1>1 DEF Crash, LogCrash, LogIdle, logVars
<1>. QED  BY <1>3, <1>4, <1>5 DEF Crash, OthersStay

----------------------------------------------------------------------------
(* Type correctness.                                                       *)

\* A process is in the service, in an append or between them, as its pc says.
Agrees(p) ==
    /\ proc[p].pc # "idle" => wrap[p].pc = "service"
    /\ call[p].pc # "idle" => wrap[p].pc \in {"started", "trail"}

TypeInv == S!TypeOK /\ LogInv /\ WrapType /\ \A p \in Writer : Agrees(p)

LEMMA IdlePc == Idle.pc = "idle" /\ Idle.trail = <<>>
  BY DEF Idle

LEMMA AgreesKept ==
    ASSUME TypeInv, [Next]_vars
    PROVE  \A p \in Writer : Agrees(p)'
<1>0. S!TypeOK /\ LogInv /\ WrapType /\ \A p \in Writer : Agrees(p)
  BY DEF TypeInv
<1>1. ASSUME NEW p \in Writer, OthersStay(p), Agrees(p)'
      PROVE  \A q \in Writer : Agrees(q)'
  BY <1>0, <1>1 DEF Agrees, OthersStay
<1>2. ASSUME NEW p \in Writer, run(p)
      PROVE  OthersStay(p) /\ Agrees(p)'
  BY <1>0, <1>2, RunDoes DEF Agrees
<1>3. ASSUME NEW p \in Writer, run_enter(p)
      PROVE  OthersStay(p) /\ Agrees(p)'
  BY <1>0, <1>3, EnterDoes, IdlePc DEF Agrees
<1>4. ASSUME NEW p \in Writer, run_exit(p)
      PROVE  OthersStay(p) /\ Agrees(p)'
  BY <1>0, <1>4, ExitDoes DEF Agrees
<1>5. ASSUME NEW p \in Writer, NEW n \in Steps, save(p, n)
      PROVE  OthersStay(p) /\ Agrees(p)'
  BY <1>0, <1>5, SaveDoes DEF Agrees
<1>6. ASSUME NEW p \in Writer, save_raise(p) \/ run_observe(p)
      PROVE  OthersStay(p) /\ Agrees(p)'
  BY <1>0, <1>6, RaiseDoes, ObserveDoes DEF Agrees
<1>7. ASSUME NEW p \in Writer, NEW op \in Method, method(p, op)
      PROVE  OthersStay(p) /\ Agrees(p)'
  BY <1>0, <1>7, MethodDoes DEF Agrees
<1>8. ASSUME NEW p \in Writer, method_exit(p)
      PROVE  OthersStay(p) /\ Agrees(p)'
  BY <1>0, <1>8, MethodExitDoes DEF Agrees
<1>9. ASSUME NEW p \in Writer, ServiceStep(p)
      PROVE  OthersStay(p) /\ Agrees(p)'
  BY <1>0, <1>9, ServiceDoes DEF Agrees
<1>10. ASSUME NEW p \in Writer, AppendStep(p)
       PROVE  OthersStay(p) /\ Agrees(p)'
  BY <1>0, <1>10, AppendDoes DEF Agrees, taskVars
<1>11. ASSUME NEW p \in Writer, trail_append(p)
       PROVE  OthersStay(p) /\ Agrees(p)'
  BY <1>0, <1>11, TrailDoes DEF Agrees
<1>12. ASSUME NEW p \in Writer, trail_next(p)
       PROVE  OthersStay(p) /\ Agrees(p)'
  BY <1>0, <1>12, TrailNextDoes DEF Agrees
<1>13. ASSUME NEW p \in Writer, Crash(p)
       PROVE  OthersStay(p) /\ Agrees(p)'
  BY <1>0, <1>13, CrashDoes DEF Agrees
<1>14. CASE UNCHANGED vars
  BY <1>0, <1>14 DEF vars, taskVars, logVars, Agrees
<1>. QED  BY <1>1, <1>2, <1>3, <1>4, <1>5, <1>6, <1>7, <1>8, <1>9, <1>10, <1>11, <1>12, <1>13,
             <1>14, WriterIs DEF Next

LEMMA TypeHolds == Spec => []TypeInv
<1>. DEFINE Agree == \A p \in Writer : Agrees(p)
<1>1. Init => Agree
  BY WriterIs DEF Init, S!Init, LogInit, S!Idle, LogIdle, Agrees, S!Proc
<1>2. S!TypeOK /\ LogInv /\ WrapType /\ Agree /\ [Next]_vars => Agree'
  BY AgreesKept DEF TypeInv
<1>3. TypeInv <=> S!TypeOK /\ LogInv /\ WrapType /\ Agree
  BY DEF TypeInv
<1>. HIDE DEF Agree
<1>. QED  BY <1>1, <1>2, <1>3, ServiceType, LogHolds, WrapTypeHolds, PTL DEF Spec

\* The type invariant of the wrapper and its parts: a process is in at most one of
\* the service and an append, where its wrapper says (durable_service.py).
THEOREM TypeCorrect == Spec => []TypeOK
<1>1. TypeInv => TypeOK
  BY DEF TypeInv, TypeOK, WrapType, LogInv, Agrees
<1>. QED  BY <1>1, TypeHolds, PTL

----------------------------------------------------------------------------
(* Checkpoints.                                                            *)

\* Artifacts stay what they are.
LEMMA KindsGrow ==
    ASSUME S!TypeOK, [Next]_vars
    PROVE  \A k : S!OfKind(k) \subseteq S!OfKind(k)'
<1>1. \A i \in DOMAIN arts : S!Stands(i)
  BY ServiceSteps, S!RowsStand, PartsAssume
<1>. QED  BY <1>1 DEF S!Stands, S!OfKind

LEMMA KindsSame ==
    ASSUME UNCHANGED arts
    PROVE  \A k : S!OfKind(k)' = S!OfKind(k)
BY DEF S!OfKind

\* What a run still has to save is sound.
Ready(p) ==
    wrap[p].pc = "checkpoint" =>
        \A n \in wrap[p].todo, m \in Steps : m <= n => wrap[p].latest[m] \in S!OfKind(Pipeline[m])

LEMMA ReadyKept ==
    ASSUME TypeInv, CheckInv, [Next]_vars
    PROVE  \A p \in Writer : Ready(p)'
<1>0. S!TypeOK /\ LogInv /\ WrapType /\ \A p \in Writer : Ready(p)
  BY DEF TypeInv, CheckInv, Ready
<1>. DEFINE Steady == \A k : S!OfKind(k) \subseteq S!OfKind(k)'
<1>1. Steady
  BY <1>0, KindsGrow
<1>2. ASSUME NEW p \in Writer, wrap'[p] = wrap[p]
      PROVE  Ready(p)'
  BY <1>0, <1>1, <1>2 DEF Ready
<1>. HIDE DEF Steady
<1>3. ASSUME NEW p \in Writer, OthersStay(p), Ready(p)'
      PROVE  \A q \in Writer : Ready(q)'
  BY <1>2, <1>3 DEF OthersStay
<1>4. ASSUME NEW p \in Writer, wrap'[p].pc # "checkpoint"
      PROVE  Ready(p)'
  BY <1>4 DEF Ready
<1>5. ASSUME NEW p \in Writer, run_exit(p)
      PROVE  OthersStay(p) /\ Ready(p)'
  <2>1. CASE wrap'[p].pc = "checkpoint"
    <3>1. /\ OthersStay(p) /\ UNCHANGED arts
          /\ wrap'[p].latest = Found /\ wrap'[p].todo = Reached
      BY <1>0, <1>5, <2>1, ExitDoes, IdlePc
    <3>2. \A n \in Reached, m \in Steps : m <= n => Found[m] \in S!OfKind(Pipeline[m])
      BY <1>0, FoundIs
    <3>3. \A k : S!OfKind(k)' = S!OfKind(k)
      BY <3>1, KindsSame
    <3>. QED  BY <3>1, <3>2, <3>3 DEF Ready
  <2>2. CASE wrap'[p].pc # "checkpoint"
    BY <1>0, <1>4, <1>5, <2>2, ExitDoes
  <2>. QED  BY <2>1, <2>2
<1>6. ASSUME NEW p \in Writer, NEW n \in Steps, save(p, n)
      PROVE  OthersStay(p) /\ Ready(p)'
  <2>1. /\ OthersStay(p) /\ wrap[p].pc = "checkpoint" /\ wrap'[p].latest = wrap[p].latest
        /\ wrap'[p].todo \subseteq wrap[p].todo
    BY <1>0, <1>6, SaveDoes
  <2>2. Steady
    BY <1>1
  <2>. QED  BY <1>0, <2>1, <2>2 DEF Ready, Steady
<1>7. ASSUME NEW p \in Writer,
             \/ run(p) \/ run_enter(p) \/ save_raise(p) \/ run_observe(p)
             \/ (\E op \in Method : method(p, op)) \/ method_exit(p) \/ trail_append(p)
             \/ trail_next(p) \/ Crash(p)
      PROVE  OthersStay(p) /\ Ready(p)'
  BY <1>0, <1>4, <1>7, IdlePc, RunDoes, EnterDoes, RaiseDoes, ObserveDoes, MethodDoes,
     MethodExitDoes, TrailDoes, TrailNextDoes, CrashDoes
<1>8. ASSUME NEW p \in Writer, ServiceStep(p) \/ AppendStep(p)
      PROVE  OthersStay(p) /\ Ready(p)'
  BY <1>0, <1>2, <1>8, ServiceDoes, AppendDoes
<1>9. CASE UNCHANGED vars
  BY <1>2, <1>9 DEF vars
<1>. QED  BY <1>3, <1>5, <1>6, <1>7, <1>8, <1>9, WriterIs DEF Next

LEMMA CheckKept == TypeInv /\ CheckInv /\ [Next]_vars => CheckInv'
<1>. SUFFICES ASSUME TypeInv, CheckInv, [Next]_vars
              PROVE  CheckInv'
  OBVIOUS
<1>0. S!TypeOK /\ LogInv /\ WrapType /\ CheckpointSound /\ \A p \in Writer : Ready(p)
  BY DEF TypeInv, CheckInv, Ready
<1>1. \A k : S!OfKind(k) \subseteq S!OfKind(k)'
  BY <1>0, KindsGrow
<1>2. ASSUME UNCHANGED checkpoints
      PROVE  CheckpointSound'
  BY <1>0, <1>1, <1>2 DEF CheckpointSound
<1>3. ASSUME NEW p \in Writer, NEW n \in Steps, save(p, n)
      PROVE  CheckpointSound'
  <2>1. /\ wrap[p].pc = "checkpoint" /\ n \in wrap[p].todo /\ n \in Nat
        /\ checkpoints' = [checkpoints EXCEPT ![n] =
                              [lineage |-> Lineage(wrap[p], n), output |-> wrap[p].latest[n]]]
    BY <1>0, <1>3, SaveDoes, StepsAre
  <2>2. \A m \in Steps : m <= n => wrap[p].latest[m] \in S!OfKind(Pipeline[m])'
    BY <1>0, <1>1, <2>1 DEF Ready
  <2>3. \A m \in Steps : Lineage(wrap[p], n)[m] = IF m < n THEN wrap[p].latest[m] ELSE 0
    BY DEF Lineage
  <2>. DEFINE c == [lineage |-> Lineage(wrap[p], n), output |-> wrap[p].latest[n]]
  <2>4. c.lineage = Lineage(wrap[p], n) /\ c.output = wrap[p].latest[n]
    OBVIOUS
  <2>5. /\ checkpoints'[n] = c /\ \A m \in Steps \ {n} : checkpoints'[m] = checkpoints[m]
    BY <1>0, <2>1 DEF WrapType
  <2>. HIDE DEF c
  <2>6. c.output \in S!OfKind(Pipeline[n])'
    BY <2>1, <2>2, <2>4
  <2>7. \A m \in Steps : IF m < n THEN c.lineage[m] \in S!OfKind(Pipeline[m])' ELSE c.lineage[m] = 0
    BY <2>1, <2>2, <2>3, <2>4, StepsAre
  <2>8. ASSUME NEW l \in Steps, l # n, checkpoints'[l] # None
        PROVE  /\ checkpoints'[l].output \in S!OfKind(Pipeline[l])'
               /\ \A m \in Steps : IF m < l THEN checkpoints'[l].lineage[m] \in S!OfKind(Pipeline[m])'
                                            ELSE checkpoints'[l].lineage[m] = 0
    BY <1>0, <1>1, <2>5, <2>8 DEF CheckpointSound
  <2>. QED  BY <2>5, <2>6, <2>7, <2>8 DEF CheckpointSound
<1>4. UNCHANGED checkpoints \/ \E p \in Writer, n \in Steps : save(p, n)
  BY WriterIs DEF Next, vars, run, run_enter, run_exit, save_raise, run_observe, method,
                method_exit, ServiceStep, AppendStep, trail_append, trail_next, Crash
<1>5. CheckpointSound'
  BY <1>2, <1>3, <1>4
<1>. QED  BY <1>5, ReadyKept DEF CheckInv, Ready

LEMMA CheckHolds == Spec => []CheckInv
<1>1. Init => CheckInv
  BY IdlePc DEF Init, CheckInv, CheckpointSound
<1>. QED  BY <1>1, CheckKept, TypeHolds, PTL DEF Spec

\* A checkpoint describes committed work: its output is an artifact of its step's kind and
\* its lineage has one of each earlier step's, whatever ran, was revised or retried and
\* whichever process died where (_checkpoint_artifacts, CheckpointStore.save).
THEOREM CheckpointsSound == Spec => []CheckpointSound
  BY CheckHolds, PTL DEF CheckInv

----------------------------------------------------------------------------
(* A run that came to its trail.                                           *)

\* Where a run is in the service, and what it has done when it leaves it.
Runs(p) ==
    wrap[p].pc = "service" /\ wrap[p].op = "run" =>
        proc[p].pc \in InRun /\ (proc[p].pc = "returned" => AllKinds)

Saves(p) ==
    wrap[p].pc = "checkpoint" =>
        AllKinds /\ Supported /\ \A n \in Steps : checkpoints[n] # None \/ n \in wrap[p].todo

\* A checkpoint that was saved stays, whatever replaces it.
LEMMA SavedStays ==
    ASSUME TypeInv, [Next]_vars
    PROVE  /\ \A n \in Steps : checkpoints[n] # None => checkpoints'[n] # None
           /\ \A p \in Writer, n \in Steps : save(p, n) => checkpoints'[n] # None
<1>0. WrapType
  BY DEF TypeInv
<1>1. ASSUME UNCHANGED checkpoints
      PROVE  \A n \in Steps : checkpoints[n] # None => checkpoints'[n] # None
  BY <1>1
<1>2. ASSUME NEW p \in Writer, NEW n \in Steps, save(p, n)
      PROVE  /\ checkpoints'[n] # None
             /\ \A m \in Steps : checkpoints[m] # None => checkpoints'[m] # None
  <2>. DEFINE c == [lineage |-> Lineage(wrap[p], n), output |-> wrap[p].latest[n]]
  <2>1. checkpoints' = [checkpoints EXCEPT ![n] = c]
    BY <1>0, <1>2, SaveDoes
  <2>2. c \in Checkpoint
    BY <1>0, WrapFields DEF Checkpoint, Outputs, Lineage
  <2>. HIDE DEF c
  <2>3. c # None
    BY <2>2, DurableAssumption
  <2>. QED  BY <1>0, <2>1, <2>3 DEF WrapType
<1>3. UNCHANGED checkpoints \/ \E p \in Writer, n \in Steps : save(p, n)
  BY WriterIs DEF Next, vars, run, run_enter, run_exit, save_raise, run_observe, method,
                method_exit, ServiceStep, AppendStep, trail_append, trail_next, Crash
<1>. QED  BY <1>1, <1>2, <1>3

LEMMA RunKept == TypeInv /\ RunInv /\ [Next]_vars => RunInv'
<1>. SUFFICES ASSUME TypeInv, RunInv, [Next]_vars
              PROVE  RunInv'
  OBVIOUS
<1>0. S!TypeOK /\ LogInv /\ WrapType /\ \A p \in Writer : Runs(p) /\ Saves(p)
  BY DEF TypeInv, RunInv, Runs, Saves
<1>1. AllKinds => AllKinds'
  BY <1>0, KindsGrow DEF AllKinds
<1>2. \A n \in Steps : checkpoints[n] # None => checkpoints'[n] # None
  BY SavedStays
<1>3. ASSUME NEW p \in Writer, wrap'[p] = wrap[p], proc'[p] = proc[p]
      PROVE  Runs(p)' /\ Saves(p)'
  BY <1>0, <1>1, <1>2, <1>3 DEF Runs, Saves, Supported
<1>4. ASSUME NEW p \in Writer, OthersStay(p), Runs(p)', Saves(p)'
      PROVE  \A q \in Writer : Runs(q)' /\ Saves(q)'
  BY <1>3, <1>4 DEF OthersStay
<1>5. ASSUME NEW p \in Writer, wrap'[p].pc \notin {"service", "checkpoint"}
      PROVE  Runs(p)' /\ Saves(p)'
  BY <1>5 DEF Runs, Saves
<1>6. ASSUME NEW p \in Writer, run_enter(p)
      PROVE  OthersStay(p) /\ Runs(p)' /\ Saves(p)'
  BY <1>0, <1>6, EnterDoes, IdlePc DEF Runs, Saves, InRun
<1>7. ASSUME NEW p \in Writer, run_exit(p)
      PROVE  OthersStay(p) /\ Runs(p)' /\ Saves(p)'
  <2>1. CASE wrap'[p].pc = "checkpoint"
    <3>1. /\ OthersStay(p) /\ wrap[p].pc = "service" /\ wrap[p].op = "run"
          /\ proc[p].pc = "returned" /\ Supported /\ wrap'[p].todo = Reached
      BY <1>0, <1>7, <2>1, ExitDoes, IdlePc
    <3>2. AllKinds
      BY <1>0, <3>1 DEF Runs
    <3>3. Steps \subseteq Reached
      BY <3>2 DEF Reached, AllKinds, Steps
    <3>. QED  BY <1>1, <2>1, <3>1, <3>2, <3>3 DEF Runs, Saves, Supported
  <2>2. CASE wrap'[p].pc # "checkpoint"
    BY <1>0, <1>5, <1>7, <2>2, ExitDoes, IdlePc
  <2>. QED  BY <2>1, <2>2
<1>8. ASSUME NEW p \in Writer, NEW n \in Steps, save(p, n)
      PROVE  OthersStay(p) /\ Runs(p)' /\ Saves(p)'
  <2>1. /\ OthersStay(p) /\ wrap[p].pc = "checkpoint" /\ wrap'[p].pc = "checkpoint"
        /\ wrap'[p].todo = wrap[p].todo \ {n} /\ checkpoints'[n] # None
    BY <1>0, <1>8, SaveDoes, SavedStays
  <2>. QED  BY <1>0, <1>1, <1>2, <2>1 DEF Runs, Saves, Supported
<1>9. ASSUME NEW p \in Writer, NEW op \in Method, method(p, op)
      PROVE  OthersStay(p) /\ Runs(p)' /\ Saves(p)'
  BY <1>0, <1>9, MethodDoes DEF Runs, Saves, Method
<1>10. ASSUME NEW p \in Writer, ServiceStep(p)
       PROVE  OthersStay(p) /\ Runs(p)' /\ Saves(p)'
  <2>1. /\ OthersStay(p) /\ wrap[p].pc = "service" /\ wrap' = wrap
        /\ \/ proc[p].pc \notin InRun
           \/ proc'[p].pc \in InRun /\ (proc'[p].pc = "returned" => AllKinds)
    BY <1>0, <1>10, ServiceDoes DEF InRun
  <2>. QED  BY <1>0, <1>1, <2>1 DEF Runs, Saves
<1>11. ASSUME NEW p \in Writer,
              \/ run(p) \/ save_raise(p) \/ run_observe(p) \/ method_exit(p) \/ trail_append(p)
              \/ trail_next(p) \/ Crash(p)
       PROVE  OthersStay(p) /\ Runs(p)' /\ Saves(p)'
  BY <1>0, <1>5, <1>11, IdlePc, RunDoes, RaiseDoes, ObserveDoes, MethodExitDoes, TrailDoes,
     TrailNextDoes, CrashDoes
<1>12. ASSUME NEW p \in Writer, AppendStep(p)
       PROVE  OthersStay(p) /\ Runs(p)' /\ Saves(p)'
  BY <1>0, <1>3, <1>12, AppendDoes DEF taskVars
<1>13. CASE UNCHANGED vars
  BY <1>3, <1>13 DEF vars, taskVars, RunInv, Runs, Saves
<1>14. \A p \in Writer : Runs(p)' /\ Saves(p)'
  BY <1>3, <1>4, <1>6, <1>7, <1>8, <1>9, <1>10, <1>11, <1>12, <1>13, WriterIs DEF Next, vars,
         taskVars
<1>. QED  BY <1>14 DEF RunInv, Runs, Saves

----------------------------------------------------------------------------
(* What the log says of completed runs.                                    *)

\* Completion is the last of a trail, and backed when it is recorded.
Ordered(p) ==
    /\ \A n \in DOMAIN wrap[p].trail : Completes(wrap[p].trail[n]) => n = Len(wrap[p].trail)
    /\ Under(p) /\ Completes(call[p].event) => wrap[p].trail = <<>>
    /\ Owes(p) /\ call[p].pc # "raised" => Backed(p)

CompletedAt(i) ==
    Completes(file[i].event) =>
        /\ \A n \in Steps : checkpoints[n] # None
        /\ \A k \in S!Required : \E j \in 1 .. i - 1 : Observes(file[j].event, k)

\* The log grows at its end, and only by a writer's record.
LEMMA FileGrows ==
    ASSUME TypeInv, [Next]_vars
    PROVE  \/ UNCHANGED file
           \/ \E p \in Writer, r \in Record :
                  /\ AppendStep(p) /\ call[p].pc = "write"
                  /\ file' = Append(file, r) /\ r.event = call[p].event
<1>1. LogInv
  BY DEF TypeInv
<1>2. ASSUME NEW p \in Writer, AppendStep(p)
      PROVE  \/ UNCHANGED file
             \/ \E r \in Record : /\ call[p].pc = "write"
                                    /\ file' = Append(file, r) /\ r.event = call[p].event
  BY <1>1, <1>2, AppendDoes
<1>3. UNCHANGED file \/ \E p \in Writer : AppendStep(p)
  BY WriterIs DEF Next, vars, logVars, run, run_enter, run_exit, save, save_raise, run_observe,
                method, method_exit, ServiceStep, trail_append, trail_next, Crash, append,
                LogCrash
<1>. QED  BY <1>2, <1>3

\* What is observed, recorded or saved stays so.
LEMMA BackingStays ==
    ASSUME TypeInv, [Next]_vars
    PROVE  /\ \A i \in DOMAIN file : i \in DOMAIN file' /\ file'[i] = file[i]
           /\ \A k, e : Observes(e, k) => e.type = "artifact.observed" /\ e.art \in S!OfKind(k)'
           /\ \A k : Recorded(k) => Recorded(k)'
           /\ \A n \in Steps : checkpoints[n] # None => checkpoints'[n] # None
<1>1. file \in Seq(Record) /\ S!TypeOK
  BY DEF TypeInv, LogInv, LogTypeOK
<1>2. \A i \in DOMAIN file : i \in DOMAIN file' /\ file'[i] = file[i]
  <2>1. CASE UNCHANGED file
    BY <2>1
  <2>2. ASSUME NEW r \in Record, file' = Append(file, r)
        PROVE  \A i \in DOMAIN file : i \in DOMAIN file' /\ file'[i] = file[i]
    BY <1>1, <2>2
  <2>. QED  BY <2>1, <2>2, FileGrows
<1>3. \A k, e : Observes(e, k) => e.type = "artifact.observed" /\ e.art \in S!OfKind(k)'
  BY <1>1, KindsGrow DEF Observes
<1>4. \A k : Recorded(k) => Recorded(k)'
  BY <1>2, <1>3 DEF Recorded, Observes
<1>. QED  BY <1>2, <1>3, <1>4, SavedStays

\* A process that owes nothing.
LEMMA NothingOwed ==
    ASSUME NEW p \in Writer, ~(Owes(p)')
    PROVE  Ordered(p)'
BY DEF Ordered, Owes

\* A process that keeps its trail, and its append as far as it matters.
LEMMA OwedKept ==
    ASSUME TypeInv, [Next]_vars, NEW p \in Writer, Ordered(p),
           wrap'[p].trail = wrap[p].trail,
           call[p].pc = "raised" => call'[p].pc = "raised",
           Under(p)' => Under(p) /\ call'[p].event = call[p].event,
           Under(p) => \/ Under(p)' /\ call'[p].event = call[p].event
                       \/ \A k : Observes(call[p].event, k) => Recorded(k)'
    PROVE  Ordered(p)'
<1>1. Owes(p)' => Owes(p)
  BY DEF Owes, Completes
<1>2. ASSUME Backed(p)
      PROVE  Backed(p)'
  <2>1. \A n \in Steps : checkpoints'[n] # None
    BY <1>2, BackingStays DEF Backed
  <2>2. ASSUME NEW k \in S!Required
        PROVE  \/ Recorded(k)'
               \/ (Under(p) /\ Observes(call[p].event, k))'
               \/ (\E n \in DOMAIN wrap[p].trail : Observes(wrap[p].trail[n], k))'
    <3>1. CASE Recorded(k)
      BY <3>1, BackingStays
    <3>2. CASE Under(p) /\ Observes(call[p].event, k)
      BY <3>2, BackingStays DEF Observes
    <3>3. ASSUME NEW n \in DOMAIN wrap[p].trail, Observes(wrap[p].trail[n], k)
          PROVE  n \in DOMAIN wrap'[p].trail /\ Observes(wrap[p].trail[n], k)'
      BY <3>3, BackingStays DEF Observes
    <3>. QED  BY <1>2, <3>1, <3>2, <3>3 DEF Backed
  <2>. QED  BY <2>1, <2>2 DEF Backed
<1>. QED  BY <1>1, <1>2 DEF Ordered, Completes

\* A process whose trail has no completion and that has none under way owes nothing.
LEMMA OwesNothing ==
    ASSUME NEW p \in Writer,
           wrap'[p].trail = <<>> \/ \E e : wrap'[p].trail = <<e>> /\ e.type # "task.execution_completed",
           \/ call'[p].pc \notin {"lock", "write"}
           \/ call'[p].event.type # "task.execution_completed"
    PROVE  Ordered(p)'
<1>1. \A n \in DOMAIN wrap'[p].trail : wrap'[p].trail[n].type # "task.execution_completed"
  OBVIOUS
<1>2. ~(Owes(p)')
  BY <1>1 DEF Owes, Under, Completes
<1>. QED  BY <1>2, NothingOwed

\* A finished run owes what it has.
LEMMA ObserveOwes ==
    ASSUME TypeInv, RunInv, NEW p \in Writer, run_observe(p)
    PROVE  Ordered(p)'
<1>1. S!TypeOK /\ WrapType /\ LogInv /\ Agrees(p)
  BY DEF TypeInv
<1>2. /\ UNCHANGED <<arts, checkpoints, call>> /\ wrap[p].pc = "checkpoint" /\ wrap[p].todo = {}
      /\ wrap'[p].trail = RunTrail
  BY <1>1, ObserveDoes DEF taskVars
<1>3. AllKinds /\ \A n \in Steps : checkpoints'[n] # None
  BY <1>2 DEF RunInv
<1>4. call'[p].pc = "idle"
  BY <1>1, <1>2 DEF Agrees
<1>. DEFINE t == RunTrail
<1>5. /\ Len(t) = Len(arts) + 1 /\ DOMAIN t = 1 .. Len(arts) + 1 /\ DOMAIN arts = 1 .. Len(arts)
      /\ \A i \in DOMAIN arts : t[i] = [type |-> "artifact.observed", art |-> i]
      /\ Len(arts) \in Nat
  BY <1>1, TrailIs DEF S!TypeOK
<1>. HIDE DEF t
<1>6. ASSUME NEW i \in DOMAIN arts
      PROVE  t[i].type = "artifact.observed" /\ t[i].art = i /\ i \in DOMAIN t
  <2>1. t[i] = [type |-> "artifact.observed", art |-> i]
    BY <1>5
  <2>2. i \in DOMAIN t
    BY <1>5
  <2>. QED  BY <2>1, <2>2
<1>7. ASSUME NEW n \in DOMAIN t, t[n].type = "task.execution_completed"
      PROVE  n = Len(t)
  <2>1. n \notin DOMAIN arts
    BY <1>6, <1>7
  <2>. QED  BY <1>5, <2>1
<1>8. ASSUME NEW k \in S!Required
      PROVE  (\E n \in DOMAIN wrap[p].trail : Observes(wrap[p].trail[n], k))'
  <2>1. PICK i \in DOMAIN arts : i \in S!OfKind(k)
    BY <1>3 DEF AllKinds, S!OfKind
  <2>2. i \in S!OfKind(k)'
    BY <1>2, <2>1, KindsSame
  <2>3. i \in DOMAIN t /\ t[i].type = "artifact.observed" /\ t[i].art = i
    BY <1>6
  <2>4. wrap'[p].trail = t
    BY <1>2 DEF t
  <2>. QED  BY <2>2, <2>3, <2>4 DEF Observes
<1>9. Backed(p)'
  BY <1>3, <1>8 DEF Backed
<1>10. wrap'[p].trail = t
  BY <1>2 DEF t
<1>. QED  BY <1>4, <1>7, <1>9, <1>10 DEF Ordered, Under, Completes

\* The head of a trail goes to the log.
LEMMA TrailOwes ==
    ASSUME TypeInv, NEW p \in Writer, Ordered(p), trail_append(p)
    PROVE  Ordered(p)'
<1>1. WrapType /\ LogInv
  BY DEF TypeInv
<1>2. /\ UNCHANGED <<arts, file, checkpoints>> /\ call[p].pc = "idle" /\ wrap[p].trail # <<>>
      /\ wrap'[p].trail = Tail(wrap[p].trail)
      /\ call'[p].pc = "lock" /\ call'[p].event = Head(wrap[p].trail)
  BY <1>1, TrailDoes DEF taskVars
<1>. DEFINE t == wrap[p].trail
<1>3. t \in Seq(Event) /\ t # <<>> /\ wrap'[p].trail = Tail(t) /\ call'[p].event = t[1]
  BY <1>1, <1>2, WrapFields
<1>. HIDE DEF t
<1>4. /\ Len(t) \in Nat /\ 1 \in DOMAIN t /\ DOMAIN t = 1 .. Len(t)
      /\ Len(Tail(t)) = Len(t) - 1 /\ DOMAIN Tail(t) = 1 .. Len(t) - 1
      /\ \A n \in DOMAIN Tail(t) : n + 1 \in DOMAIN t /\ Tail(t)[n] = t[n + 1]
  BY <1>3
<1>5. \A n \in DOMAIN t : Completes(t[n]) => n = Len(t)
  BY DEF Ordered, t
<1>6. \A n \in DOMAIN Tail(t) : Completes(Tail(t)[n]) => n = Len(Tail(t))
  BY <1>4, <1>5
<1>7. Completes(t[1]) => Tail(t) = <<>>
  BY <1>3, <1>4, <1>5
<1>8. ASSUME Owes(p)'
      PROVE  Backed(p)'
  <2>1. \E n \in DOMAIN t : Completes(t[n])
    BY <1>3, <1>4, <1>8 DEF Owes, Under, Completes
  <2>2. Backed(p)
    BY <1>2, <2>1 DEF Ordered, Owes, t
  <2>3. ASSUME NEW k \in S!Required
        PROVE  \/ Recorded(k)'
               \/ (Under(p) /\ Observes(call[p].event, k))'
               \/ (\E n \in DOMAIN wrap[p].trail : Observes(wrap[p].trail[n], k))'
    <3>1. \A e : Observes(e, k) => e.type = "artifact.observed" /\ e.art \in S!OfKind(k)'
      BY <1>2, KindsSame DEF Observes
    <3>2. CASE Recorded(k)
      BY <1>2, <3>1, <3>2 DEF Recorded, Observes
    <3>3. ASSUME NEW n \in DOMAIN t, Observes(t[n], k)
          PROVE  \/ (Under(p) /\ Observes(call[p].event, k))'
                 \/ (\E m \in DOMAIN wrap[p].trail : Observes(wrap[p].trail[m], k))'
      <4>1. CASE n = 1
        BY <1>2, <1>3, <3>1, <3>3, <4>1 DEF Under, Observes
      <4>2. CASE n # 1
        <5>1. n - 1 \in DOMAIN Tail(t) /\ Tail(t)[n - 1] = t[n]
          BY <1>4, <4>2
        <5>. QED  BY <1>3, <3>1, <3>3, <5>1 DEF Observes
      <4>. QED  BY <4>1, <4>2
    <3>4. ~Under(p)
      BY <1>2 DEF Under
    <3>. QED  BY <2>2, <3>2, <3>3, <3>4 DEF Backed, t
  <2>. QED  BY <1>2, <2>2, <2>3 DEF Backed
<1>. QED  BY <1>3, <1>6, <1>7, <1>8 DEF Ordered, Completes

\* An append takes its event to the file, or raises.
LEMMA AppendOwes ==
    ASSUME TypeInv, [Next]_vars, NEW p \in Writer, Ordered(p), AppendStep(p)
    PROVE  Ordered(p)'
<1>1. WrapType /\ LogInv
  BY DEF TypeInv
<1>2. wrap' = wrap
  BY DEF AppendStep
<1>3. CASE call'[p].pc = "raised"
  <2>1. (\A n \in DOMAIN wrap[p].trail : Completes(wrap[p].trail[n]) => n = Len(wrap[p].trail))'
    BY <1>2 DEF Ordered, Completes
  <2>. QED  BY <1>3, <2>1 DEF Ordered, Under
<1>4. CASE call[p].pc = "lock" /\ call'[p].pc = "write" /\ call'[p].event = call[p].event
  BY <1>2, <1>4, OwedKept DEF Under
<1>5. CASE call[p].pc = "sync" /\ call'[p].pc = "returned"
  BY <1>2, <1>5, OwedKept DEF Under
<1>6. ASSUME NEW r \in Record, call[p].pc = "write", call'[p].pc = "sync",
             file' = Append(file, r), r.event = call[p].event
      PROVE  Ordered(p)'
  <2>1. file \in Seq(Record)
    BY <1>1 DEF LogInv, LogTypeOK
  <2>2. Len(file) + 1 \in DOMAIN file' /\ file'[Len(file) + 1] = r
    BY <1>6, <2>1
  <2>3. \A k : Observes(call[p].event, k) => Recorded(k)'
    BY <1>6, <2>2, BackingStays DEF Recorded, Observes
  <2>. QED  BY <1>2, <1>6, <2>3, OwedKept DEF Under
<1>. QED  BY <1>1, <1>3, <1>4, <1>5, <1>6, AppendDoes

LEMMA OrderedKept ==
    ASSUME TypeInv, RunInv, \A p \in Writer : Ordered(p), [Next]_vars
    PROVE  \A p \in Writer : Ordered(p)'
<1>0. S!TypeOK /\ LogInv /\ WrapType /\ (\A p \in Writer : Agrees(p)) /\ \A p \in Writer : Ordered(p)
  BY DEF TypeInv
<1>1. ASSUME NEW p \in Writer, wrap'[p].trail = wrap[p].trail, call'[p] = call[p]
      PROVE  Ordered(p)'
  BY <1>0, <1>1, OwedKept DEF Under
<1>2. ASSUME NEW p \in Writer, OthersStay(p), Ordered(p)'
      PROVE  \A q \in Writer : Ordered(q)'
  BY <1>1, <1>2 DEF OthersStay
<1>3. ASSUME NEW p \in Writer, run(p)
      PROVE  OthersStay(p) /\ Ordered(p)'
  BY <1>0, <1>3, RunDoes, OwesNothing DEF Ev
<1>4. ASSUME NEW p \in Writer, run_enter(p)
      PROVE  OthersStay(p) /\ Ordered(p)'
  <2>1. /\ OthersStay(p) /\ call[p].pc \in {"returned", "raised"} /\ call'[p].pc = "idle"
        /\ wrap'[p] = Idle \/ (call[p].pc = "returned" /\ wrap'[p].trail = wrap[p].trail)
    BY <1>0, <1>4, EnterDoes
  <2>2. CASE wrap'[p] = Idle
    BY <2>1, <2>2, IdlePc, OwesNothing
  <2>3. CASE call[p].pc = "returned" /\ wrap'[p].trail = wrap[p].trail
    BY <1>0, <2>1, <2>3, OwedKept DEF Under
  <2>. QED  BY <2>1, <2>2, <2>3
<1>5. ASSUME NEW p \in Writer, wrap[p].pc \in {"service", "checkpoint", "idle"}, wrap'[p].trail = <<>>, call' = call
      PROVE  Ordered(p)'
  BY <1>0, <1>5, OwesNothing DEF Agrees
<1>6. ASSUME NEW p \in Writer, run_exit(p)
      PROVE  OthersStay(p) /\ Ordered(p)'
  <2>1. CASE wrap'[p].trail = <<Ev("task.failed")>>
    BY <1>0, <1>6, <2>1, ExitDoes, OwesNothing DEF Ev, Agrees
  <2>2. CASE wrap'[p].trail = <<>>
    BY <1>0, <1>5, <1>6, <2>2, ExitDoes
  <2>. QED  BY <1>0, <1>6, <2>1, <2>2, ExitDoes, IdlePc
<1>7. ASSUME NEW p \in Writer, NEW n \in Steps, save(p, n)
      PROVE  OthersStay(p) /\ Ordered(p)'
  BY <1>0, <1>1, <1>7, SaveDoes
<1>8. ASSUME NEW p \in Writer, save_raise(p)
      PROVE  OthersStay(p) /\ Ordered(p)'
  BY <1>0, <1>5, <1>8, RaiseDoes, IdlePc
<1>9. ASSUME NEW p \in Writer, run_observe(p)
      PROVE  OthersStay(p) /\ Ordered(p)'
  BY <1>0, <1>9, ObserveDoes, ObserveOwes
<1>10. ASSUME NEW p \in Writer, NEW op \in Method, method(p, op)
       PROVE  OthersStay(p) /\ Ordered(p)'
  BY <1>0, <1>5, <1>10, MethodDoes
<1>11. ASSUME NEW p \in Writer, method_exit(p)
       PROVE  OthersStay(p) /\ Ordered(p)'
  <2>1. wrap[p].op \in Method
    BY <1>0, <1>11, WrapFields DEF method_exit
  <2>2. CASE wrap'[p].trail = <<Ev(wrap[p].op)>>
    BY <1>0, <1>11, <2>1, <2>2, MethodExitDoes, OwesNothing DEF Ev, Agrees, Method
  <2>3. CASE wrap'[p] = Idle
    BY <1>0, <1>5, <1>11, <2>3, MethodExitDoes, IdlePc
  <2>. QED  BY <1>0, <1>11, <2>2, <2>3, MethodExitDoes
<1>12. ASSUME NEW p \in Writer, ServiceStep(p)
       PROVE  OthersStay(p) /\ Ordered(p)'
  BY <1>0, <1>1, <1>12, ServiceDoes
<1>13. ASSUME NEW p \in Writer, AppendStep(p)
       PROVE  OthersStay(p) /\ Ordered(p)'
  BY <1>0, <1>13, AppendDoes, AppendOwes
<1>14. ASSUME NEW p \in Writer, trail_append(p)
       PROVE  OthersStay(p) /\ Ordered(p)'
  BY <1>0, <1>14, TrailDoes, TrailOwes
<1>15. ASSUME NEW p \in Writer, trail_next(p)
       PROVE  OthersStay(p) /\ Ordered(p)'
  <2>1. /\ OthersStay(p) /\ call'[p].pc = "idle"
        /\ wrap'[p] = Idle \/ (call[p].pc = "returned" /\ wrap'[p] = wrap[p])
    BY <1>0, <1>15, TrailNextDoes
  <2>2. CASE wrap'[p] = Idle
    BY <2>1, <2>2, IdlePc, OwesNothing
  <2>3. CASE call[p].pc = "returned" /\ wrap'[p] = wrap[p]
    BY <1>0, <2>1, <2>3, OwedKept DEF Under
  <2>. QED  BY <2>1, <2>2, <2>3
<1>16. ASSUME NEW p \in Writer, Crash(p)
       PROVE  OthersStay(p) /\ Ordered(p)'
  BY <1>0, <1>16, CrashDoes, IdlePc, OwesNothing
<1>17. CASE UNCHANGED vars
  BY <1>1, <1>17 DEF vars, logVars
<1>. QED  BY <1>2, <1>3, <1>4, <1>6, <1>7, <1>8, <1>9, <1>10, <1>11, <1>12, <1>13, <1>14, <1>15,
             <1>16, <1>17, WriterIs DEF Next

LEMMA CompletedKept ==
    ASSUME TypeInv, \A p \in Writer : Ordered(p), \A i \in DOMAIN file : CompletedAt(i), [Next]_vars
    PROVE  \A i \in DOMAIN file' : CompletedAt(i)'
<1>0. file \in Seq(Record)
  BY DEF TypeInv, LogInv, LogTypeOK
<1>1. ASSUME NEW i \in DOMAIN file
      PROVE  CompletedAt(i)'
  <2>1. file'[i] = file[i] /\ i \in 1 .. Len(file) /\ DOMAIN file = 1 .. Len(file)
    BY <1>0, BackingStays
  <2>2. SUFFICES ASSUME Completes(file[i].event)
                 PROVE  /\ \A n \in Steps : checkpoints'[n] # None
                        /\ \A k \in S!Required :
                               \E j \in 1 .. i - 1 : Observes(file[j].event, k)'
    BY <2>1 DEF CompletedAt, Completes
  <2>3. ASSUME NEW j \in 1 .. i - 1
        PROVE  file'[j] = file[j]
    <3>1. j \in DOMAIN file
      BY <1>0, <2>1
    <3>. QED  BY <3>1, BackingStays
  <2>4. ASSUME NEW k \in S!Required
        PROVE  \E j \in 1 .. i - 1 : Observes(file[j].event, k)'
    <3>1. PICK j \in 1 .. i - 1 : Observes(file[j].event, k)
      BY <2>2 DEF CompletedAt
    <3>. QED  BY <2>3, <3>1, BackingStays DEF Observes
  <2>5. \A n \in Steps : checkpoints'[n] # None
    BY <2>2, BackingStays DEF CompletedAt
  <2>. QED  BY <2>4, <2>5
<1>2. ASSUME NEW p \in Writer, NEW r \in Record, call[p].pc = "write", file' = Append(file, r),
             r.event = call[p].event, NEW i \in DOMAIN file' \ DOMAIN file
      PROVE  CompletedAt(i)'
  <2>1. i = Len(file) + 1 /\ file'[i] = r /\ DOMAIN file = 1 .. i - 1
    BY <1>0, <1>2
  <2>2. SUFFICES ASSUME Completes(call[p].event)
                 PROVE  /\ \A n \in Steps : checkpoints'[n] # None
                        /\ \A k \in S!Required :
                               \E j \in 1 .. i - 1 : Observes(file[j].event, k)'
    BY <1>2, <2>1 DEF CompletedAt, Completes
  <2>3. wrap[p].trail = <<>> /\ Backed(p)
    BY <1>2, <2>2 DEF Ordered, Owes, Under
  <2>4. ASSUME NEW k \in S!Required
        PROVE  \E j \in 1 .. i - 1 : Observes(file[j].event, k)'
    <3>1. ~Observes(call[p].event, k)
      BY <2>2 DEF Completes, Observes
    <3>2. Recorded(k)
      BY <2>3, <3>1 DEF Backed
    <3>3. PICK j \in DOMAIN file : Observes(file[j].event, k)
      BY <3>2 DEF Recorded
    <3>. QED  BY <2>1, <3>3, BackingStays DEF Observes
  <2>. QED  BY <2>3, <2>4, BackingStays DEF Backed
<1>. QED  BY <1>1, <1>2, FileGrows

LEMMA BackedKept == TypeInv /\ RunInv /\ BackedInv /\ [Next]_vars => BackedInv'
<1>. SUFFICES ASSUME TypeInv, RunInv, BackedInv, [Next]_vars
              PROVE  BackedInv'
  OBVIOUS
<1>1. (\A p \in Writer : Ordered(p)) /\ \A i \in DOMAIN file : CompletedAt(i)
  BY DEF BackedInv, Ordered, CompletedAt
<1>2. \A p \in Writer : Ordered(p)'
  BY <1>1, OrderedKept
<1>3. \A i \in DOMAIN file' : CompletedAt(i)'
  BY <1>1, CompletedKept
<1>. QED  BY <1>2, <1>3 DEF BackedInv, Ordered, CompletedAt

LEMMA RunHolds == Spec => []RunInv
<1>1. Init => RunInv
  BY IdlePc DEF Init, RunInv
<1>. QED  BY <1>1, RunKept, TypeHolds, PTL DEF Spec

LEMMA BackedHolds == Spec => []BackedInv
<1>1. Init => BackedInv
  BY IdlePc DEF Init, LogInit, BackedInv, Owes, Under, LogIdle
<1>. QED  BY <1>1, BackedKept, TypeHolds, RunHolds, PTL DEF Spec

\* A completed run is recorded last: its artifacts and its checkpoints are there before
\* it, whichever process died, raised or overlapped where (durable_service.py, run).
THEOREM CompletedBacked == Spec => []CompletedIsBacked
<1>1. BackedInv => CompletedIsBacked
  BY DEF BackedInv, CompletedIsBacked, Completes, Observes, S!OfKind
<1>. QED  BY <1>1, BackedHolds, PTL

----------------------------------------------------------------------------
(* What the log says of executions.                                        *)

Countable ==
    /\ IsFiniteSet(Entitled) /\ Cardinality(Entitled) \in Nat
    /\ IsFiniteSet(Starts) /\ Cardinality(Starts) \in Nat
    /\ task.attempt \in Nat /\ \A p \in Writer : proc[p].snap.attempt \in Nat
    /\ Starts \subseteq acked /\ acked \subseteq DOMAIN file
    /\ DOMAIN file = 1 .. Len(file) /\ Len(file) \in Nat

LEMMA Counts == TypeInv => Countable
<1>. SUFFICES ASSUME TypeInv
              PROVE  Countable
  OBVIOUS
<1>1. /\ acked \subseteq 1 .. Len(file) /\ file \in Seq(Record)
      /\ task \in S!TaskRow /\ proc \in [Writer -> S!Call]
  BY WriterIs DEF TypeInv, LogInv, LogTypeOK, S!TypeOK, S!Proc
<1>2. Len(file) \in Nat /\ DOMAIN file = 1 .. Len(file)
  BY <1>1
<1>3. IsFiniteSet(Entitled) /\ Cardinality(Entitled) \in Nat
  <2>1. IsFiniteSet(Writer) /\ Entitled \subseteq Writer
    BY DurableAssumption DEF Entitled
  <2>. QED  BY <2>1, FS_Subset, FS_CardinalityType
<1>4. IsFiniteSet(Starts) /\ Cardinality(Starts) \in Nat
  <2>1. Starts \subseteq 1 .. Len(file)
    BY <1>1 DEF Starts
  <2>2. IsFiniteSet(1 .. Len(file))
    BY <1>2, FS_Interval
  <2>. QED  BY <2>1, <2>2, FS_Subset, FS_CardinalityType
<1>. QED  BY <1>1, <1>2, <1>3, <1>4 DEF S!TaskRow, S!Call, Starts, Countable

LEMMA CountsNext == TypeInv' => Countable'
  BY Counts, PTL

\* An acknowledged start stays one.
LEMMA StartsStay ==
    ASSUME TypeInv, TypeInv', [Next]_vars
    PROVE  acked \subseteq acked' /\ Starts \subseteq Starts' /\ Cardinality(Starts) <= Cardinality(Starts')
<1>1. LogInv
  BY DEF TypeInv
<1>2. ASSUME NEW p \in Writer, AppendStep(p)
      PROVE  acked \subseteq acked'
  BY <1>1, <1>2, AppendDoes
<1>3. UNCHANGED acked \/ \E p \in Writer : AppendStep(p)
  BY WriterIs DEF Next, vars, logVars, run, run_enter, run_exit, save, save_raise, run_observe,
                method, method_exit, ServiceStep, trail_append, trail_next, Crash, append,
                LogCrash
<1>4. acked \subseteq acked'
  BY <1>2, <1>3
<1>5. \A i \in acked : file'[i] = file[i]
  BY Counts, BackingStays DEF Countable
<1>6. Starts \subseteq Starts'
  BY <1>4, <1>5 DEF Starts
<1>7. IsFiniteSet(Starts')
  BY CountsNext DEF Countable
<1>. QED  BY <1>4, <1>6, <1>7, FS_Subset

\* Only the process that moves may become entitled, or stop being so.
LEMMA EntitledMoves ==
    ASSUME TypeInv, NEW p \in Writer, OthersStay(p)
    PROVE  /\ (p \in Entitled' <=> p \in Entitled) => Entitled' = Entitled
           /\ p \in Entitled /\ p \notin Entitled' =>
                  Cardinality(Entitled') = Cardinality(Entitled) - 1
           /\ p \notin Entitled /\ p \in Entitled' =>
                  Cardinality(Entitled') = Cardinality(Entitled) + 1
<1>1. \A q \in Writer \ {p} : q \in Entitled' <=> q \in Entitled
  BY DEF OthersStay, Entitled
<1>2. Entitled \subseteq Writer /\ Entitled' \subseteq Writer
  BY DEF Entitled
<1>3. IsFiniteSet(Entitled)
  BY Counts DEF Countable
<1>4. ASSUME p \in Entitled, p \notin Entitled'
      PROVE  Cardinality(Entitled') = Cardinality(Entitled) - 1
  <2>1. Entitled' = Entitled \ {p}
    BY <1>1, <1>2, <1>4
  <2>. QED  BY <1>3, <1>4, <2>1, FS_RemoveElement
<1>5. ASSUME p \notin Entitled, p \in Entitled'
      PROVE  Cardinality(Entitled') = Cardinality(Entitled) + 1
  <2>1. Entitled' = Entitled \cup {p}
    BY <1>1, <1>2, <1>5
  <2>. QED  BY <1>3, <1>5, <2>1, FS_AddElement
<1>. QED  BY <1>1, <1>2, <1>4, <1>5

\* No execution is ahead of its record.
Covered ==
    /\ task.attempt + Cardinality(Entitled) <= Cardinality(Starts)
    /\ \A p \in Writer : proc[p].pc = "run_start" =>
           proc[p].snap.attempt + Cardinality(Entitled) <= Cardinality(Starts)

\* Where a process is in recording the start of a run.
Recording(p) ==
    /\ wrap[p].pc = "started" => call[p].pc # "idle"
    /\ wrap[p].pc = "started" /\ Under(p) => call[p].event.type = "task.started"
    /\ call[p].pc = "sync" =>
           /\ Len(file) \notin acked
           /\ wrap[p].pc = "started" => file[Len(file)].event.type = "task.started"

\* Nobody becomes entitled, and no attempt is counted.
LEMMA CoveredKept ==
    ASSUME TypeInv, TypeInv', Covered, [Next]_vars, NEW p \in Writer, OthersStay(p),
           p \in Entitled' => p \in Entitled,
           task'.attempt \in {task.attempt, 0},
           proc'[p].pc = "run_start" =>
               \/ proc'[p] = proc[p]
               \/ proc'[p].snap.attempt = task.attempt
    PROVE  Covered'
<1>. DEFINE e == Cardinality(Entitled)
            s == Cardinality(Starts)
            f == Cardinality(Entitled')
            t == Cardinality(Starts')
<1>1. e \in Nat /\ s \in Nat /\ f \in Nat /\ t \in Nat /\ task.attempt \in Nat /\ s <= t
  BY Counts, CountsNext, StartsStay DEF Countable
<1>2. f <= e
  <2>1. f = e \/ f = e - 1
    BY EntitledMoves
  <2>. QED  BY <1>1, <2>1
<1>3. task.attempt + e <= s
  BY DEF Covered
<1>4. ASSUME NEW q \in Writer, proc'[q].pc = "run_start"
      PROVE  proc'[q].snap.attempt \in Nat /\ proc'[q].snap.attempt + e <= s
  <2>1. proc'[q].snap.attempt \in Nat
    BY CountsNext DEF Countable
  <2>2. CASE proc'[q] = proc[q]
    BY <1>4, <2>1, <2>2 DEF Covered
  <2>3. CASE proc'[q].snap.attempt = task.attempt
    BY <1>3, <2>1, <2>3
  <2>. QED  BY <1>4, <2>2, <2>3 DEF OthersStay
<1>. HIDE DEF e, s, f, t
<1>5. task'.attempt + f <= t
  BY <1>1, <1>2, <1>3
<1>6. ASSUME NEW q \in Writer, proc'[q].pc = "run_start"
      PROVE  proc'[q].snap.attempt + f <= t
  BY <1>1, <1>2, <1>4, <1>6
<1>. QED  BY <1>5, <1>6 DEF Covered, f, t

\* run takes its attempt number from the row it read, and gives up its entitlement.
LEMMA StartCovered ==
    ASSUME TypeInv, TypeInv', Covered, [Next]_vars, NEW p \in Writer, OthersStay(p),
           p \in Entitled, p \notin Entitled',
           proc[p].pc = "run_start", proc'[p].pc # "run_start",
           task'.attempt = proc[p].snap.attempt + 1
    PROVE  Covered'
<1>. DEFINE e == Cardinality(Entitled)
            s == Cardinality(Starts)
            f == Cardinality(Entitled')
            t == Cardinality(Starts')
<1>1. e \in Nat /\ s \in Nat /\ f \in Nat /\ t \in Nat /\ s <= t
  BY Counts, CountsNext, StartsStay DEF Countable
<1>2. f = e - 1
  BY EntitledMoves
<1>3. \A q \in Writer : proc[q].snap.attempt \in Nat
  BY Counts DEF Countable
<1>4. \A q \in Writer : proc[q].pc = "run_start" => proc[q].snap.attempt + e <= s
  BY DEF Covered
<1>5. \A q \in Writer : proc'[q].pc = "run_start" => proc[q].pc = "run_start" /\ proc'[q] = proc[q]
  BY DEF OthersStay
<1>. HIDE DEF e, s, f, t
<1>6. task'.attempt + f <= t
  BY <1>1, <1>2, <1>3, <1>4
<1>7. ASSUME NEW q \in Writer, proc'[q].pc = "run_start"
      PROVE  proc'[q].snap.attempt + f <= t
  BY <1>1, <1>2, <1>3, <1>4, <1>5, <1>7
<1>. QED  BY <1>6, <1>7 DEF Covered, f, t

\* The record of a start is on the disk.
LEMMA FsyncCovered ==
    ASSUME TypeInv, TypeInv', Covered, [Next]_vars, NEW p \in Writer, OthersStay(p), Recording(p),
           call[p].pc = "sync", wrap[p].pc = "started",
           acked' = acked \cup {Len(file)}, UNCHANGED <<wrap, proc, task, file>>
    PROVE  Covered'
<1>. DEFINE e == Cardinality(Entitled)
            s == Cardinality(Starts)
            f == Cardinality(Entitled')
            t == Cardinality(Starts')
<1>1. /\ e \in Nat /\ s \in Nat /\ f \in Nat /\ t \in Nat
      /\ task.attempt \in Nat /\ \A q \in Writer : proc[q].snap.attempt \in Nat
  BY Counts, CountsNext DEF Countable
<1>2. f <= e + 1
  <2>1. f \in {e, e - 1, e + 1}
    BY EntitledMoves
  <2>. QED  BY <1>1, <2>1
<1>3. t = s + 1
  <2>1. Len(file) \notin acked /\ file[Len(file)].event.type = "task.started"
    BY DEF Recording
  <2>2. Starts' = Starts \cup {Len(file)} /\ Len(file) \notin Starts
    BY <2>1 DEF Starts
  <2>3. IsFiniteSet(Starts)
    BY Counts DEF Countable
  <2>. QED  BY <2>2, <2>3, FS_AddElement
<1>4. /\ task.attempt + e <= s
      /\ \A q \in Writer : proc[q].pc = "run_start" => proc[q].snap.attempt + e <= s
  BY DEF Covered
<1>. HIDE DEF e, s, f, t
<1>5. task.attempt + f <= t
  BY <1>1, <1>2, <1>3, <1>4
<1>6. ASSUME NEW q \in Writer, proc[q].pc = "run_start"
      PROVE  proc[q].snap.attempt + f <= t
  BY <1>1, <1>2, <1>3, <1>4, <1>6
<1>. QED  BY <1>5, <1>6 DEF Covered, f, t

LEMMA CoverKept ==
    ASSUME TypeInv, TypeInv', Covered, \A p \in Writer : Recording(p), [Next]_vars
    PROVE  Covered'
<1>0. S!TypeOK /\ LogInv /\ WrapType /\ (\A p \in Writer : Agrees(p)) /\ \A p \in Writer : Recording(p)
  BY DEF TypeInv
<1>1. ASSUME NEW p \in Writer, run(p)
      PROVE  Covered'
  <2>1. /\ OthersStay(p) /\ UNCHANGED <<task, proc>> /\ wrap'[p].pc = "started" /\ call'[p].pc = "lock"
    BY <1>0, <1>1, RunDoes DEF taskVars
  <2>2. p \in Entitled' => p \in Entitled
    BY <2>1 DEF Entitled
  <2>. QED  BY <2>1, <2>2, CoveredKept
<1>2. ASSUME NEW p \in Writer, run_enter(p)
      PROVE  Covered'
  <2>1. /\ OthersStay(p) /\ task' = task /\ wrap[p].pc = "started" /\ call'[p].pc = "idle"
        /\ \/ proc' = proc
           \/ /\ call[p].pc = "returned"
              /\ proc'[p].pc = "run_start" => proc'[p].snap = task
    BY <1>0, <1>2, EnterDoes
  <2>2. p \in Entitled' => p \in Entitled
    BY <2>1 DEF Entitled
  <2>. QED  BY <2>1, <2>2, CoveredKept
<1>3. ASSUME NEW p \in Writer, OthersStay(p), task' = task,
             wrap'[p].pc # "started", proc'[p].pc # "run_start"
      PROVE  Covered'
  <2>1. p \in Entitled' => p \in Entitled
    BY <1>3 DEF Entitled
  <2>. QED  BY <1>3, <2>1, CoveredKept
<1>4. ASSUME NEW p \in Writer, OthersStay(p), task' = task,
             wrap[p].pc = wrap'[p].pc \/ wrap'[p].pc # "started", proc' = proc,
             call'[p].pc = "returned" => call[p].pc = "returned"
      PROVE  Covered'
  <2>1. p \in Entitled' => p \in Entitled
    BY <1>4 DEF Entitled
  <2>. QED  BY <1>4, <2>1, CoveredKept
<1>5. ASSUME NEW p \in Writer, run_exit(p) \/ method_exit(p) \/ Crash(p)
      PROVE  Covered'
  <2>1. OthersStay(p) /\ task' = task /\ wrap'[p].pc # "started" /\ proc'[p].pc = "idle"
    BY <1>0, <1>5, ExitDoes, MethodExitDoes, CrashDoes, IdlePc
  <2>. QED  BY <1>3, <2>1
<1>6. ASSUME NEW p \in Writer,
             \/ (\E n \in Steps : save(p, n)) \/ save_raise(p) \/ run_observe(p)
             \/ trail_append(p) \/ trail_next(p)
      PROVE  Covered'
  <2>1. /\ OthersStay(p) /\ task' = task /\ proc' = proc /\ wrap'[p].pc # "started"
        /\ call'[p].pc = "returned" => call[p].pc = "returned"
    BY <1>0, <1>6, SaveDoes, RaiseDoes, ObserveDoes, TrailDoes, TrailNextDoes, IdlePc DEF
           taskVars, logVars
  <2>. QED  BY <1>4, <2>1
<1>7. ASSUME NEW p \in Writer, NEW op \in Method, method(p, op)
      PROVE  Covered'
  <2>1. /\ OthersStay(p) /\ wrap'[p].pc = "service" /\ proc'[p].pc # "run_start"
        /\ task'.attempt \in {task.attempt, 0}
    BY <1>0, <1>7, MethodDoes
  <2>2. p \notin Entitled'
    BY <2>1 DEF Entitled
  <2>. QED  BY <2>1, <2>2, CoveredKept
<1>8. ASSUME NEW p \in Writer, ServiceStep(p)
      PROVE  Covered'
  <2>1. OthersStay(p) /\ wrap[p].pc = "service" /\ wrap' = wrap
    BY <1>0, <1>8, ServiceDoes
  <2>2. CASE /\ proc[p].pc = "run_start" /\ proc'[p].pc = "run_scan"
             /\ task'.attempt = proc[p].snap.attempt + 1
    <3>1. p \in Entitled /\ p \notin Entitled'
      BY <2>1, <2>2 DEF Entitled
    <3>. QED  BY <2>1, <2>2, <3>1, StartCovered
  <2>3. CASE proc'[p].pc # "run_start" /\ task'.attempt = task.attempt
    <3>1. p \notin Entitled'
      BY <2>1, <2>3 DEF Entitled
    <3>. QED  BY <2>1, <2>3, <3>1, CoveredKept
  <2>. QED  BY <1>0, <1>8, <2>2, <2>3, ServiceDoes
<1>9. ASSUME NEW p \in Writer, AppendStep(p)
      PROVE  Covered'
  <2>1. OthersStay(p) /\ wrap' = wrap /\ task' = task /\ proc' = proc
    BY <1>0, <1>9, AppendDoes DEF taskVars
  <2>2. CASE call'[p].pc # "returned"
    BY <1>4, <2>1, <2>2
  <2>3. CASE call'[p].pc = "returned"
    <3>1. call[p].pc = "sync" /\ acked' = acked \cup {Len(file)} /\ UNCHANGED file
      BY <1>0, <1>9, <2>3, AppendDoes
    <3>2. CASE wrap[p].pc = "started"
      BY <1>0, <2>1, <3>1, <3>2, FsyncCovered
    <3>3. CASE wrap[p].pc # "started"
      <4>1. p \in Entitled' => p \in Entitled
        BY <2>1, <3>3 DEF Entitled
      <4>. QED  BY <2>1, <4>1, CoveredKept
    <3>. QED  BY <3>2, <3>3
  <2>. QED  BY <2>2, <2>3
<1>10. CASE UNCHANGED vars
  BY <1>10 DEF vars, taskVars, logVars, Covered, Entitled, Starts
<1>. QED  BY <1>1, <1>2, <1>5, <1>6, <1>7, <1>8, <1>9, <1>10, WriterIs DEF Next

LEMMA RecordingKept ==
    ASSUME TypeInv, \A p \in Writer : Recording(p), [Next]_vars
    PROVE  \A p \in Writer : Recording(p)'
<1>0. S!TypeOK /\ LogInv /\ WrapType /\ (\A p \in Writer : Agrees(p)) /\ \A p \in Writer : Recording(p)
  BY DEF TypeInv
<1>1. \A p \in Writer : call[p].pc \in {"write", "sync"} => lock = p
  BY <1>0 DEF LogInv, LogTypeOK
<1>2. \/ UNCHANGED <<file, acked>>
      \/ \E p \in Writer : AppendStep(p) /\ call[p].pc \in {"write", "sync"} /\ call'[p] # call[p]
  <2>1. ASSUME NEW p \in Writer, AppendStep(p)
        PROVE  \/ UNCHANGED <<file, acked>>
               \/ call[p].pc \in {"write", "sync"} /\ call'[p] # call[p]
    BY <1>0, <2>1, AppendDoes
  <2>2. UNCHANGED <<file, acked>> \/ \E p \in Writer : AppendStep(p)
    BY WriterIs DEF Next, vars, logVars, run, run_enter, run_exit, save, save_raise, run_observe,
                  method, method_exit, ServiceStep, trail_append, trail_next, Crash, append,
                  LogCrash
  <2>. QED  BY <2>1, <2>2
<1>3. ASSUME NEW p \in Writer, call'[p] = call[p],
             wrap'[p].pc = wrap[p].pc \/ wrap'[p].pc # "started"
      PROVE  Recording(p)'
  <2>1. CASE call[p].pc = "sync"
    <3>1. UNCHANGED <<file, acked>>
      BY <1>1, <1>2, <1>3, <2>1
    <3>. QED  BY <1>0, <1>3, <2>1, <3>1 DEF Recording, Under
  <2>2. CASE call[p].pc # "sync"
    BY <1>0, <1>3, <2>2 DEF Recording, Under
  <2>. QED  BY <2>1, <2>2
<1>4. ASSUME NEW p \in Writer, OthersStay(p), Recording(p)'
      PROVE  \A q \in Writer : Recording(q)'
  BY <1>3, <1>4 DEF OthersStay
<1>5. ASSUME NEW p \in Writer, run(p)
      PROVE  OthersStay(p) /\ Recording(p)'
  BY <1>0, <1>5, RunDoes DEF Recording, Ev
<1>6. ASSUME NEW p \in Writer, wrap'[p].pc # "started", call'[p].pc # "sync"
      PROVE  Recording(p)'
  BY <1>6 DEF Recording
<1>7. ASSUME NEW p \in Writer,
             \/ run_enter(p) \/ trail_append(p) \/ trail_next(p) \/ Crash(p)
      PROVE  OthersStay(p) /\ Recording(p)'
  BY <1>0, <1>6, <1>7, EnterDoes, TrailDoes, TrailNextDoes, CrashDoes, IdlePc
<1>8. ASSUME NEW p \in Writer,
             \/ run_exit(p) \/ (\E n \in Steps : save(p, n)) \/ save_raise(p) \/ run_observe(p)
             \/ (\E op \in Method : method(p, op)) \/ method_exit(p) \/ ServiceStep(p)
      PROVE  OthersStay(p) /\ Recording(p)'
  <2>1. OthersStay(p) /\ call' = call /\ wrap'[p].pc # "started"
    BY <1>0, <1>8, ExitDoes, SaveDoes, RaiseDoes, ObserveDoes, MethodDoes, MethodExitDoes,
       ServiceDoes, IdlePc
  <2>. QED  BY <1>3, <2>1
<1>9. ASSUME NEW p \in Writer, AppendStep(p)
      PROVE  OthersStay(p) /\ Recording(p)'
  <2>1. OthersStay(p) /\ wrap' = wrap
    BY <1>0, <1>9, AppendDoes
  <2>2. CASE call'[p].pc \in {"raised", "returned"}
    BY <2>1, <2>2 DEF Recording, Under
  <2>3. CASE call[p].pc = "lock" /\ call'[p].pc = "write" /\ call'[p].event = call[p].event
    BY <1>0, <2>1, <2>3 DEF Recording, Under
  <2>4. ASSUME NEW r \in Record, call[p].pc = "write", call'[p].pc = "sync",
               file' = Append(file, r), r.event = call[p].event, UNCHANGED acked
        PROVE  Recording(p)'
    <3>1. file \in Seq(Record) /\ acked \subseteq 1 .. Len(file)
      BY <1>0 DEF LogInv, LogTypeOK
    <3>2. Len(file') = Len(file) + 1 /\ file'[Len(file')] = r /\ Len(file') \notin acked
      BY <2>4, <3>1
    <3>. QED  BY <1>0, <2>1, <2>4, <3>2 DEF Recording, Under
  <2>. QED  BY <1>0, <1>9, <2>1, <2>2, <2>3, <2>4, AppendDoes
<1>10. CASE UNCHANGED vars
  BY <1>3, <1>10 DEF vars, logVars
<1>. QED  BY <1>4, <1>5, <1>7, <1>8, <1>9, <1>10, WriterIs DEF Next

LEMMA StartKept == TypeInv /\ TypeInv' /\ StartInv /\ [Next]_vars => StartInv'
<1>. SUFFICES ASSUME TypeInv, TypeInv', StartInv, [Next]_vars
              PROVE  StartInv'
  OBVIOUS
<1>1. Covered /\ \A p \in Writer : Recording(p)
  BY DEF StartInv, Covered, Recording
<1>2. Covered'
  BY <1>1, CoverKept
<1>3. \A p \in Writer : Recording(p)'
  BY <1>1, RecordingKept
<1>. QED  BY <1>2, <1>3 DEF StartInv, Covered, Recording

LEMMA StartInit == Init => StartInv
<1>. SUFFICES ASSUME Init
              PROVE  StartInv
  OBVIOUS
<1>1. \A p \in Writer : wrap[p].pc = "idle" /\ call[p].pc = "idle" /\ proc[p].pc = "idle"
  BY IdlePc, WriterIs DEF Init, S!Init, LogInit, S!Idle, LogIdle, S!Proc
<1>2. Entitled = {} /\ Starts = {} /\ task.attempt = 0
  BY <1>1 DEF Entitled, Starts, Init, S!Init, LogInit, S!NoTask
<1>. QED  BY <1>1, <1>2, FS_EmptySet DEF StartInv, Under

LEMMA StartHolds == Spec => []StartInv
  BY StartInit, StartKept, TypeHolds, PTL DEF Spec

\* No execution without its record: while the log verifies, it holds one readable
\* "task.started" for every attempt of the task (durable_service.py:80).
THEOREM ExecutionsAreRecorded == Spec => []ExecutionsRecorded
<1>1. TypeInv /\ StartInv /\ AckedKept => ExecutionsRecorded
  <2>. SUFFICES ASSUME TypeInv, StartInv, AckedKept, Verdict = "valid"
                PROVE  task.attempt <= Cardinality(Started)
    BY DEF ExecutionsRecorded
  <2>1. Countable
    BY Counts
  <2>2. Starts \subseteq Started /\ Started \subseteq 1 .. Len(file)
    BY <2>1 DEF Countable, Starts, Started, AckedKept, Whole
  <2>3. IsFiniteSet(Started) /\ Cardinality(Started) \in Nat
    <3>1. IsFiniteSet(1 .. Len(file))
      BY <2>1, FS_Interval DEF Countable
    <3>. QED  BY <2>2, <3>1, FS_Subset, FS_CardinalityType
  <2>4. Cardinality(Starts) <= Cardinality(Started)
    BY <2>2, <2>3, FS_Subset
  <2>5. task.attempt + Cardinality(Entitled) <= Cardinality(Starts)
    BY DEF StartInv
  <2>. QED  BY <2>1, <2>3, <2>4, <2>5 DEF Countable
<1>. QED  BY <1>1, TypeHolds, StartHolds, RecordsKept, PTL
=============================================================================
