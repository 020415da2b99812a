------------------------------ MODULE BanFile ------------------------------
(***************************************************************************)
(* The ban list and the file it survives restarts in: BanList, append, load *)
(* and compaction of coordinator/src/round/blame.rs, and their calls in     *)
(* run.rs.  The file is a sequence of pieces: a whole JSON record, what is  *)
(* left of one, or a newline.  Coordinator's banFile is what Loaded reads.  *)
(***************************************************************************)
EXTENDS Naturals, Sequences, FiniteSets

CONSTANTS
    Coins,
    BanDuration,     \* blame_ban_duration_secs, in ticks of the clock
    MaxClock,        \* bound: ticks
    MaxAppends,      \* bound: calls of append_ban_entry
    MaxInterrupts    \* bound: appends that leave a partial line

ASSUME BanFileAssumption ==
    /\ IsFiniteSet(Coins)
    /\ BanDuration \in Nat \ {0}
    /\ MaxClock \in Nat
    /\ MaxAppends \in Nat
    /\ MaxInterrupts \in Nat

VARIABLES
    now,          \* now_unix_secs()
    pc,           \* of run(): "load", "compact", "rename", "up"
    memory,       \* BanList.entries: coin -> expires_at, 0 when it has none
    file,         \* pieces of the ban file, as a reader sees them
    synced,       \* how many of them are on disk for good
    tmp,          \* pieces of <path>.tmp
    append,       \* the append in progress: what it writes, and what is next
    acked,        \* coin -> expires_at of its last append that returned Ok
    appends,      \* appends started
    interrupts    \* appends that left a partial line

banVars == <<now, pc, memory, file, synced, tmp, append, acked, appends,
             interrupts>>

Newline == <<"newline">>
Torn == <<"torn">>
Record(c, e) == <<"record", c, e>>
Records == {Record(c, e) : c \in Coins, e \in 1..(MaxClock + BanDuration)}

NoAppend == [next |-> "none", record |-> Torn]

-----------------------------------------------------------------------------
(* load_unexpired_entries.                                                 *)

\* A line parses when it is one record and nothing else; the last line need not
\* end in a newline.
Parses(f, i) ==
    /\ f[i] \in Records
    /\ i = 1 \/ f[i - 1] = Newline
    /\ i = Len(f) \/ f[i + 1] = Newline

Unexpired(f) == {i \in DOMAIN f : Parses(f, i) /\ now < f[i][3]}

\* coin -> expires_at of its last unexpired record, which load_entry keeps.
Loaded(f) ==
    [c \in Coins |->
        LET of == {i \in Unexpired(f) : f[i][2] = c}
        IN  IF of = {} THEN 0
            ELSE LET last == CHOOSE i \in of : \A j \in of : j <= i
                 IN  f[last][3]]

-----------------------------------------------------------------------------
(* Startup: load, then compaction through a temporary file.                *)

Load_StartsEmpty ==
    /\ pc = "load"
    /\ memory' = [c \in Coins |-> 0]
    /\ pc' = "compact"
    /\ UNCHANGED <<now, file, synced, tmp, append, acked, appends, interrupts>>

Load ==
    /\ pc = "load"
    /\ memory' = Loaded(file)
    /\ pc' = "compact"
    /\ UNCHANGED <<now, file, synced, tmp, append, acked, appends, interrupts>>

\* The lines of the kept records, in the order of the file.
Kept(f) ==
    LET kept[n \in 0..Len(f)] ==
            IF n = 0 THEN <<>>
            ELSE IF n \in Unexpired(f)
                 THEN kept[n - 1] \o <<f[n], Newline>>
                 ELSE kept[n - 1]
    IN  kept[Len(f)]

CompactToTmp_InPlace ==
    /\ pc = "compact"
    /\ tmp' = Kept(file)
    /\ file' = <<>>
    /\ synced' = 0
    /\ pc' = "rename"
    /\ UNCHANGED <<now, memory, append, acked, appends, interrupts>>

CompactToTmp ==
    /\ pc = "compact"
    /\ tmp' = Kept(file)
    /\ pc' = "rename"
    /\ UNCHANGED <<now, memory, file, synced, append, acked, appends, interrupts>>

CompactFails ==
    /\ pc \in {"compact", "rename"}
    /\ pc' = "up"
    /\ UNCHANGED <<now, memory, file, synced, tmp, append, acked, appends,
                   interrupts>>

CompactRename_KeepsSynced ==
    /\ pc = "rename"
    /\ file' = tmp
    /\ pc' = "up"
    /\ UNCHANGED <<now, memory, synced, tmp, append, acked, appends, interrupts>>

\* A rename that returned is taken to be durable.
CompactRename ==
    /\ pc = "rename"
    /\ file' = tmp
    /\ synced' = Len(tmp)
    /\ pc' = "up"
    /\ UNCHANGED <<now, memory, tmp, append, acked, appends, interrupts>>

-----------------------------------------------------------------------------
(* BanList::ban and append_ban_entry.  writeln! writes the record, then the *)
(* newline; sync_all follows.  Any of the calls may fail, and append_ban_entry *)
(* then returns the error, which its callers log.                           *)

Ban(c) ==
    /\ pc = "up"
    /\ append.next = "none"
    /\ appends < MaxAppends
    /\ memory' = [memory EXCEPT ![c] = now + BanDuration]
    /\ append' = [next |-> "record", record |-> Record(c, now + BanDuration)]
    /\ appends' = appends + 1
    /\ UNCHANGED <<now, pc, file, synced, tmp, acked, interrupts>>

Writes(piece, next) ==
    /\ file' = Append(file, piece)
    /\ append' = [append EXCEPT !.next = next]
    /\ UNCHANGED <<now, pc, memory, synced, tmp, acked, appends>>

WriteRecord ==
    /\ append.next = "record"
    /\ Writes(append.record, "newline")
    /\ UNCHANGED interrupts

WriteNewline ==
    /\ append.next = "newline"
    /\ Writes(Newline, "sync")
    /\ UNCHANGED interrupts

Sync_NotCalled ==
    /\ append.next = "sync"
    /\ acked' = [acked EXCEPT ![append.record[2]] = append.record[3]]
    /\ append' = NoAppend
    /\ UNCHANGED <<now, pc, memory, file, synced, tmp, appends, interrupts>>

Sync ==
    /\ append.next = "sync"
    /\ synced' = Len(file)
    /\ acked' = [acked EXCEPT ![append.record[2]] = append.record[3]]
    /\ append' = NoAppend
    /\ UNCHANGED <<now, pc, memory, file, tmp, appends, interrupts>>

\* open, the newline's write or sync_all fails; a record stays without newline.
AppendFails ==
    /\ append.next # "none"
    /\ append.next = "newline" => interrupts < MaxInterrupts
    /\ append' = NoAppend
    /\ interrupts' = IF append.next = "newline" THEN interrupts + 1 ELSE interrupts
    /\ UNCHANGED <<now, pc, memory, file, synced, tmp, acked, appends>>

\* The disk is full in the middle of the record.
AppendIsShort ==
    /\ append.next = "record"
    /\ interrupts < MaxInterrupts
    /\ Writes(Torn, "failed")
    /\ interrupts' = interrupts + 1

AppendGivesUp ==
    /\ append.next = "failed"
    /\ append' = NoAppend
    /\ UNCHANGED <<now, pc, memory, file, synced, tmp, acked, appends, interrupts>>

-----------------------------------------------------------------------------
(* Time and failures of the host.                                          *)

Tick ==
    /\ now < MaxClock
    /\ now' = now + 1
    /\ UNCHANGED <<pc, memory, file, synced, tmp, append, acked, appends,
                   interrupts>>

Restarted ==
    /\ pc' = "load"
    /\ memory' = [c \in Coins |-> 0]
    /\ append' = NoAppend
    /\ tmp' = <<>>
    /\ UNCHANGED <<now, acked, appends>>

\* The process ends; what it wrote stays in the kernel's buffers.
Crash ==
    /\ append.next = "newline" => interrupts < MaxInterrupts
    /\ Restarted
    /\ interrupts' = IF append.next = "newline" THEN interrupts + 1 ELSE interrupts
    /\ UNCHANGED <<file, synced>>

\* The host ends: of what was not synced any prefix survives, its last record
\* whole or torn.
PowerLoss ==
    /\ interrupts < MaxInterrupts
    /\ synced < Len(file)
    /\ Restarted
    /\ \E n \in synced..Len(file) :
          \/ file' = SubSeq(file, 1, n)
          \/ n < Len(file) /\ file[n + 1] # Newline
             /\ file' = Append(SubSeq(file, 1, n), Torn)
    /\ synced' = Len(file')
    /\ interrupts' = interrupts + 1

BanInit ==
    /\ now = 0
    /\ pc = "load"
    /\ memory = [c \in Coins |-> 0]
    /\ file = <<>>
    /\ synced = 0
    /\ tmp = <<>>
    /\ append = NoAppend
    /\ acked = [c \in Coins |-> 0]
    /\ appends = 0
    /\ interrupts = 0

BanNext ==
    \/ Load
    \/ CompactToTmp
    \/ CompactFails
    \/ CompactRename
    \/ \E c \in Coins : Ban(c)
    \/ WriteRecord
    \/ WriteNewline
    \/ Sync
    \/ AppendFails
    \/ AppendIsShort
    \/ AppendGivesUp
    \/ Tick
    \/ Crash
    \/ PowerLoss

BanSpec == BanInit /\ [][BanNext]_banVars

-----------------------------------------------------------------------------
(* Properties.                                                             *)

\* The pieces of the file, and the counters that bound it.
BanTypeOK ==
    /\ now \in 0..MaxClock
    /\ pc \in {"load", "compact", "rename", "up"}
    /\ memory \in [Coins -> Nat]
    /\ \A i \in DOMAIN file : file[i] \in Records \cup {Torn, Newline}
    /\ synced \in 0..Len(file)
    /\ append.next \in {"none", "record", "newline", "sync", "failed"}
    /\ acked \in [Coins -> Nat]
    /\ appends \in 0..MaxAppends
    /\ interrupts \in 0..MaxInterrupts

\* Once started, the coordinator enforces every ban that its file holds, and for
\* no shorter than the file says.
FileBansAreInMemory ==
    pc # "load" => \A c \in Coins : Loaded(file)[c] <= memory[c]

\* A partial line costs at most the one record that is appended after it: of the
\* bans whose append returned Ok, no more are lost than appends were interrupted.
EachInterruptCostsOneBan ==
    Cardinality({c \in Coins : now < acked[c] /\ Loaded(file)[c] < acked[c]})
        <= interrupts

\* Compaction, and a process that ends at any point of it, drops no ban that a
\* restart would have read, and adds none (compact_ban_file).
CompactionKeepsBans ==
    [][(pc \in {"compact", "rename"} /\ UNCHANGED <<now, interrupts>>)
          => (Loaded(file)' = Loaded(file))]_banVars

-----------------------------------------------------------------------------
(* A statement of the repository that the code does not meet.              *)

\* "Calls sync_all() after the write so the entry survives": a ban whose append
\* returned Ok is read back by a restart, until it expires.
AckedBansSurvive ==
    \A c \in Coins : now < acked[c] => Loaded(file)[c] >= acked[c]

=============================================================================
