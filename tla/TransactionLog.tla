---------------------------- MODULE TransactionLog ----------------------------
(***************************************************************************)
(* The file transactions_logs.json as append_log leaves it: every append   *)
(* reads the whole file, adds its entry and writes the whole file again in *)
(* a thread, under a lock of the process.  Truncating, writing out and     *)
(* closing are steps of their own; the process may die between them.       *)
(***************************************************************************)
EXTENDS Naturals, Sequences, SequencesExt

CONSTANTS
    Entries,     \* entries, each appended by a task of its own
    NoEntry,
    MaxLogFaults \* bound: failed file operations and crashes

ASSUME LogAssumption == NoEntry \notin Entries /\ MaxLogFaults \in Nat

VARIABLES
    logFile,  \* the entries in the file; none while it is absent, empty or cut short
    writer,   \* the holder of the lock: [entry, pc, entries], entry NoEntry when free
    waiting,  \* tasks that have not got the lock yet
    logged,   \* ghost: entries in the order they took the lock and were written
    wiped,    \* ghost: the file could not be read, or was emptied and not written
    logFaults

logVars == <<logFile, writer, waiting, logged, wiped, logFaults>>

Unlocked == [entry |-> NoEntry, pc |-> "free", entries |-> <<>>]

LogInit ==
    /\ logFile = <<>> /\ writer = Unlocked
    /\ waiting = Entries /\ logged = <<>> /\ wiped = FALSE /\ logFaults = 0

LogFault == logFaults < MaxLogFaults /\ logFaults' = logFaults + 1

\* async with _lock.
Acquire(e) ==
    /\ writer.pc = "free" /\ e \in waiting
    /\ writer' = [entry |-> e, pc |-> "read", entries |-> <<>>]
    /\ waiting' = waiting \ {e}
    /\ UNCHANGED <<logFile, logged, wiped, logFaults>>

\* Variant: the newest entry goes first.
ReadLogNewestFirst ==
    /\ writer.pc = "read"
    /\ writer' = [writer EXCEPT !.pc = "truncate", !.entries = <<writer.entry>> \o logFile]
    /\ UNCHANGED <<logFile, waiting, logged, wiped, logFaults>>

\* _read, and entries.append: an absent, empty or torn file, or one that can't
\* be read, starts a fresh list.
ReadLog ==
    /\ writer.pc = "read"
    /\ \/ /\ writer' = [writer EXCEPT !.pc = "truncate",
                                      !.entries = Append(logFile, writer.entry)]
          /\ UNCHANGED <<wiped, logFaults>>
       \/ /\ writer' = [writer EXCEPT !.pc = "truncate", !.entries = <<writer.entry>>]
          /\ wiped' = TRUE /\ LogFault
    /\ UNCHANGED <<logFile, waiting, logged>>

\* _write: write_text opens the file, which empties it, ...
Truncate ==
    /\ writer.pc = "truncate" /\ writer' = [writer EXCEPT !.pc = "write"]
    /\ logFile' = <<>>
    /\ UNCHANGED <<waiting, logged, wiped, logFaults>>

\* ... and writes it out; the lock is released.
WriteOut ==
    /\ writer.pc = "write" /\ writer' = Unlocked
    /\ logFile' = writer.entries
    /\ logged' = Append(logged, writer.entry)
    /\ UNCHANGED <<waiting, wiped, logFaults>>

\* An exception is logged and swallowed, a crash takes the process along: the
\* entry is lost, and with it all others if the file was already emptied.
AppendLost ==
    /\ writer.pc # "free" /\ LogFault
    /\ writer' = Unlocked /\ wiped' = (wiped \/ writer.pc = "write")
    /\ UNCHANGED <<logFile, waiting, logged>>

LogNext == (\E e \in Entries : Acquire(e)) \/ ReadLog \/ Truncate \/ WriteOut \/ AppendLost

-----------------------------------------------------------------------------
(* Properties. *)

\* "Writes are serialized with an asyncio lock so concurrent transactions never
\* corrupt the file": between two appends the file is the list of all entries
\* written, in order; after a write that was cut short, of those written since
\* at least, without a gap.
LogKeepsEntries ==
    writer.pc \in {"free", "read", "truncate"} =>
        /\ ~wiped => logFile = logged
        /\ wiped => IsSuffix(logFile, logged)
=============================================================================
