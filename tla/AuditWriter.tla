---------------------------- MODULE AuditWriter ----------------------------
(***************************************************************************)
(* The batch writer of audit events (internal/audit): Record never blocks,  *)
(* one goroutine moves rows from the bounded channel to a buffer and the    *)
(* buffer to the store, Flush asks it to write what is queued and Close     *)
(* drains it.                                                               *)
(*                                                                          *)
(* The channel and the buffer are first in, first out, so a row is its      *)
(* number: rows 1..flushed have been handed to the store, flushed+1..taken  *)
(* are in the buffer and taken+1..sent in the channel.                      *)
(***************************************************************************)
EXTENDS Integers

CONSTANTS
    Flushers,     \* concurrent Flush calls
    Closers,      \* concurrent Close calls
    Queue,        \* capacity of the channel
    Batch,        \* rows that make run write without waiting for the ticker
    MaxRecords,   \* bound on Record calls
    Nobody        \* no Flush waits for the write in progress

ASSUME WriterAssumption ==
    Queue \in Nat \ {0} /\ Batch \in Nat \ {0} /\ MaxRecords \in Nat /\ Nobody \notin Flushers

VARIABLES
    recorded,  \* Record calls with a valid event
    sent, taken, flushed,
    stored,    \* rows InsertAuditRows has committed
    reported,  \* rows of batches it refused, each batch told to onError and forgotten
    dropped,
    closed,
    writer,    \* run: "select", "drain", "insert", "final" (its last write), "exited"
    asker,     \* the Flush whose done channel run holds
    flusher,   \* each Flush: "idle", "offer", "wait", "done", "left" (ctx ended or closed)
    mark,      \* the newest row queued when it was called
    closer     \* each Close: "idle", "wait", "drained", "second"

auditVars == <<recorded, sent, taken, flushed, stored, reported, dropped, closed,
               writer, asker, flusher, mark, closer>>
counts == <<recorded, sent, dropped>>
rows == <<flushed, stored, reported>>

AuditInit ==
    /\ recorded = 0 /\ sent = 0 /\ taken = 0 /\ flushed = 0 /\ dropped = 0
    /\ stored = {} /\ reported = {}
    /\ closed = FALSE
    /\ writer = "select"
    /\ asker = Nobody
    /\ flusher = [f \in Flushers |-> "idle"]
    /\ mark = [f \in Flushers |-> 0]
    /\ closer = [c \in Closers |-> "idle"]

-----------------------------------------------------------------------------
\* under the writer's lock; a full channel drops the event
Record ==
    /\ recorded < MaxRecords
    /\ recorded' = recorded + 1
    /\ IF ~closed /\ sent - taken < Queue
       THEN sent' = sent + 1 /\ UNCHANGED dropped
       ELSE dropped' = dropped + 1 /\ UNCHANGED sent
    /\ UNCHANGED <<taken, rows, closed, writer, asker, flusher, mark, closer>>

Flush(f) ==
    /\ flusher[f] = "idle"
    /\ flusher' = [flusher EXCEPT ![f] = IF closed THEN "left" ELSE "offer"]
    /\ mark' = [mark EXCEPT ![f] = sent]
    /\ UNCHANGED <<counts, taken, rows, closed, writer, asker, closer>>

\* ctx.Done in either select of Flush
GiveUp(f) ==
    /\ flusher[f] \in {"offer", "wait"}
    /\ flusher' = [flusher EXCEPT ![f] = "left"]
    /\ UNCHANGED <<counts, taken, rows, closed, writer, asker, mark, closer>>

\* close(done), or nothing when run wrote for itself
Signalled ==
    IF asker # Nobody /\ flusher[asker] = "wait"
    THEN [flusher EXCEPT ![asker] = "done"] ELSE flusher

\* flush(): an empty buffer is not written
StartWrite(next) ==
    IF taken' = flushed THEN writer' = next
    ELSE writer' = IF next = "exited" THEN "final" ELSE "insert"

\* a row arrives; the batch is written when it is full
Take ==
    /\ writer = "select" /\ taken < sent
    /\ taken' = taken + 1
    /\ writer' = IF taken' - flushed >= Batch THEN "insert" ELSE writer
    /\ UNCHANGED <<counts, rows, closed, asker, flusher, mark, closer>>

TickWrite ==
    /\ writer = "select" /\ taken # flushed
    /\ writer' = "insert"
    /\ UNCHANGED <<counts, taken, rows, closed, asker, flusher, mark, closer>>

\* the channel is closed and empty
Finish ==
    /\ writer = "select" /\ closed /\ taken = sent
    /\ taken' = taken
    /\ StartWrite("exited")
    /\ UNCHANGED <<counts, rows, closed, asker, flusher, mark, closer>>

\* done := <-w.flushCh
Accept(f) ==
    /\ writer = "select" /\ flusher[f] = "offer"
    /\ writer' = "drain"
    /\ asker' = f
    /\ flusher' = [flusher EXCEPT ![f] = "wait"]
    /\ UNCHANGED <<counts, taken, rows, closed, mark, closer>>

Drain ==
    /\ writer = "drain" /\ taken < sent
    /\ taken' = taken + 1
    /\ UNCHANGED <<counts, rows, closed, writer, asker, flusher, mark, closer>>

Drained_WithoutChannel ==
    /\ writer = "drain"
    /\ taken' = taken
    /\ StartWrite("select")
    /\ IF writer' = "insert" THEN UNCHANGED <<flusher, asker>>
       ELSE flusher' = Signalled /\ asker' = Nobody
    /\ UNCHANGED <<counts, rows, closed, mark, closer>>

\* the loop over the channel has ended; with nothing to write done is closed at once
Drained ==
    /\ writer = "drain" /\ taken = sent
    /\ taken' = taken
    /\ StartWrite("select")
    /\ IF writer' = "insert" THEN UNCHANGED <<flusher, asker>>
       ELSE flusher' = Signalled /\ asker' = Nobody
    /\ UNCHANGED <<counts, rows, closed, mark, closer>>

\* InsertAuditRows returns: one transaction for the whole buffer, which is
\* emptied also when it failed
Written(ok) ==
    /\ writer \in {"insert", "final"}
    /\ flushed' = taken
    /\ IF ok THEN stored' = stored \cup (flushed + 1 .. taken) /\ UNCHANGED reported
       ELSE reported' = reported \cup (flushed + 1 .. taken) /\ UNCHANGED stored
    /\ writer' = IF writer = "final" THEN "exited" ELSE "select"
    /\ flusher' = Signalled
    /\ asker' = Nobody
    /\ UNCHANGED <<counts, taken, closed, mark, closer>>

\* only the first call closes the channel and waits
Close(c) ==
    /\ closer[c] = "idle"
    /\ closer' = [closer EXCEPT ![c] = IF closed THEN "second" ELSE "wait"]
    /\ closed' = TRUE
    /\ UNCHANGED <<counts, taken, rows, writer, asker, flusher, mark>>

CloseReturns(c) ==
    /\ closer[c] = "wait" /\ writer = "exited"
    /\ closer' = [closer EXCEPT ![c] = "drained"]
    /\ UNCHANGED <<counts, taken, rows, closed, writer, asker, flusher, mark>>

WriterStep ==
    \/ Take \/ TickWrite \/ Finish \/ Drain \/ Drained
    \/ \E f \in Flushers : Accept(f)
    \/ \E ok \in BOOLEAN : Written(ok)

AuditNext ==
    \/ Record \/ WriterStep
    \/ \E f \in Flushers : Flush(f) \/ GiveUp(f)
    \/ \E c \in Closers : Close(c) \/ CloseReturns(c)

AuditSpec == AuditInit /\ [][AuditNext]_auditVars

-----------------------------------------------------------------------------
AuditTypeOK ==
    /\ {recorded, sent, taken, flushed, dropped} \subseteq Nat
    /\ stored \in SUBSET Nat /\ reported \in SUBSET Nat
    /\ closed \in BOOLEAN
    /\ writer \in {"select", "drain", "insert", "final", "exited"}
    /\ asker \in Flushers \cup {Nobody}
    /\ flusher \in [Flushers -> {"idle", "offer", "wait", "done", "left"}]
    /\ mark \in [Flushers -> Nat]
    /\ closer \in [Closers -> {"idle", "wait", "drained", "second"}]

\* When Flush returns through its done channel, every row queued before the
\* call has been stored, or belongs to a batch that InsertAuditRows refused and
\* whose error went to onError; a Close that waited leaves no row unsettled.
\* Whatever Record, the ticker and other calls do meanwhile.
FlushSettles ==
    /\ \A f \in Flushers : flusher[f] = "done" => 1 .. mark[f] \subseteq stored \cup reported
    /\ \A c \in Closers : closer[c] = "drained" => 1 .. sent \subseteq stored \cup reported

\* What the comment of Flush says: it "writes everything queued so far and
\* returns when it is stored or ctx is done".  It does not hold: the done
\* channel is closed also after a refused batch.
FlushStored ==
    \A f \in Flushers : flusher[f] = "done" => 1 .. mark[f] \subseteq stored

\* Every valid event is accounted for: dropped and counted, waiting, stored, or
\* in a batch whose failure was reported, one of these only; and the channel
\* never overfills.
Accounted ==
    /\ recorded = dropped + sent
    /\ flushed <= taken /\ taken <= sent /\ sent - taken <= Queue
    /\ stored \cup reported = 1 .. flushed
    /\ stored \cap reported = {}

=============================================================================
