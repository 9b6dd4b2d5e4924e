------------------------- MODULE AuditWriterProofs -------------------------
(***************************************************************************)
(* Proofs about AuditWriter, for any capacity, batch size and number of     *)
(* concurrent calls.                                                        *)
(*                                                                          *)
(* FlushSettles is not inductive: a Flush is told "done" by run, so the      *)
(* invariant has to say what run knows while it holds a done channel - once *)
(* it has left the drain loop the asker's rows are all in the buffer - and  *)
(* that after the last write the channel stays empty because it is closed.  *)
(***************************************************************************)
EXTENDS AuditWriter, TLAPS

Asked ==
    asker # Nobody =>
        /\ writer \in {"drain", "insert"}
        /\ flusher[asker] \in {"wait", "left"}
        /\ writer = "insert" => mark[asker] <= taken

Marks == \A f \in Flushers : /\ mark[f] <= sent
                             /\ flusher[f] = "done" => mark[f] <= flushed

Ending ==
    /\ writer = "final" => closed /\ taken = sent
    /\ writer = "exited" => closed /\ flushed = sent
    /\ \A c \in Closers : closer[c] = "drained" => writer = "exited"

WriterInv == AuditTypeOK /\ Accounted /\ Asked /\ Marks /\ Ending

\* The invariant holds of a writer that was just started.
LEMMA WriterInit == AuditInit => WriterInv
  <1> SUFFICES ASSUME AuditInit PROVE WriterInv
    OBVIOUS
  <1>1. AuditTypeOK
    <2>1. {recorded, sent, taken, flushed, dropped} \subseteq Nat
      BY DEF AuditInit
    <2>2. /\ stored \in SUBSET Nat /\ reported \in SUBSET Nat
          /\ closed \in BOOLEAN
          /\ writer \in {"select", "drain", "insert", "final", "exited"}
          /\ asker \in Flushers \cup {Nobody}
      BY DEF AuditInit
    <2>3. flusher \in [Flushers -> {"idle", "offer", "wait", "done", "left"}]
      BY DEF AuditInit
    <2>4. mark \in [Flushers -> Nat]
      BY DEF AuditInit
    <2>5. closer \in [Closers -> {"idle", "wait", "drained", "second"}]
      BY DEF AuditInit
    <2> QED
      BY <2>1, <2>2, <2>3, <2>4, <2>5 DEF AuditTypeOK
  <1>2. Accounted
    BY WriterAssumption DEF AuditInit, Accounted
  <1>3. Asked /\ Marks /\ Ending
    BY DEF AuditInit, Asked, Marks, Ending
  <1> QED
    BY <1>1, <1>2, <1>3 DEF WriterInv

\* Record, run, Flush and Close preserve the invariant.
LEMMA WriterStepInv == WriterInv /\ [AuditNext]_auditVars => WriterInv'
  <1> SUFFICES ASSUME WriterInv, [AuditNext]_auditVars PROVE WriterInv'
    OBVIOUS
  <1> USE WriterAssumption DEF WriterInv, AuditTypeOK, Accounted, Asked, Marks, Ending, counts, rows
  <1>1. CASE Record
    BY <1>1 DEF Record
  <1>2. CASE Take
    BY <1>2 DEF Take, StartWrite
  <1>3. CASE TickWrite
    BY <1>3 DEF TickWrite, StartWrite
  <1>4. CASE Finish
    BY <1>4 DEF Finish, StartWrite
  <1>5. CASE Drain
    BY <1>5 DEF Drain
  <1>6. CASE Drained
    BY <1>6 DEF Drained, StartWrite, Signalled
  <1>7. ASSUME NEW f \in Flushers, Accept(f) PROVE WriterInv'
    BY <1>7 DEF Accept
  <1>8. ASSUME NEW ok \in BOOLEAN, Written(ok) PROVE WriterInv'
    BY <1>8 DEF Written, Signalled
  <1>9. ASSUME NEW f \in Flushers, Flush(f) PROVE WriterInv'
    BY <1>9 DEF Flush
  <1>10. ASSUME NEW f \in Flushers, GiveUp(f) PROVE WriterInv'
    BY <1>10 DEF GiveUp
  <1>11. ASSUME NEW c \in Closers, Close(c) PROVE WriterInv'
    BY <1>11 DEF Close
  <1>12. ASSUME NEW c \in Closers, CloseReturns(c) PROVE WriterInv'
    BY <1>12 DEF CloseReturns
  <1>13. CASE UNCHANGED auditVars
    BY <1>13 DEF auditVars
  <1> HIDE DEF WriterInv
  <1> QED
    BY <1>1, <1>2, <1>3, <1>4, <1>5, <1>6, <1>7, <1>8, <1>9, <1>10, <1>11, <1>12, <1>13
       DEF AuditNext, WriterStep

\* The strengthened invariant holds of every behaviour of the writer.
THEOREM WriterInvariant == AuditSpec => []WriterInv
  BY WriterInit, WriterStepInv, PTL DEF AuditSpec

\* A Flush that returns through its done channel has had each of its rows
\* stored or reported in a refused batch, and a Close that waited has settled
\* every row (audit.go, Flush, run and Close).
THEOREM FlushCorrect == AuditSpec => []FlushSettles
  <1>1. WriterInv => FlushSettles
    BY DEF WriterInv, AuditTypeOK, Accounted, Marks, Ending, FlushSettles
  <1> QED
    BY <1>1, WriterInvariant, PTL

\* No valid event disappears without being counted or reported (audit.go,
\* Record and run).
THEOREM AccountedCorrect == AuditSpec => []Accounted
  <1>1. WriterInv => Accounted
    BY DEF WriterInv
  <1> QED
    BY <1>1, WriterInvariant, PTL

=============================================================================
