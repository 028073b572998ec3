-------------------------- MODULE TempFilesProofs --------------------------
(***************************************************************************)
(* What TempFiles promises of references, tickets and files, for any       *)
(* number of uploads, readers, deletions and tickets, any budget and any   *)
(* timeouts.                                                               *)
(*                                                                         *)
(* Accounting needs nothing but the constants' types: who holds a file,    *)
(* and which ticket an upload has taken.  That a file stays on disk needs  *)
(* besides that an upload cannot outlive the retention, since the sweep    *)
(* for orphans goes by age alone.                                          *)
(***************************************************************************)
EXTENDS TempFiles, FiniteSetTheorems, TLAPS

UploadRecord == [phase : Active \cup {"idle", "done"},
                 elapsed : 0..RequestTimeout,
                 converting : 0..ConversionTimeout,
                 ticket : Tickets \cup {NoTicket}]

\* TypeOK without the bounds that follow from the invariants.
Shapes ==
    /\ upload \in [Uploads -> UploadRecord]
    /\ disk \subseteq Paths
    /\ mtime \in [Paths -> 0..TempTtl]
    /\ files \in [Uploads -> {"none", "registered", "removed"}]
    /\ age \in [Uploads -> 0..TempTtl]
    /\ refs \in [Uploads -> Nat]
    /\ reader \in [Readers -> [phase : {"idle", "opening", "open"},
                               file : Uploads \cup {NoFile}]]
    /\ deleter \in [Deleters -> [phase : {"idle", "checked", "unlink", "refused", "done"},
                                 file : Uploads \cup {NoFile}]]
    /\ sweep \in [phase : {"asleep", "due", "unlink", "visit"},
                  paths : SUBSET Paths, keep : SUBSET Paths]
    /\ tickets \in [Tickets -> {"unissued", "valid", "expired", "redeemed"}]

\* A record is made by an upload that is over, and stays after it.
RecordsAfterUploads ==
    \A u \in Uploads : files[u] # "none" => upload[u].phase = "done"

\* A guard is held on a registered file.
GuardsOnRegistered ==
    \A g \in Readers :
        /\ reader[g].phase = "idle" <=> reader[g].file = NoFile
        /\ reader[g].file # NoFile => reader[g].file \in Registered

\* references counts the guards of every upload, a record or not.
References ==
    \A u \in Uploads : IsFiniteSet(Holders(u)) /\ refs[u] = Cardinality(Holders(u))

\* An upload by ticket that got past the slot has used its ticket up, alone.
Admitted(u) == Kind[u] = "ticket" /\ (upload[u].phase \in Working \/ files[u] # "none")
TicketsUsedUp ==
    \A u \in Uploads :
        /\ Kind[u] = "ticket" /\ upload[u].phase # "idle" => upload[u].ticket \in Tickets
        /\ Admitted(u) => tickets[upload[u].ticket] = "redeemed"

Accounts == /\ Shapes /\ RecordsAfterUploads /\ GuardsOnRegistered /\ References
            /\ TicketsUsedUp /\ TicketCreatesOneFile

\* Only documents are converted, only the others have their magic bytes read.
PhasesFit ==
    \A u \in Uploads :
        /\ upload[u].phase \in {"slot", "converting", "tidying"} => Kind[u] = "doc"
        /\ upload[u].phase = "checking" => Kind[u] # "doc"

\* What an upload has on disk is no older than the upload.
OwnPaths(u) == {Source(u), Pdf(u)}
Fresh ==
    \A u \in Uploads :
        /\ upload[u].phase \in {"idle", "queued", "creating"} => OwnPaths(u) \cap disk = {}
        /\ upload[u].phase # "done" =>
              \A p \in OwnPaths(u) : p \in disk => mtime[p] <= upload[u].elapsed

\* What is unlinked by name belongs to a record that was removed.
UnlinksRemoved ==
    /\ \A d \in Deleters :
          /\ deleter[d].phase # "idle" => deleter[d].file \in Uploads
          /\ deleter[d].phase = "unlink" => files[deleter[d].file] = "removed"
    /\ sweep.phase = "unlink" => sweep.paths \subseteq {Pdf(u) : u \in {v \in Uploads : files[v] = "removed"}}

\* A file registered after the sweep listed the records is too young for it.
SweepSpares ==
    sweep.phase = "visit" =>
        \A u \in Registered : Pdf(u) \in sweep.keep \/ mtime[Pdf(u)] < TempTtl

Stays == /\ Accounts /\ PhasesFit /\ Fresh /\ UnlinksRemoved /\ SweepSpares
         /\ WorkNotSwept /\ RegisteredOnDisk

-----------------------------------------------------------------------------
(* The paths of two uploads are different.                                 *)
LEMMA OwnPathsDiffer ==
    ASSUME NEW u \in Uploads, NEW v \in Uploads, u # v
    PROVE  OwnPaths(u) \cap OwnPaths(v) = {}
BY DEF OwnPaths, Source, Pdf

LEMMA OwnPathsTyped ==
    ASSUME NEW u \in Uploads
    PROVE  /\ Source(u) \in Paths /\ Pdf(u) \in Paths
           /\ Source(u) \in OwnPaths(u) /\ Pdf(u) \in OwnPaths(u)
BY DEF OwnPaths, Source, Pdf, Paths

(* The actions of one upload request, and of the others.                   *)
UploadAction(u) ==
    \/ \E t \in Tickets \cup {NoTicket} : StartUpload(u, t)
    \/ UploadStep(u) \/ WriteChunk(u) \/ Fail(u)
    \/ RequestTimesOut(u) \/ ClientLeaves(u)

ReaderAction(g) == OpenFile(g) \/ DropGuard(g) \/ \E u \in Uploads : TakeGuard(g, u)

DeleterAction(d) ==
    \/ RemoveUnreferenced(d) \/ UnlinkDeleted(d)
    \/ \E u \in Uploads : CheckExists(d, u)

TicketAction(t) == IssueTicket(t) \/ ExpireTicket(t)

\* All but uploads and the clock.
OtherAction ==
    \/ \E g \in Readers : ReaderAction(g)
    \/ \E d \in Deleters : DeleterAction(d)
    \/ \E t \in Tickets : TicketAction(t)
    \/ Sweep

LEMMA Steps ==
    Next => (\E u \in Uploads : UploadAction(u)) \/ OtherAction \/ Tick
BY DEF OtherAction, Next, UploadAction, ReaderAction, DeleterAction, TicketAction

-----------------------------------------------------------------------------
(* Types.                                                                  *)
LEMMA Numbers ==
    /\ RequestTimeout \in Nat /\ ConversionTimeout \in Nat
    /\ TempTtl \in Nat /\ TempTtl > 0
BY TempFilesAssumption

LEMMA AgedBound ==
    ASSUME NEW n \in 0..TempTtl
    PROVE  Aged(n) \in 0..TempTtl /\ Aged(n) <= n + 1
BY Numbers DEF Aged

LEMMA ShapesInit == Init => Shapes
BY Numbers DEF Init, Shapes, UploadRecord, Asleep, Paths

\* The two ways in which a step changes where an upload is.
LEMMA GotoFacts ==
    ASSUME upload \in [Uploads -> UploadRecord], NEW u \in Uploads,
           NEW phase \in Active, Goto(u, phase)
    PROVE  /\ upload' \in [Uploads -> UploadRecord]
           /\ upload'[u].phase = phase
           /\ upload'[u].elapsed = upload[u].elapsed
           /\ upload'[u].ticket = upload[u].ticket
           /\ \A v \in Uploads \ {u} : upload'[v] = upload[v]
BY DEF Goto, UploadRecord

LEMMA StartFacts ==
    ASSUME upload \in [Uploads -> UploadRecord], NEW u \in Uploads,
           NEW t \in Tickets \cup {NoTicket}, StartUpload(u, t)
    PROVE  upload' \in [Uploads -> UploadRecord]
<1>1. "queued" \in Active
  BY DEF Active, Working
<1>2. PICK r : r = [upload[u] EXCEPT !.phase = "queued", !.ticket = t]
  OBVIOUS
<1>3. upload[u] \in UploadRecord
  OBVIOUS
<1>4. r \in UploadRecord
  BY <1>1, <1>2, <1>3 DEF UploadRecord
<1>5. upload' = [upload EXCEPT ![u] = r]
  BY <1>2 DEF StartUpload
<1>. QED BY <1>4, <1>5

LEMMA EndFacts ==
    ASSUME upload \in [Uploads -> UploadRecord], NEW u \in Uploads, End(u)
    PROVE  /\ upload' \in [Uploads -> UploadRecord]
           /\ upload'[u].phase = "done"
           /\ upload'[u].ticket = upload[u].ticket
           /\ \A v \in Uploads \ {u} : upload'[v] = upload[v]
<1>1. 0 \in 0..RequestTimeout /\ 0 \in 0..ConversionTimeout
  BY Numbers
<1>2. PICK r : r = [upload[u] EXCEPT !.phase = "done", !.elapsed = 0, !.converting = 0]
  OBVIOUS
<1>3. r \in UploadRecord
  BY <1>1, <1>2 DEF UploadRecord
<1>4. r.phase = "done" /\ r.ticket = upload[u].ticket
  BY <1>2 DEF UploadRecord
<1>5. upload' = [upload EXCEPT ![u] = r]
  BY <1>2 DEF End
<1>. QED BY <1>3, <1>4, <1>5

LEMMA WriteFacts ==
    ASSUME disk \subseteq Paths, mtime \in [Paths -> 0..TempTtl], NEW p \in Paths, Write(p)
    PROVE  /\ disk' \subseteq Paths /\ mtime' \in [Paths -> 0..TempTtl]
           /\ disk' = disk \cup {p}
           /\ mtime'[p] = 0 /\ \A q \in Paths \ {p} : mtime'[q] = mtime[q]
BY Numbers DEF Write

LEMMA ShapesUpload ==
    ASSUME Shapes, NEW u \in Uploads, UploadAction(u)
    PROVE  Shapes'
<1>. USE Numbers, OwnPathsTyped DEF Shapes, othersVars, storeVars
<1>0. {"queued", "creating", "writing", "draining", "slot", "converting", "checking",
       "tidying", "registering"} \subseteq Active
  BY DEF Active, Working, Receiving
<1>1. ASSUME NEW t \in Tickets \cup {NoTicket}, StartUpload(u, t) PROVE Shapes'
  <2>1. upload' \in [Uploads -> UploadRecord]
    BY <1>1, StartFacts
  <2>. QED BY <1>1, <2>1 DEF StartUpload
<1>2. CASE AcquireUploadSlot(u)
  BY <1>0, <1>2, GotoFacts, EndFacts, WriteFacts DEF AcquireUploadSlot, Redeemed
<1>3. CASE CreateSource(u)
  BY <1>0, <1>3, GotoFacts, EndFacts, WriteFacts DEF CreateSource
<1>4. CASE FinishWriting(u)
  BY <1>0, <1>4, GotoFacts, EndFacts, WriteFacts DEF FinishWriting
<1>5. CASE FinishDraining(u)
  BY <1>0, <1>5, GotoFacts, EndFacts, WriteFacts DEF FinishDraining
<1>6. CASE AcquireConversionSlot(u)
  BY <1>0, <1>6, GotoFacts, EndFacts, WriteFacts DEF AcquireConversionSlot
<1>7. CASE SofficeWrites(u)
  BY <1>0, <1>7, GotoFacts, EndFacts, WriteFacts DEF SofficeWrites
<1>8. CASE FinishConversion(u)
  BY <1>0, <1>8, GotoFacts, EndFacts, WriteFacts DEF FinishConversion
<1>9. CASE TidySource(u)
  BY <1>0, <1>9, GotoFacts, EndFacts, WriteFacts DEF TidySource
<1>10. CASE CheckMagic(u)
  BY <1>0, <1>10, GotoFacts, EndFacts, WriteFacts DEF CheckMagic
<1>11. CASE Register(u)
  <2>1. upload' \in [Uploads -> UploadRecord]
    BY <1>11, EndFacts DEF Register
  <2>2. /\ files' \in [Uploads -> {"none", "registered", "removed"}]
        /\ age' \in [Uploads -> 0..TempTtl] /\ disk' \subseteq Paths
    <3>1. 0 \in 0..TempTtl
      OBVIOUS
    <3>. QED BY <1>11, <3>1 DEF Register
  <2>. QED BY <1>11, <2>1, <2>2 DEF Register
<1>12. CASE WriteChunk(u)
  BY <1>0, <1>12, GotoFacts, EndFacts, WriteFacts DEF WriteChunk
<1>13. CASE Fail(u)
  BY <1>0, <1>13, GotoFacts, EndFacts, WriteFacts DEF Fail
<1>14. CASE DropUpload(u)
  BY <1>0, <1>14, GotoFacts, EndFacts, WriteFacts DEF DropUpload, Leftover
<1> QED
  BY ONLY UploadAction(u), <1>1, <1>2, <1>3, <1>4, <1>5, <1>6, <1>7, <1>8, <1>9, <1>10, <1>11,
     <1>12, <1>13, <1>14
  DEF UploadAction, UploadStep, RequestTimesOut, ClientLeaves

LEMMA ShapesOthers ==
    ASSUME Shapes,
           OtherAction \/ Tick
    PROVE  Shapes'
<1>. USE Numbers, OwnPathsTyped DEF Shapes, othersVars, storeVars
<1>1. ASSUME NEW g \in Readers, ReaderAction(g) PROVE Shapes'
  <2>1. CASE OpenFile(g)
    BY <2>1 DEF OpenFile
  <2>2. CASE DropGuard(g)
    <3>1. refs' \in [Uploads -> Nat]
      BY <2>2 DEF DropGuard, Registered
    <3>2. reader' \in [Readers -> [phase : {"idle", "opening", "open"},
                                  file : Uploads \cup {NoFile}]]
      BY <2>2 DEF DropGuard
    <3>. QED BY <2>2, <3>1, <3>2 DEF DropGuard
  <2>3. ASSUME NEW u \in Uploads, TakeGuard(g, u) PROVE Shapes'
    BY <2>3 DEF TakeGuard
  <2> QED BY ONLY <1>1, <2>1, <2>2, <2>3 DEF ReaderAction
<1>2. ASSUME NEW d \in Deleters, DeleterAction(d) PROVE Shapes'
  <2>1. CASE RemoveUnreferenced(d)
    <3>1. files' \in [Uploads -> {"none", "registered", "removed"}]
      BY <2>1 DEF RemoveUnreferenced
    <3>2. deleter' \in [Deleters -> [phase : {"idle", "checked", "unlink", "refused", "done"},
                                    file : Uploads \cup {NoFile}]]
      BY <2>1 DEF RemoveUnreferenced
    <3>. QED BY <2>1, <3>1, <3>2 DEF RemoveUnreferenced
  <2>2. CASE UnlinkDeleted(d)
    BY <2>2 DEF UnlinkDeleted
  <2>3. ASSUME NEW u \in Uploads, CheckExists(d, u) PROVE Shapes'
    BY <2>3 DEF CheckExists
  <2> QED BY ONLY <1>2, <2>1, <2>2, <2>3 DEF DeleterAction
<1>3. ASSUME NEW t \in Tickets, TicketAction(t) PROVE Shapes'
  BY <1>3 DEF TicketAction, IssueTicket, ExpireTicket
<1>4. CASE SweepRecords
  <2>1. files' \in [Uploads -> {"none", "registered", "removed"}]
    BY <1>4 DEF SweepRecords
  <2>2. {Pdf(u) : u \in {v \in Uploads : Stale(v)}} \subseteq Paths
    OBVIOUS
  <2>. QED BY <1>4, <2>1, <2>2 DEF SweepRecords
<1>5. CASE SnapshotDirectory
  BY <1>5 DEF SnapshotDirectory, Registered
<1>6. ASSUME NEW p \in Paths, VisitEntry(p) PROVE Shapes'
  BY <1>6 DEF VisitEntry
<1>7. CASE EndSweep
  BY <1>7 DEF EndSweep, Asleep
<1>8. CASE Tick
  <2>1. upload' \in [Uploads -> UploadRecord]
    <3>. SUFFICES ASSUME NEW u \in Uploads PROVE upload'[u] \in UploadRecord
      BY <1>8 DEF Tick
    <3>1. PICK e : e = IF upload[u].phase \in Active
                       THEN upload[u].elapsed + 1 ELSE upload[u].elapsed
      OBVIOUS
    <3>2. PICK c : c = IF upload[u].phase = "converting"
                       THEN upload[u].converting + 1 ELSE upload[u].converting
      OBVIOUS
    <3>3. /\ upload[u].phase \in Active => upload[u].elapsed # RequestTimeout
          /\ upload[u].phase = "converting" => upload[u].converting # ConversionTimeout
      BY <1>8 DEF Tick, TimeIsUp
    <3>6. /\ upload[u].elapsed \in 0..RequestTimeout
          /\ upload[u].converting \in 0..ConversionTimeout
      BY DEF UploadRecord
    <3>4. e \in 0..RequestTimeout /\ c \in 0..ConversionTimeout
      BY ONLY <3>1, <3>2, <3>3, <3>6, Numbers
    <3>5. upload'[u] = [upload[u] EXCEPT !.elapsed = e, !.converting = c]
      BY <1>8, <3>1, <3>2 DEF Tick
    <3>7. upload[u] \in UploadRecord
      OBVIOUS
    <3>. QED BY ONLY <3>4, <3>5, <3>7 DEF UploadRecord
  <2>2. mtime' \in [Paths -> 0..TempTtl]
    <3>1. mtime' = [p \in Paths |-> IF p \in disk THEN Aged(mtime[p]) ELSE 0]
      BY <1>8 DEF Tick
    <3>2. \A p \in Paths : mtime[p] \in 0..TempTtl
      OBVIOUS
    <3>. QED BY <3>1, <3>2, AgedBound
  <2>3. age' \in [Uploads -> 0..TempTtl]
    <3>1. age' = [u \in Uploads |-> IF u \in Registered THEN Aged(age[u]) ELSE 0]
      BY <1>8 DEF Tick
    <3>2. \A u \in Uploads : age[u] \in 0..TempTtl
      OBVIOUS
    <3>. QED BY <3>1, <3>2, AgedBound
  <2> QED BY <2>3, <2>1, <2>2, <1>8 DEF Tick
<1> QED BY <1>1, <1>2, <1>3, <1>4, <1>5, <1>6, <1>7, <1>8 DEF OtherAction, Sweep

-----------------------------------------------------------------------------
(* What each kind of step leaves alone.                                    *)

\* A step of one upload touches its own phase, paths and record.
LEMMA UploadEffect ==
    ASSUME Shapes, NEW u \in Uploads, UploadAction(u)
    PROVE  /\ UNCHANGED <<refs, reader, deleter, sweep>>
           /\ \A v \in Uploads \ {u} : upload'[v] = upload[v] /\ files'[v] = files[v]
           /\ \A q \in Paths \ OwnPaths(u) : (q \in disk' <=> q \in disk) /\ mtime'[q] = mtime[q]
<1>. USE Numbers, OwnPathsTyped DEF Shapes, othersVars, storeVars
<1>0. /\ {"queued", "creating", "writing", "draining", "slot", "converting", "checking",
          "tidying", "registering"} \subseteq Active
      /\ OwnPaths(u) = {Source(u), Pdf(u)}
  BY DEF Active, Working, Receiving, OwnPaths
<1>. DEFINE Effect == /\ UNCHANGED <<refs, reader, deleter, sweep>>
                      /\ \A v \in Uploads \ {u} : upload'[v] = upload[v] /\ files'[v] = files[v]
                      /\ \A q \in Paths \ OwnPaths(u) :
                            (q \in disk' <=> q \in disk) /\ mtime'[q] = mtime[q]
<1>1. ASSUME NEW t \in Tickets \cup {NoTicket}, StartUpload(u, t) PROVE Effect
  BY <1>0, <1>1 DEF StartUpload
<1>2. CASE AcquireUploadSlot(u)
  BY <1>0, <1>2, GotoFacts, EndFacts DEF AcquireUploadSlot
<1>3. CASE CreateSource(u)
  BY <1>0, <1>3, GotoFacts, WriteFacts DEF CreateSource
<1>4. CASE FinishWriting(u)
  BY <1>0, <1>4, GotoFacts DEF FinishWriting
<1>5. CASE FinishDraining(u)
  BY <1>0, <1>5, GotoFacts DEF FinishDraining
<1>6. CASE AcquireConversionSlot(u)
  BY <1>0, <1>6, GotoFacts DEF AcquireConversionSlot
<1>7. CASE SofficeWrites(u)
  BY <1>0, <1>7, WriteFacts DEF SofficeWrites
<1>8. CASE FinishConversion(u)
  BY <1>0, <1>8, GotoFacts DEF FinishConversion
<1>9. CASE TidySource(u)
  BY <1>0, <1>9, GotoFacts DEF TidySource
<1>10. CASE CheckMagic(u)
  BY <1>0, <1>10, GotoFacts DEF CheckMagic
<1>11. CASE Register(u)
  BY <1>0, <1>11, EndFacts DEF Register
<1>12. CASE WriteChunk(u)
  BY <1>0, <1>12 DEF WriteChunk
<1>13. CASE Fail(u)
  BY <1>0, <1>13, EndFacts DEF Fail
<1>14. CASE DropUpload(u)
  BY <1>0, <1>14, EndFacts DEF DropUpload, Leftover
<1>. QED
  BY ONLY UploadAction(u), <1>1, <1>2, <1>3, <1>4, <1>5, <1>6, <1>7, <1>8, <1>9, <1>10, <1>11,
     <1>12, <1>13, <1>14
  DEF UploadAction, UploadStep, RequestTimesOut, ClientLeaves, Effect

\* Only uploads and the clock change where an upload is; only a registration, a
\* deletion and the retention change the records.
LEMMA OthersEffect ==
    ASSUME Shapes,
           OtherAction
    PROVE  UNCHANGED <<upload, mtime>>
BY DEF OtherAction, ReaderAction, OpenFile, DropGuard, TakeGuard, DeleterAction, RemoveUnreferenced,
       UnlinkDeleted, CheckExists, TicketAction, IssueTicket, ExpireTicket, Sweep,
       SweepRecords, SnapshotDirectory, VisitEntry, EndSweep

LEMMA TickEffect ==
    ASSUME Shapes, Tick
    PROVE  /\ UNCHANGED <<disk, files, refs, reader, deleter, tickets>>
           /\ sweep.phase \in {"asleep", "due"} /\ sweep'.phase = "due"
           /\ \A u \in Uploads :
                 /\ upload'[u].phase = upload[u].phase
                 /\ upload'[u].ticket = upload[u].ticket
                 /\ upload[u].phase \in Active => upload'[u].elapsed = upload[u].elapsed + 1
           /\ \A p \in Paths : p \in disk => mtime'[p] <= mtime[p] + 1
<1>1. ASSUME NEW u \in Uploads
      PROVE  /\ upload'[u].phase = upload[u].phase
             /\ upload'[u].ticket = upload[u].ticket
             /\ upload[u].phase \in Active => upload'[u].elapsed = upload[u].elapsed + 1
  <2>1. upload[u] \in UploadRecord
    BY DEF Shapes
  <2>2. PICK c : c = IF upload[u].phase = "converting"
                     THEN upload[u].converting + 1 ELSE upload[u].converting
    OBVIOUS
  <2>3. PICK e : e = IF upload[u].phase \in Active
                     THEN upload[u].elapsed + 1 ELSE upload[u].elapsed
    OBVIOUS
  <2>4. upload'[u] = [upload[u] EXCEPT !.elapsed = e, !.converting = c]
    BY <2>2, <2>3 DEF Tick
  <2>. QED BY ONLY <2>1, <2>3, <2>4 DEF UploadRecord
<1>2. ASSUME NEW p \in Paths, p \in disk PROVE mtime'[p] <= mtime[p] + 1
  <2>1. mtime'[p] = Aged(mtime[p]) /\ mtime[p] \in 0..TempTtl
    BY <1>2 DEF Tick, Shapes
  <2>. QED BY <2>1, AgedBound
<1>3. sweep'.phase = "due"
  BY DEF Tick, Shapes
<1>. QED BY <1>1, <1>2, <1>3 DEF Tick

-----------------------------------------------------------------------------
(* Accounting: records, guards, references, tickets.                       *)
LEMMA AccountsInit == Init => Accounts
<1>. SUFFICES ASSUME Init PROVE Accounts
  OBVIOUS
<1>1. RecordsAfterUploads /\ TicketsUsedUp /\ TicketCreatesOneFile
  BY DEF Init, RecordsAfterUploads, TicketsUsedUp, TicketCreatesOneFile, Admitted,
         Working, Receiving
<1>2. GuardsOnRegistered
  BY DEF Init, GuardsOnRegistered
<1>3. ASSUME NEW u \in Uploads PROVE IsFiniteSet(Holders(u)) /\ refs[u] = Cardinality(Holders(u))
  <2>1. Holders(u) = {}
    BY TempFilesAssumption DEF Init, Holders
  <2>. QED BY <2>1, FS_EmptySet DEF Init
<1>. QED BY <1>1, <1>2, <1>3, ShapesInit DEF Accounts, References

\* A record is only ever made of the upload that registers, whose phase says so;
\* a finished upload takes no step.
LEMMA RegisterFacts ==
    ASSUME Shapes, RecordsAfterUploads, NEW u \in Uploads, UploadAction(u)
    PROVE  /\ upload[u].phase # "done" /\ files[u] = "none"
           /\ files'[u] # "none" => /\ Register(u)
                                    /\ upload[u].phase = "registering" /\ upload'[u].phase = "done"
                                    /\ files'[u] = "registered"
<1>. USE DEF Shapes
<1>0. upload[u].phase # "done"
  BY DEF UploadAction, UploadStep, StartUpload, AcquireUploadSlot, CreateSource, FinishWriting,
         FinishDraining, AcquireConversionSlot, SofficeWrites, FinishConversion, TidySource,
         CheckMagic, Register, WriteChunk, Fail, RequestTimesOut, ClientLeaves, DropUpload,
         Active, Working, Receiving
<1>1. files[u] = "none"
  BY <1>0 DEF RecordsAfterUploads
<1>2. CASE Register(u)
  BY <1>0, <1>1, <1>2, EndFacts DEF Register
<1>3. CASE ~Register(u)
  BY <1>0, <1>1, <1>3 DEF UploadAction, UploadStep, StartUpload, AcquireUploadSlot, CreateSource,
         FinishWriting, FinishDraining, AcquireConversionSlot, SofficeWrites, FinishConversion,
         TidySource, CheckMagic, WriteChunk, Fail, RequestTimesOut, ClientLeaves, DropUpload,
         othersVars, storeVars
<1>. QED BY <1>0, <1>1, <1>2, <1>3

\* The other steps that touch the records: a deletion and the retention remove
\* the registered ones that nobody holds.
LEMMA RemovalFacts ==
    ASSUME Shapes, References,
           OtherAction,
           NEW u \in Uploads
    PROVE  \/ files'[u] = files[u]
           \/ /\ files[u] = "registered" /\ files'[u] = "removed"
              /\ Holders(u) = {} /\ UNCHANGED reader
<1>. USE DEF Shapes, storeVars, othersVars
<1>1. refs[u] = 0 => Holders(u) = {}
  BY FS_EmptySet DEF References
<1>2. ASSUME NEW g \in Readers, ReaderAction(g) PROVE files'[u] = files[u]
  BY <1>2 DEF ReaderAction, OpenFile, DropGuard, TakeGuard
<1>3. ASSUME NEW d \in Deleters, DeleterAction(d)
      PROVE  \/ files'[u] = files[u]
             \/ /\ files[u] = "registered" /\ files'[u] = "removed"
                /\ refs[u] = 0 /\ UNCHANGED reader
  BY <1>3 DEF DeleterAction, RemoveUnreferenced, UnlinkDeleted, CheckExists, Registered
<1>4. ASSUME NEW t \in Tickets, TicketAction(t) PROVE files'[u] = files[u]
  BY <1>4 DEF TicketAction, IssueTicket, ExpireTicket
<1>5. CASE Sweep
  BY <1>1, <1>5 DEF Sweep, SweepRecords, SnapshotDirectory, VisitEntry, EndSweep, Stale, Registered
<1>. QED BY <1>1, <1>2, <1>3, <1>4, <1>5 DEF OtherAction

LEMMA RecordsStep ==
    ASSUME Accounts, Next
    PROVE  RecordsAfterUploads'
<1>. SUFFICES ASSUME NEW v \in Uploads, files'[v] # "none"
              PROVE  upload'[v].phase = "done"
  BY DEF RecordsAfterUploads
<1>. USE DEF Accounts
<1>1. ASSUME NEW u \in Uploads, UploadAction(u) PROVE upload'[v].phase = "done"
  BY <1>1, UploadEffect, RegisterFacts DEF RecordsAfterUploads
<1>2. CASE Tick
  BY <1>2, TickEffect DEF RecordsAfterUploads
<1>. QED BY <1>1, <1>2, Steps, OthersEffect, RemovalFacts DEF RecordsAfterUploads

\* Taking and dropping a guard are the only steps that change who holds what.
LEMMA HoldersChange ==
    ASSUME Accounts, Next
    PROVE  \/ UNCHANGED refs /\ \A g \in Readers : /\ reader'[g].file = reader[g].file
                                                   /\ reader'[g].phase = "idle" <=> reader[g].phase = "idle"
           \/ \E g \in Readers : DropGuard(g)
           \/ \E g \in Readers, u \in Uploads : TakeGuard(g, u)
<1>. USE DEF Accounts, Shapes, storeVars, othersVars
<1>. DEFINE Same == UNCHANGED refs /\ \A g \in Readers : /\ reader'[g].file = reader[g].file
                                                         /\ reader'[g].phase = "idle" <=> reader[g].phase = "idle"
<1>1. ASSUME NEW u \in Uploads, UploadAction(u) PROVE Same
  BY <1>1, UploadEffect
<1>2. ASSUME NEW g \in Readers, OpenFile(g) PROVE Same
  BY <1>2 DEF OpenFile
<1>3. ASSUME NEW d \in Deleters, DeleterAction(d) PROVE Same
  BY <1>3 DEF DeleterAction, RemoveUnreferenced, UnlinkDeleted, CheckExists
<1>4. ASSUME NEW t \in Tickets, TicketAction(t) PROVE Same
  BY <1>4 DEF TicketAction, IssueTicket, ExpireTicket
<1>5. CASE Sweep
  BY <1>5 DEF Sweep, SweepRecords, SnapshotDirectory, VisitEntry, EndSweep
<1>6. CASE Tick
  BY <1>6, TickEffect
<1>. QED BY <1>1, <1>2, <1>3, <1>4, <1>5, <1>6, Steps DEF OtherAction, ReaderAction

LEMMA TakeGuardFacts ==
    ASSUME Shapes, NEW g \in Readers, NEW u \in Uploads, TakeGuard(g, u)
    PROVE  /\ reader[g].phase = "idle" /\ u \in Registered /\ UNCHANGED files
           /\ reader'[g].phase = "opening" /\ reader'[g].file = u
           /\ \A h \in Readers \ {g} : reader'[h] = reader[h]
           /\ refs'[u] = refs[u] + 1
           /\ \A v \in Uploads \ {u} : refs'[v] = refs[v]
BY DEF Shapes, TakeGuard

LEMMA DropGuardFacts ==
    ASSUME Accounts, NEW g \in Readers, DropGuard(g)
    PROVE  /\ reader[g].phase # "idle" /\ reader[g].file \in Registered /\ UNCHANGED files
           /\ reader'[g].phase = "idle" /\ reader'[g].file = NoFile
           /\ \A h \in Readers \ {g} : reader'[h] = reader[h]
           /\ refs'[reader[g].file] = refs[reader[g].file] - 1
           /\ \A v \in Uploads \ {reader[g].file} : refs'[v] = refs[v]
<1>. DEFINE u == reader[g].file
<1>1. reader[g].phase # "idle" /\ u \in Registered /\ u \in Uploads
  BY DEF DropGuard, Accounts, Shapes, GuardsOnRegistered, Registered
<1>2. g \in Holders(u) /\ IsFiniteSet(Holders(u)) /\ refs[u] = Cardinality(Holders(u))
  BY <1>1 DEF Holders, Accounts, References
<1>3. refs[u] # 0
  BY <1>2, FS_EmptySet
<1>4. refs' = [refs EXCEPT ![u] = @ - 1]
  BY <1>1, <1>3 DEF DropGuard, Accounts, Shapes
<1>. QED BY <1>1, <1>4 DEF DropGuard, Accounts, Shapes

LEMMA ReferencesStep ==
    ASSUME Accounts, Next
    PROVE  References'
<1>. SUFFICES ASSUME NEW v \in Uploads
              PROVE  IsFiniteSet(Holders(v)') /\ refs'[v] = Cardinality(Holders(v)')
  BY DEF References
<1>0. IsFiniteSet(Holders(v)) /\ refs[v] = Cardinality(Holders(v))
  BY DEF Accounts, References
<1>1. CASE UNCHANGED refs /\ \A g \in Readers : reader'[g].file = reader[g].file
  <2>1. Holders(v)' = Holders(v)
    BY <1>1 DEF Holders
  <2>. QED BY <1>0, <1>1, <2>1
<1>2. ASSUME NEW g \in Readers, DropGuard(g)
      PROVE  IsFiniteSet(Holders(v)') /\ refs'[v] = Cardinality(Holders(v)')
  <2>1. CASE v = reader[g].file
    <3>1. g \in Holders(v) /\ Holders(v)' = Holders(v) \ {g}
      BY <1>2, <2>1, TempFilesAssumption, DropGuardFacts DEF Holders
    <3>2. refs'[v] = refs[v] - 1
      BY <1>2, <2>1, DropGuardFacts DEF Registered
    <3>. QED BY <1>0, <3>1, <3>2, FS_RemoveElement
  <2>2. CASE v # reader[g].file
    <3>1. Holders(v)' = Holders(v)
      BY <1>2, <2>2, TempFilesAssumption, DropGuardFacts DEF Holders
    <3>. QED BY <1>0, <1>2, <2>2, <3>1, DropGuardFacts
  <2>. QED BY <2>1, <2>2
<1>3. ASSUME NEW g \in Readers, NEW u \in Uploads, TakeGuard(g, u)
      PROVE  IsFiniteSet(Holders(v)') /\ refs'[v] = Cardinality(Holders(v)')
  <2>0. reader[g].file = NoFile /\ NoFile \notin Uploads
    BY <1>3, TempFilesAssumption, TakeGuardFacts DEF Accounts, GuardsOnRegistered
  <2>1. CASE v = u
    <3>1. g \notin Holders(v) /\ Holders(v)' = Holders(v) \cup {g}
      BY <1>3, <2>0, <2>1, TakeGuardFacts DEF Accounts, Holders
    <3>2. refs'[v] = refs[v] + 1
      BY <1>3, <2>1, TakeGuardFacts DEF Accounts
    <3>. QED BY <1>0, <3>1, <3>2, FS_AddElement
  <2>2. CASE v # u
    <3>1. Holders(v)' = Holders(v)
      BY <1>3, <2>0, <2>2, TakeGuardFacts DEF Accounts, Holders
    <3>. QED BY <1>0, <1>3, <2>2, <3>1, TakeGuardFacts DEF Accounts
  <2>. QED BY <2>1, <2>2
<1>. QED BY <1>1, <1>2, <1>3, HoldersChange

LEMMA GuardsStep ==
    ASSUME Accounts, Next
    PROVE  GuardsOnRegistered'
<1>. SUFFICES ASSUME NEW h \in Readers
              PROVE  /\ reader'[h].phase = "idle" <=> reader'[h].file = NoFile
                     /\ reader'[h].file # NoFile => reader'[h].file \in Registered'
  BY DEF GuardsOnRegistered
<1>0. /\ reader[h].phase = "idle" <=> reader[h].file = NoFile
      /\ reader[h].file # NoFile => /\ reader[h].file \in Registered
                                    /\ h \in Holders(reader[h].file)
  BY DEF Accounts, GuardsOnRegistered, Holders
<1>1. ASSUME NEW g \in Readers, DropGuard(g)
      PROVE  /\ reader'[h].phase = "idle" <=> reader'[h].file = NoFile
             /\ reader'[h].file # NoFile => reader'[h].file \in Registered'
  BY <1>0, <1>1, DropGuardFacts DEF Registered
<1>2. ASSUME NEW g \in Readers, NEW u \in Uploads, TakeGuard(g, u)
      PROVE  /\ reader'[h].phase = "idle" <=> reader'[h].file = NoFile
             /\ reader'[h].file # NoFile => reader'[h].file \in Registered'
  BY <1>0, <1>2, TempFilesAssumption, TakeGuardFacts DEF Accounts, Registered
<1>3. CASE \A g \in Readers : /\ reader'[g].file = reader[g].file
                              /\ reader'[g].phase = "idle" <=> reader[g].phase = "idle"
  <2>. SUFFICES ASSUME reader[h].file # NoFile PROVE reader[h].file \in Registered'
    BY <1>0, <1>3
  <2>. DEFINE v == reader[h].file
  <2>1. v \in Uploads /\ files[v] = "registered" /\ Holders(v) # {}
    BY <1>0 DEF Registered
  <2>2. files'[v] = "registered"
    <3>1. ASSUME NEW u \in Uploads, UploadAction(u) PROVE files'[v] = "registered"
      BY <2>1, <3>1, UploadEffect, RegisterFacts DEF Accounts
    <3>2. CASE Tick
      BY <2>1, <3>2, TickEffect DEF Accounts
    <3>. QED BY <2>1, <3>1, <3>2, Steps, RemovalFacts DEF Accounts
  <2>. QED BY <2>1, <2>2 DEF Registered
<1>. QED BY <1>1, <1>2, <1>3, HoldersChange

\* An upload gets past the slot with a valid ticket, which is then used up.
LEMMA AdmissionFacts ==
    ASSUME Accounts, NEW u \in Uploads, UploadAction(u)
    PROVE  /\ \A t \in Tickets : tickets[t] = "redeemed" => tickets'[t] = "redeemed"
           /\ Kind[u] = "ticket" /\ upload'[u].phase # "idle" => upload'[u].ticket \in Tickets
           /\ Admitted(u)' =>
                 /\ upload'[u].ticket = upload[u].ticket
                 /\ \/ Admitted(u)
                    \/ /\ tickets[upload[u].ticket] = "valid"
                       /\ tickets'[upload[u].ticket] = "redeemed"
<1>. USE DEF Accounts
<1>0. /\ {"queued", "creating", "writing", "draining", "slot", "converting", "checking",
          "tidying", "registering"} \subseteq Active
      /\ Working = {"creating", "writing", "draining", "slot", "converting", "checking",
                    "tidying", "registering"}
      /\ upload \in [Uploads -> UploadRecord] /\ NoTicket \notin Tickets
      /\ upload[u].phase # "idle" /\ Kind[u] = "ticket" => upload[u].ticket \in Tickets
  BY TempFilesAssumption DEF Active, Working, Receiving, Shapes, TicketsUsedUp
<1>1. /\ files[u] = "none"
      /\ files'[u] # "none" => /\ upload[u].phase = "registering" /\ upload'[u].phase = "done"
                               /\ files'[u] = "registered"
  BY RegisterFacts
<1>2. ASSUME NEW t \in Tickets \cup {NoTicket}, StartUpload(u, t)
      PROVE  /\ UNCHANGED <<tickets, files>> /\ upload'[u].phase = "queued"
             /\ Kind[u] = "ticket" => upload'[u].ticket \in Tickets
  <2>1. upload[u] \in UploadRecord /\ upload[u].phase = "idle"
    BY <1>0, <1>2 DEF StartUpload
  <2>2. upload'[u] = [[upload[u] EXCEPT !.phase = "queued"] EXCEPT !.ticket = t]
    BY <1>0, <1>2 DEF StartUpload
  <2>3. upload'[u].phase = "queued" /\ upload'[u].ticket = t
    BY ONLY <2>1, <2>2 DEF UploadRecord
  <2>. QED BY <1>2, <2>3 DEF StartUpload, othersVars, storeVars
<1>3. CASE AcquireUploadSlot(u)
  <2>. DEFINE t == upload[u].ticket
  <2>1. upload[u].phase = "queued" /\ UNCHANGED files
    BY <1>3 DEF AcquireUploadSlot, othersVars, storeVars
  <2>2. /\ upload'[u].ticket = t
        /\ t \in Tickets /\ tickets[t] # "valid" => upload'[u].phase = "done"
    BY <1>0, <1>3, GotoFacts, EndFacts DEF AcquireUploadSlot
  <2>3. /\ \A s \in Tickets : tickets[s] = "redeemed" => tickets'[s] = "redeemed"
        /\ t \in Tickets /\ tickets[t] = "valid" => tickets'[t] = "redeemed"
    BY <1>0, <1>3 DEF AcquireUploadSlot, Redeemed, Shapes
  <2>. QED BY <1>0, <1>1, <2>1, <2>2, <2>3 DEF Admitted
<1>4. CASE Register(u) \/ Fail(u) \/ DropUpload(u)
  <2>1. UNCHANGED tickets /\ End(u) /\ upload[u].phase \in Active
    BY <1>0, <1>4 DEF Register, Fail, DropUpload, othersVars, storeVars
  <2>2. upload'[u].phase = "done" /\ upload'[u].ticket = upload[u].ticket /\ upload[u].phase # "idle"
    BY <1>0, <2>1, EndFacts DEF Active, Working, Receiving
  <2>. QED BY <1>0, <1>1, <2>1, <2>2 DEF Admitted
<1>5. CASE \/ CreateSource(u) \/ FinishWriting(u) \/ FinishDraining(u) \/ AcquireConversionSlot(u)
           \/ FinishConversion(u) \/ TidySource(u) \/ CheckMagic(u)
  <2>1. UNCHANGED <<tickets, files>> /\ upload[u].phase \in Working
    BY <1>0, <1>5 DEF CreateSource, FinishWriting, FinishDraining, AcquireConversionSlot,
           FinishConversion, TidySource, CheckMagic, othersVars, storeVars
  <2>2. upload'[u].ticket = upload[u].ticket
    BY <1>0, <1>5, GotoFacts DEF CreateSource, FinishWriting, FinishDraining,
           AcquireConversionSlot, FinishConversion, TidySource, CheckMagic
  <2>. QED BY <1>0, <2>1, <2>2 DEF Admitted
<1>6. CASE SofficeWrites(u) \/ WriteChunk(u)
  BY <1>0, <1>6 DEF SofficeWrites, WriteChunk, othersVars, storeVars, Admitted
<1>7. ASSUME NEW t \in Tickets \cup {NoTicket}, StartUpload(u, t)
      PROVE  /\ UNCHANGED tickets /\ ~Admitted(u)'
             /\ Kind[u] = "ticket" => upload'[u].ticket \in Tickets
  BY <1>0, <1>1, <1>2, <1>7 DEF Admitted
<1>. QED
  BY <1>3, <1>4, <1>5, <1>6, <1>7
  DEF UploadAction, UploadStep, RequestTimesOut, ClientLeaves

\* No other step takes a ticket back into play or admits an upload.
LEMMA NoAdmission ==
    ASSUME Accounts, Next, NEW v \in Uploads, ~UploadAction(v)
    PROVE  /\ \A t \in Tickets : tickets[t] = "redeemed" => tickets'[t] = "redeemed"
           /\ upload'[v].phase = upload[v].phase /\ upload'[v].ticket = upload[v].ticket
           /\ files'[v] # "none" => files[v] # "none"
<1>. USE DEF Accounts
<1>1. ASSUME NEW u \in Uploads, UploadAction(u)
      PROVE  /\ \A t \in Tickets : tickets[t] = "redeemed" => tickets'[t] = "redeemed"
             /\ upload'[v] = upload[v] /\ files'[v] = files[v]
  BY <1>1, UploadEffect, AdmissionFacts
<1>2. CASE Tick
  BY <1>2, TickEffect
<1>3. CASE OtherAction
  <2>1. \A t \in Tickets : tickets[t] = "redeemed" => tickets'[t] = "redeemed"
    BY <1>3 DEF OtherAction, ReaderAction, OpenFile, DropGuard, TakeGuard, DeleterAction, RemoveUnreferenced,
           UnlinkDeleted, CheckExists, TicketAction, IssueTicket, ExpireTicket, Sweep,
           SweepRecords, SnapshotDirectory, VisitEntry, EndSweep, Shapes
  <2>. QED BY <1>3, <2>1, OthersEffect, RemovalFacts
<1>. QED BY <1>1, <1>2, <1>3, Steps

LEMMA TicketsStep ==
    ASSUME Accounts, Next
    PROVE  TicketsUsedUp' /\ TicketCreatesOneFile'
<1>1. ASSUME NEW v \in Uploads
      PROVE  /\ Kind[v] = "ticket" /\ upload'[v].phase # "idle" => upload'[v].ticket \in Tickets
             /\ Admitted(v)' => /\ tickets'[upload'[v].ticket] = "redeemed"
                                /\ upload'[v].ticket = upload[v].ticket
             /\ Admitted(v)' /\ ~Admitted(v) => UploadAction(v) /\ tickets[upload[v].ticket] = "valid"
  <2>0. /\ Kind[v] = "ticket" /\ upload[v].phase # "idle" => upload[v].ticket \in Tickets
        /\ Admitted(v) => tickets[upload[v].ticket] = "redeemed"
        /\ Admitted(v) => Kind[v] = "ticket" /\ upload[v].phase # "idle"
    BY DEF Accounts, TicketsUsedUp, Admitted, RecordsAfterUploads, Working, Receiving
  <2>1. CASE UploadAction(v)
    BY <2>0, <2>1, AdmissionFacts
  <2>2. CASE ~UploadAction(v)
    BY <2>0, <2>2, NoAdmission DEF Admitted
  <2>. QED BY <2>1, <2>2
<1>2. ASSUME NEW u \in Uploads, NEW v \in Uploads, Admitted(u)', Admitted(v)',
             upload'[u].ticket = upload'[v].ticket, u # v
      PROVE  FALSE
  <2>1. upload[u].ticket = upload[v].ticket
    BY <1>1, <1>2
  <2>2. \A w \in Uploads : Admitted(w) => tickets[upload[w].ticket] = "redeemed"
    BY DEF Accounts, TicketsUsedUp
  <2>3. ~(Admitted(u) /\ Admitted(v))
    BY <1>2, <2>1 DEF Accounts, TicketCreatesOneFile, Admitted
  <2>4. ~(UploadAction(u) /\ UploadAction(v) /\ ~Admitted(u) /\ ~Admitted(v))
    BY <1>1, <1>2, UploadEffect DEF Accounts, Admitted
  <2>. QED BY <1>1, <1>2, <2>1, <2>2, <2>3, <2>4
<1>. QED BY <1>1, <1>2 DEF TicketsUsedUp, TicketCreatesOneFile, Admitted

LEMMA AccountsStep ==
    ASSUME Accounts, [Next]_vars
    PROVE  Accounts'
<1>1. CASE Next
  BY <1>1, Steps, ShapesUpload, ShapesOthers, RecordsStep, GuardsStep, ReferencesStep, TicketsStep
  DEF Accounts
<1>2. CASE UNCHANGED vars
  <2>1. \A u \in Uploads : Holders(u)' = Holders(u)
    BY <1>2 DEF vars, Holders
  <2>2. References'
    BY <1>2, <2>1 DEF vars, Accounts, References
  <2>. QED
    BY <1>2, <2>2 DEF vars, Accounts, Shapes, RecordsAfterUploads, GuardsOnRegistered,
       TicketsUsedUp, TicketCreatesOneFile, Admitted, Registered
<1>. QED BY <1>1, <1>2

\* The accounts balance in every reachable state, whatever the timeouts.
THEOREM AccountsCorrect == Spec => []Accounts
BY AccountsInit, AccountsStep, PTL DEF Spec

-----------------------------------------------------------------------------
(* Files stay on disk.                                                     *)

\* The clauses of Stays about one upload.
WellKept(u) ==
    /\ upload[u].phase \in {"slot", "converting", "tidying"} => Kind[u] = "doc"
    /\ upload[u].phase = "checking" => Kind[u] # "doc"
    /\ upload[u].phase \in {"idle", "queued", "creating"} => OwnPaths(u) \cap disk = {}
    /\ upload[u].phase # "done" =>
          \A p \in OwnPaths(u) : p \in disk => mtime[p] <= upload[u].elapsed
    /\ upload[u].phase \in {"writing", "draining", "slot", "converting", "checking"}
          => Source(u) \in disk
    /\ upload[u].phase \in {"tidying", "registering"} => Pdf(u) \in disk
    /\ files[u] = "registered" => Pdf(u) \in disk

LEMMA KeptIsWellKept ==
    (\A u \in Uploads : WellKept(u)) <=> PhasesFit /\ Fresh /\ WorkNotSwept /\ RegisteredOnDisk
BY DEF WellKept, PhasesFit, Fresh, WorkNotSwept, RegisteredOnDisk, Registered

LEMMA WellKeptOwn ==
    ASSUME Accounts, NEW u \in Uploads, WellKept(u), UploadAction(u)
    PROVE  WellKept(u)'
<1>0. /\ {"queued", "creating", "writing", "draining", "slot", "converting", "checking",
          "tidying", "registering"} \subseteq Active
      /\ Working = {"creating", "writing", "draining", "slot", "converting", "checking",
                    "tidying", "registering"}
      /\ upload \in [Uploads -> UploadRecord] /\ disk \subseteq Paths
      /\ mtime \in [Paths -> 0..TempTtl]
      /\ upload[u].elapsed \in Nat
      /\ OwnPaths(u) = {Source(u), Pdf(u)} /\ Source(u) \in Paths /\ Pdf(u) \in Paths
      /\ Kind[u] # "doc" => Pdf(u) = Source(u)
      /\ Kind[u] = "doc" => Pdf(u) # Source(u)
      /\ Kind[u] = "ticket" => Kind[u] # "doc"
  BY Numbers, OwnPathsTyped, TempFilesAssumption DEF Active, Working, Receiving, Accounts, Shapes, UploadRecord,
     OwnPaths, Pdf, Source
<1>1. /\ upload[u].phase # "done" /\ files[u] = "none"
      /\ files'[u] # "none" => files'[u] = "registered" /\ upload'[u].phase = "done"
  BY RegisterFacts DEF Accounts
<1>. USE <1>0, <1>1 DEF WellKept, othersVars, storeVars
<1>2. ASSUME NEW t \in Tickets \cup {NoTicket}, StartUpload(u, t) PROVE WellKept(u)'
  <2>1. upload[u] \in UploadRecord /\ upload[u].phase = "idle"
    BY <1>2 DEF StartUpload
  <2>2. upload'[u] = [[upload[u] EXCEPT !.phase = "queued"] EXCEPT !.ticket = t]
    BY <1>2 DEF StartUpload
  <2>3. upload'[u].phase = "queued" /\ upload'[u].elapsed = upload[u].elapsed
    BY ONLY <2>1, <2>2 DEF UploadRecord
  <2>. QED BY <1>2, <2>1, <2>3 DEF StartUpload
<1>3. CASE AcquireUploadSlot(u)
  <2>1. UNCHANGED <<disk, mtime, files>> /\ upload[u].phase = "queued"
    BY <1>3 DEF AcquireUploadSlot
  <2>2. CASE Goto(u, "creating")
    BY <2>1, <2>2, GotoFacts
  <2>3. CASE End(u)
    BY <2>1, <2>3, EndFacts
  <2>. QED BY <1>3, <2>2, <2>3 DEF AcquireUploadSlot
<1>4. CASE CreateSource(u)
  BY <1>4, GotoFacts, WriteFacts DEF CreateSource
<1>5. CASE WriteChunk(u)
  BY <1>5, Numbers DEF WriteChunk
<1>6. CASE FinishWriting(u)
  <2>. DEFINE next == IF Kind[u] = "ticket" THEN "checking" ELSE "draining"
  <2>1. Goto(u, next) /\ next \in Active
    BY <1>6 DEF FinishWriting
  <2>. QED BY <1>6, <2>1, GotoFacts DEF FinishWriting
<1>7. CASE FinishDraining(u)
  <2>. DEFINE next == IF Kind[u] = "doc" THEN "slot" ELSE "checking"
  <2>1. Goto(u, next) /\ next \in Active
    BY <1>7 DEF FinishDraining
  <2>. QED BY <1>7, <2>1, GotoFacts DEF FinishDraining
<1>8. CASE AcquireConversionSlot(u)
  BY <1>8, GotoFacts DEF AcquireConversionSlot
<1>9. CASE SofficeWrites(u)
  BY <1>9, WriteFacts DEF SofficeWrites
<1>10. CASE FinishConversion(u)
  BY <1>10, GotoFacts DEF FinishConversion
<1>11. CASE TidySource(u)
  BY <1>11, GotoFacts DEF TidySource
<1>12. CASE CheckMagic(u)
  BY <1>12, GotoFacts DEF CheckMagic
<1>13. CASE Register(u)
  <2>1. upload'[u].phase = "done" /\ upload[u].phase = "registering"
    BY <1>13, EndFacts DEF Register
  <2>2. files'[u] = "registered" => disk' = disk
    BY <1>13 DEF Register
  <2>. QED BY <2>1, <2>2
<1>14. CASE Fail(u) \/ DropUpload(u)
  <2>1. End(u) /\ UNCHANGED files
    BY <1>14 DEF Fail, DropUpload
  <2>. QED BY <2>1, EndFacts
<1>. QED
  BY ONLY UploadAction(u), <1>2, <1>3, <1>4, <1>5, <1>6, <1>7, <1>8, <1>9, <1>10, <1>11,
     <1>12, <1>13, <1>14
  DEF UploadAction, UploadStep, RequestTimesOut, ClientLeaves

\* The configuration the defaults satisfy and nothing enforces: a request ends
\* before what it wrote is old enough to be swept.
UploadsFitRetention == RequestTimeout < TempTtl

\* What a step other than an upload's takes from the disk.
LEMMA Unlinks ==
    ASSUME Stays,
           OtherAction,
           NEW p \in disk
    PROVE  \/ p \in disk'
           \/ \E v \in Uploads : files[v] = "removed" /\ p = Pdf(v)
           \/ sweep.phase = "visit" /\ Orphan(p)
<1>. USE DEF Stays, Accounts, Shapes, storeVars, othersVars
<1>1. ASSUME NEW g \in Readers, ReaderAction(g) PROVE p \in disk'
  BY <1>1 DEF ReaderAction, OpenFile, DropGuard, TakeGuard
<1>2. ASSUME NEW d \in Deleters, DeleterAction(d)
      PROVE  p \in disk' \/ \E v \in Uploads : files[v] = "removed" /\ p = Pdf(v)
  <2>1. CASE UnlinkDeleted(d)
    BY <2>1 DEF UnlinkDeleted, UnlinksRemoved
  <2>2. CASE ~UnlinkDeleted(d)
    BY <1>2, <2>2 DEF DeleterAction, RemoveUnreferenced, CheckExists
  <2>. QED BY <2>1, <2>2
<1>3. ASSUME NEW t \in Tickets, TicketAction(t) PROVE p \in disk'
  BY <1>3 DEF TicketAction, IssueTicket, ExpireTicket
<1>4. CASE SweepRecords \/ EndSweep
  BY <1>4 DEF SweepRecords, EndSweep
<1>5. CASE SnapshotDirectory
  BY <1>5 DEF SnapshotDirectory, UnlinksRemoved
<1>6. ASSUME NEW q \in Paths, VisitEntry(q)
      PROVE  p \in disk' \/ (sweep.phase = "visit" /\ Orphan(p))
  BY <1>6 DEF VisitEntry
<1>. QED BY ONLY OtherAction, <1>1, <1>2, <1>3, <1>4, <1>5, <1>6 DEF OtherAction, Sweep

LEMMA DiskOnlyShrinks ==
    ASSUME Shapes,
           OtherAction
    PROVE  disk' \subseteq disk
BY DEF OtherAction, ReaderAction, OpenFile, DropGuard, TakeGuard, DeleterAction, RemoveUnreferenced,
       UnlinkDeleted, CheckExists, TicketAction, IssueTicket, ExpireTicket, Sweep,
       SweepRecords, SnapshotDirectory, VisitEntry, EndSweep, othersVars, storeVars

\* Neither the sweep nor a deletion reaches what an upload works on or what is
\* registered: what they unlink by name was removed, and what they unlink by age
\* is older than any upload.
LEMMA WellKeptOthers ==
    ASSUME UploadsFitRetention, Stays, NEW u \in Uploads,
           OtherAction
    PROVE  WellKept(u)'
<1>0. /\ WellKept(u) /\ Accounts /\ Shapes
      /\ UNCHANGED <<upload, mtime>> /\ disk' \subseteq disk
      /\ files'[u] = files[u] \/ files'[u] = "removed"
      /\ upload[u].elapsed \in 0..RequestTimeout
      /\ Source(u) \in OwnPaths(u) /\ Pdf(u) \in OwnPaths(u)
  BY KeptIsWellKept, OthersEffect, DiskOnlyShrinks, RemovalFacts, OwnPathsTyped
  DEF Stays, Accounts, Shapes, UploadRecord
<1>1. ASSUME NEW p \in OwnPaths(u), p \in disk,
             upload[u].phase # "done" \/ (files[u] = "registered" /\ p = Pdf(u))
      PROVE  p \in disk'
  <2>1. ASSUME NEW v \in Uploads, files[v] = "removed", p = Pdf(v) PROVE FALSE
    <3>1. v # u
      BY <1>1, <2>1 DEF Stays, Accounts, RecordsAfterUploads
    <3>. QED BY <1>1, <2>1, <3>1, OwnPathsDiffer, OwnPathsTyped
  <2>2. ASSUME sweep.phase = "visit", Orphan(p) PROVE FALSE
    <3>1. CASE upload[u].phase # "done"
      <4>1. mtime[p] <= upload[u].elapsed /\ mtime[p] >= TempTtl /\ p \in Paths
        BY <1>0, <1>1, <2>2, <3>1 DEF WellKept, Orphan, Shapes
      <4>2. mtime[p] \in 0..TempTtl
        BY <1>0, <4>1 DEF Shapes
      <4>. QED BY <1>0, <4>1, <4>2, Numbers DEF UploadsFitRetention
    <3>2. CASE files[u] = "registered" /\ p = Pdf(u)
      <4>1. p \notin sweep.keep /\ mtime[p] >= TempTtl /\ p \in Paths
        BY <1>0, <1>1, <2>2 DEF Orphan, Shapes
      <4>2. mtime[p] \in 0..TempTtl
        BY <1>0, <4>1 DEF Shapes
      <4>. QED BY <2>2, <3>2, <4>1, <4>2, Numbers DEF Stays, SweepSpares, Registered
    <3>. QED BY <1>1, <3>1, <3>2
  <2>. QED BY <1>1, <2>1, <2>2, Unlinks
<1>. QED BY ONLY <1>0, <1>1 DEF WellKept

LEMMA WellKeptStep ==
    ASSUME UploadsFitRetention, Stays, Next, NEW v \in Uploads
    PROVE  WellKept(v)'
<1>0. WellKept(v) /\ Accounts /\ Shapes
  BY KeptIsWellKept DEF Stays, Accounts
<1>1. ASSUME NEW u \in Uploads, UploadAction(u) PROVE WellKept(v)'
  <2>1. CASE u = v
    BY <1>0, <1>1, <2>1, WellKeptOwn
  <2>2. CASE u # v
    <3>1. \A p \in OwnPaths(v) : (p \in disk' <=> p \in disk) /\ mtime'[p] = mtime[p]
      <4>1. \A p \in OwnPaths(v) : p \in Paths \ OwnPaths(u)
        BY <2>2, OwnPathsDiffer, OwnPathsTyped DEF OwnPaths
      <4>. QED BY <1>0, <1>1, <4>1, UploadEffect
    <3>2. upload'[v] = upload[v] /\ files'[v] = files[v]
      BY <1>0, <1>1, <2>2, UploadEffect
    <3>3. Source(v) \in OwnPaths(v) /\ Pdf(v) \in OwnPaths(v)
      BY OwnPathsTyped
    <3>. QED BY ONLY <1>0, <3>1, <3>2, <3>3 DEF WellKept
  <2>. QED BY <2>1, <2>2
<1>2. CASE Tick
  <2>1. /\ UNCHANGED <<disk, files>>
        /\ upload'[v].phase = upload[v].phase
        /\ upload[v].phase \in Active => upload'[v].elapsed = upload[v].elapsed + 1
        /\ \A p \in OwnPaths(v) : p \in disk => mtime'[p] <= mtime[p] + 1
    BY <1>0, <1>2, TickEffect, OwnPathsTyped DEF OwnPaths
  <2>2. upload[v].phase \in Active \/ upload[v].phase \in {"idle", "done"}
    BY <1>0 DEF Shapes, UploadRecord
  <2>3. ASSUME NEW p \in OwnPaths(v), p \in disk, upload[v].phase # "done"
        PROVE  mtime'[p] <= upload'[v].elapsed
    <3>1. upload[v].phase \in Active /\ mtime[p] <= upload[v].elapsed
      BY <1>0, <2>2, <2>3 DEF WellKept
    <3>2. mtime[p] \in 0..TempTtl /\ mtime'[p] \in 0..TempTtl /\ upload[v].elapsed \in 0..RequestTimeout
      BY <1>0, <1>2, <2>3, ShapesOthers DEF Shapes, UploadRecord
    <3>. QED BY <2>1, <2>3, <3>1, <3>2, Numbers
  <2>. QED BY <1>0, <2>1, <2>3 DEF WellKept
<1>. QED BY <1>1, <1>2, Steps, WellKeptOthers

LEMMA UnlinksRemovedStep ==
    ASSUME Stays, Next
    PROVE  UnlinksRemoved'
<1>. DEFINE RemovedPdfs == {Pdf(u) : u \in {v \in Uploads : files[v] = "removed"}}
<1>0. /\ Accounts /\ Shapes
      /\ \A d \in Deleters :
            /\ deleter[d].phase # "idle" => deleter[d].file \in Uploads
            /\ deleter[d].phase = "unlink" => files[deleter[d].file] = "removed"
      /\ sweep.phase = "unlink" => sweep.paths \subseteq RemovedPdfs
  BY DEF Stays, Accounts, UnlinksRemoved
<1>1. ASSUME NEW v \in Uploads, files[v] = "removed" PROVE files'[v] = "removed"
  <2>1. ASSUME NEW u \in Uploads, UploadAction(u) PROVE files'[v] = "removed"
    BY <1>0, <1>1, <2>1, UploadEffect, RegisterFacts DEF Accounts
  <2>2. CASE Tick
    BY <1>0, <1>1, <2>2, TickEffect
  <2>. QED BY <1>0, <1>1, <2>1, <2>2, Steps, RemovalFacts DEF Accounts
<1>2. RemovedPdfs \subseteq RemovedPdfs'
  BY <1>1 DEF Pdf, Source
<1>3. \A d \in Deleters :
         /\ deleter'[d].phase # "idle" => deleter'[d].file \in Uploads
         /\ deleter'[d].phase = "unlink" => files'[deleter'[d].file] = "removed"
  <2>1. CASE UNCHANGED deleter
    BY <1>0, <1>1, <2>1
  <2>2. ASSUME NEW d \in Deleters, DeleterAction(d), NEW e \in Deleters
        PROVE  /\ deleter'[e].phase # "idle" => deleter'[e].file \in Uploads
               /\ deleter'[e].phase = "unlink" => files'[deleter'[e].file] = "removed"
    <3>1. CASE e # d
      <4>1. deleter'[e] = deleter[e]
        BY <1>0, <2>2, <3>1 DEF DeleterAction, RemoveUnreferenced, UnlinkDeleted, CheckExists, Shapes
      <4>. QED BY <1>0, <1>1, <4>1
    <3>2. CASE e = d /\ RemoveUnreferenced(d)
      BY <1>0, <3>2 DEF RemoveUnreferenced, Shapes
    <3>3. CASE e = d /\ UnlinkDeleted(d)
      BY <1>0, <3>3 DEF UnlinkDeleted, Shapes
    <3>4. ASSUME e = d, NEW u \in Uploads, CheckExists(d, u)
          PROVE  deleter'[e].phase = "checked" /\ deleter'[e].file \in Uploads
      BY <1>0, <3>4 DEF CheckExists, Shapes
    <3>. QED BY <2>2, <3>1, <3>2, <3>3, <3>4 DEF DeleterAction
  <2>3. UNCHANGED deleter \/ \E d \in Deleters : DeleterAction(d)
    BY <1>0, Steps, UploadEffect, TickEffect
    DEF OtherAction, ReaderAction, OpenFile, DropGuard, TakeGuard, TicketAction, IssueTicket, ExpireTicket,
        Sweep, SweepRecords, SnapshotDirectory, VisitEntry, EndSweep, othersVars, storeVars
  <2>. QED BY <2>1, <2>2, <2>3
<1>4. sweep'.phase = "unlink" => sweep'.paths \subseteq RemovedPdfs'
  <2>1. CASE UNCHANGED sweep
    BY <1>0, <1>2, <2>1
  <2>2. CASE SweepRecords
    <3>1. sweep'.paths = {Pdf(u) : u \in {v \in Uploads : Stale(v)}}
      BY <1>0, <2>2 DEF SweepRecords, Shapes
    <3>2. \A v \in Uploads : Stale(v) => files'[v] = "removed"
      BY <2>2 DEF SweepRecords
    <3>. QED BY <3>1, <3>2 DEF Pdf, Source
  <2>3. CASE SnapshotDirectory \/ EndSweep \/ Tick \/ \E p \in Paths : VisitEntry(p)
    <3>1. sweep'.phase # "unlink"
      BY <1>0, <2>3, TickEffect DEF SnapshotDirectory, EndSweep, VisitEntry, Asleep, Shapes
    <3>. QED BY <3>1
  <2>4. UNCHANGED sweep \/ Sweep \/ Tick
    BY <1>0, Steps, UploadEffect
    DEF OtherAction, ReaderAction, OpenFile, DropGuard, TakeGuard, TicketAction, IssueTicket, ExpireTicket,
        DeleterAction, RemoveUnreferenced, UnlinkDeleted, CheckExists, othersVars, storeVars
  <2>. QED BY <2>1, <2>2, <2>3, <2>4 DEF Sweep
<1>. QED BY <1>3, <1>4 DEF UnlinksRemoved

LEMMA SweepSparesStep ==
    ASSUME UploadsFitRetention, Stays, Next
    PROVE  SweepSpares'
<1>. SUFFICES ASSUME sweep'.phase = "visit", NEW v \in Uploads, files'[v] = "registered"
              PROVE  Pdf(v) \in sweep'.keep \/ mtime'[Pdf(v)] < TempTtl
  BY DEF SweepSpares, Registered, Pdf, Source
<1>0. /\ Accounts /\ Shapes /\ Pdf(v) \in Paths /\ Pdf(v) \in OwnPaths(v)
      /\ WellKept(v)
      /\ sweep.phase = "visit" /\ files[v] = "registered"
            => Pdf(v) \in sweep.keep \/ mtime[Pdf(v)] < TempTtl
  BY OwnPathsTyped, KeptIsWellKept DEF Stays, Accounts, SweepSpares, Registered
<1>1. ASSUME NEW u \in Uploads, UploadAction(u)
      PROVE  Pdf(v) \in sweep'.keep \/ mtime'[Pdf(v)] < TempTtl
  <2>1. UNCHANGED sweep
    BY <1>0, <1>1, UploadEffect
  <2>2. CASE u # v
    <3>1. Pdf(v) \in Paths \ OwnPaths(u)
      BY <1>0, <2>2, OwnPathsDiffer
    <3>. QED BY <1>0, <1>1, <2>1, <2>2, <3>1, UploadEffect
  <2>3. CASE u = v
    <3>1. upload[v].phase = "registering"
      BY <1>0, <1>1, <2>3, RegisterFacts DEF Accounts
    <3>2. mtime[Pdf(v)] <= upload[v].elapsed
      BY <1>0, <3>1 DEF WellKept
    <3>3. UNCHANGED mtime
      BY <1>0, <1>1, <2>3, RegisterFacts DEF Accounts, Register
    <3>4. mtime[Pdf(v)] \in 0..TempTtl /\ upload[v].elapsed \in 0..RequestTimeout
      BY <1>0 DEF Shapes, UploadRecord
    <3>. QED BY <3>2, <3>3, <3>4, Numbers DEF UploadsFitRetention
  <2>. QED BY <2>2, <2>3
<1>2. CASE Tick
  BY <1>0, <1>2, TickEffect
<1>3. CASE SnapshotDirectory
  BY <1>0, <1>3 DEF SnapshotDirectory, Registered, storeVars
<1>4. CASE OtherAction /\ ~SnapshotDirectory
  <2>1. UNCHANGED mtime /\ files[v] = "registered"
    BY <1>0, <1>4, OthersEffect, RemovalFacts DEF Accounts
  <2>2. sweep.phase = "visit" /\ sweep'.keep = sweep.keep
    <3>1. CASE Sweep
      <4>1. ~SweepRecords /\ ~EndSweep
        <5>1. CASE SweepRecords
          <6>1. sweep'.phase = "unlink"
            BY <1>0, <5>1 DEF SweepRecords, Shapes
          <6>. QED BY <6>1
        <5>2. CASE EndSweep
          BY <5>2 DEF EndSweep, Asleep
        <5>. QED BY <5>1, <5>2
      <4>2. PICK p \in Paths : VisitEntry(p)
        BY ONLY <1>4, <3>1, <4>1 DEF Sweep
      <4>. QED BY <1>0, <4>2 DEF VisitEntry, Shapes
    <3>2. CASE ~Sweep
      <4>1. UNCHANGED sweep
        BY <1>4, <3>2 DEF OtherAction, ReaderAction, OpenFile, DropGuard, TakeGuard,
           TicketAction, IssueTicket, ExpireTicket, DeleterAction, RemoveUnreferenced,
           UnlinkDeleted, CheckExists, othersVars
      <4>. QED BY <4>1
    <3>. QED BY <3>1, <3>2
  <2>. QED BY <1>0, <2>1, <2>2
<1>. QED BY <1>1, <1>2, <1>3, <1>4, Steps

LEMMA StaysInit == Init => Stays
<1>. SUFFICES ASSUME Init PROVE Stays
  OBVIOUS
<1>1. PhasesFit /\ Fresh /\ WorkNotSwept /\ RegisteredOnDisk
  BY DEF Init, PhasesFit, Fresh, WorkNotSwept, RegisteredOnDisk, Registered
<1>2. UnlinksRemoved /\ SweepSpares
  BY DEF Init, UnlinksRemoved, SweepSpares, Asleep
<1>. QED BY <1>1, <1>2, AccountsInit DEF Stays

LEMMA StaysStep ==
    ASSUME UploadsFitRetention, Stays, [Next]_vars
    PROVE  Stays'
<1>1. CASE Next
  <2>1. (\A u \in Uploads : WellKept(u))'
    BY <1>1, WellKeptStep
  <2>2. (PhasesFit /\ Fresh /\ WorkNotSwept /\ RegisteredOnDisk)'
    BY <2>1, KeptIsWellKept, PTL
  <2>. QED
    BY <1>1, <2>2, AccountsStep, UnlinksRemovedStep, SweepSparesStep DEF Stays
<1>2. CASE UNCHANGED vars
  <2>1. Accounts'
    BY <1>2, AccountsStep DEF Stays
  <2>2. (PhasesFit /\ Fresh /\ WorkNotSwept /\ RegisteredOnDisk)'
    BY <1>2 DEF vars, Stays, PhasesFit, Fresh, WorkNotSwept, RegisteredOnDisk, Registered
  <2>3. (UnlinksRemoved /\ SweepSpares)'
    BY <1>2 DEF vars, Stays, UnlinksRemoved, SweepSpares, Registered
  <2>. QED BY <2>1, <2>2, <2>3 DEF Stays
<1>. QED BY <1>1, <1>2

-----------------------------------------------------------------------------
(* The theorems.                                                           *)

\* TypeOK for any finite set of readers: the count of references stays below the
\* number of readers because it is the number of guards.
THEOREM TypeCorrect == IsFiniteSet(Readers) => (Spec => []TypeOK)
<1>. SUFFICES ASSUME IsFiniteSet(Readers) PROVE Spec => []TypeOK
  OBVIOUS
<1>1. ASSUME Accounts PROVE TypeOK
  <2>1. ASSUME NEW u \in Uploads PROVE refs[u] \in 0..Cardinality(Readers)
    <3>1. Holders(u) \subseteq Readers
      BY DEF Holders
    <3>2. /\ Cardinality(Holders(u)) <= Cardinality(Readers)
          /\ Cardinality(Readers) \in Nat /\ Cardinality(Holders(u)) \in Nat
      BY <3>1, FS_Subset, FS_CardinalityType
    <3>3. refs[u] = Cardinality(Holders(u))
      BY <1>1 DEF Accounts, References
    <3>. QED BY <3>2, <3>3
  <2>2. refs \in [Uploads -> 0..Cardinality(Readers)]
    BY <1>1, <2>1 DEF Accounts, Shapes
  <2>. QED BY <1>1, <2>2 DEF Accounts, Shapes, UploadRecord, TypeOK
<1>. QED BY <1>1, AccountsCorrect, PTL

\* The count of references of every registered file is the number of previews
\* and print submissions that hold it, whatever the timeouts: no file is pinned
\* for ever by a guard that was dropped, none is free while it is held.
THEOREM ReferencesExactCorrect == Spec => []ReferencesExact
<1>1. Accounts => ReferencesExact
  BY DEF Accounts, References, ReferencesExact, Registered
<1>. QED BY <1>1, AccountsCorrect, PTL

\* A ticket admits one upload and creates at most one file, however many
\* uploads present it and in whatever order they get their slots.
THEOREM TicketCreatesOneFileCorrect == Spec => []TicketCreatesOneFile
<1>1. Accounts => TicketCreatesOneFile
  BY DEF Accounts
<1>. QED BY <1>1, AccountsCorrect, PTL

\* If no request outlives the retention, a file stays on disk while an upload
\* works on it and as long as it is registered.
THEOREM StaysCorrect == UploadsFitRetention => (Spec => []Stays)
<1>. SUFFICES ASSUME UploadsFitRetention PROVE Spec => []Stays
  OBVIOUS
<1>. QED BY StaysInit, StaysStep, PTL DEF Spec

\* No sweep and no deletion takes what an upload works on.
THEOREM WorkNotSweptCorrect == UploadsFitRetention => (Spec => []WorkNotSwept)
<1>1. Stays => WorkNotSwept
  BY DEF Stays
<1>. QED BY <1>1, StaysCorrect, PTL

\* A file that the API knows is on disk.
THEOREM RegisteredOnDiskCorrect == UploadsFitRetention => (Spec => []RegisteredOnDisk)
<1>1. Stays => RegisteredOnDisk
  BY DEF Stays
<1>. QED BY <1>1, StaysCorrect, PTL

\* What a preview or a print submission holds is never unlinked under it.
THEOREM HeldFileStaysCorrect == UploadsFitRetention => (Spec => []HeldFileStays)
<1>1. Stays => HeldFileStays
  BY DEF Stays, Accounts, GuardsOnRegistered, RegisteredOnDisk, HeldFileStays
<1>. QED BY <1>1, StaysCorrect, PTL
=============================================================================
