----------------------------- MODULE TempFiles -----------------------------
(***************************************************************************)
(* The temporary directory and the FileStore of src/store.rs: uploads that *)
(* fill them (multipart documents, multipart PDFs, ticket uploads),        *)
(* previews and print submissions that hold a file, deletions, and the     *)
(* cleanup loop of src/main.rs.                                            *)
(*                                                                         *)
(* The upload names the file: FileStore ids are fresh UUIDs.  An upload    *)
(* owns two paths, its source and its PDF; for a PDF they are one.  The    *)
(* LibreOffice profile and a Markdown upload's HTML live and die like the  *)
(* output of the conversion and are not told apart from it.                *)
(*                                                                         *)
(* Time: ages saturate at TempTtl, the only age the code asks for.  A      *)
(* sweep takes less than a tick, and two sweeps are a tick apart.          *)
(***************************************************************************)
EXTENDS Integers, FiniteSets, FiniteSetsExt

CONSTANTS Uploads, Readers, Deleters, Tickets, NoTicket, NoFile,
          Kind,               \* upload -> "doc", "pdf" or "ticket"
          Bytes,              \* upload -> the size of its PDF
          MaxBytes,           \* JUST_PRINT_MAX_TEMP_BYTES
          UploadSlots,        \* JUST_PRINT_UPLOAD_SLOTS
          ConversionSlots,    \* JUST_PRINT_CONVERSION_SLOTS
          TicketCapacity,     \* TICKET_CAPACITY
          RequestTimeout,     \* JUST_PRINT_REQUEST_TIMEOUT_SECS
          ConversionTimeout,  \* JUST_PRINT_CONVERSION_TIMEOUT_SECS
          TempTtl             \* JUST_PRINT_TEMP_TTL_SECS

ASSUME TempFilesAssumption ==
    /\ Kind \in [Uploads -> {"doc", "pdf", "ticket"}]
    /\ Bytes \in [Uploads -> Nat \ {0}]
    /\ {MaxBytes, UploadSlots, ConversionSlots, TicketCapacity, RequestTimeout,
        ConversionTimeout, TempTtl} \subseteq Nat \ {0}
    /\ NoTicket \notin Tickets
    /\ NoFile \notin Uploads
    /\ ConversionTimeout < TempTtl   \* Config::validate_consistency

VARIABLES upload,   \* where each upload request is
          disk,     \* the paths that exist
          mtime,    \* path -> ticks since it was last written
          files,    \* upload -> its record: none yet, registered, removed
          age,      \* upload -> ticks since its record was made
          refs,     \* upload -> FileRecord.references
          reader,   \* what each preview or print submission holds
          deleter,  \* where each DELETE request is
          sweep,    \* where the cleanup loop is
          tickets   \* ticket -> its life

vars == <<upload, disk, mtime, files, age, refs, reader, deleter, sweep, tickets>>

-----------------------------------------------------------------------------
Paths == Uploads \X {"source", "pdf"}
Source(u) == <<u, "source">>
Pdf(u) == IF Kind[u] = "doc" THEN <<u, "pdf">> ELSE Source(u)
Registered == {u \in Uploads : files[u] = "registered"}

\* Phases of an upload.  Receiving holds an upload slot; a ticket upload
\* holds it to the end.
Receiving == {"creating", "writing", "draining"}
Working   == Receiving \cup {"slot", "converting", "checking", "tidying", "registering"}
Active    == Working \cup {"queued"}

HoldsUploadSlot(u) == \/ upload[u].phase \in Receiving
                      \/ Kind[u] = "ticket" /\ upload[u].phase \in Working
UploadSlotFree == Cardinality({u \in Uploads : HoldsUploadSlot(u)}) < UploadSlots
ConversionSlotFree ==
    Cardinality({u \in Uploads : upload[u].phase = "converting"}) < ConversionSlots

TypeOK ==
    /\ upload \in [Uploads -> [phase : Active \cup {"idle", "done"},
                               elapsed : 0..RequestTimeout,
                               converting : 0..ConversionTimeout,
                               ticket : Tickets \cup {NoTicket}]]
    /\ disk \subseteq Paths
    /\ mtime \in [Paths -> 0..TempTtl]
    /\ files \in [Uploads -> {"none", "registered", "removed"}]
    /\ age \in [Uploads -> 0..TempTtl]
    /\ refs \in [Uploads -> 0..Cardinality(Readers)]
    /\ reader \in [Readers -> [phase : {"idle", "opening", "open"},
                               file : Uploads \cup {NoFile}]]
    /\ deleter \in [Deleters -> [phase : {"idle", "checked", "unlink", "refused", "done"},
                                 file : Uploads \cup {NoFile}]]
    /\ sweep \in [phase : {"asleep", "due", "unlink", "visit"},
                  paths : SUBSET Paths, keep : SUBSET Paths]
    /\ tickets \in [Tickets -> {"unissued", "valid", "expired", "redeemed"}]

Asleep == [phase |-> "asleep", paths |-> {}, keep |-> {}]

Init ==
    /\ upload = [u \in Uploads |-> [phase |-> "idle", elapsed |-> 0,
                                    converting |-> 0, ticket |-> NoTicket]]
    /\ disk = {}
    /\ mtime = [p \in Paths |-> 0]
    /\ files = [u \in Uploads |-> "none"]
    /\ age = [u \in Uploads |-> 0]
    /\ refs = [u \in Uploads |-> 0]
    /\ reader = [g \in Readers |-> [phase |-> "idle", file |-> NoFile]]
    /\ deleter = [d \in Deleters |-> [phase |-> "idle", file |-> NoFile]]
    /\ sweep = Asleep
    /\ tickets = [t \in Tickets |-> "unissued"]

-----------------------------------------------------------------------------
(* Uploads: upload and upload_by_ticket.                                   *)

storeVars  == <<files, age, refs>>
othersVars == <<storeVars, reader, deleter, sweep>>

Goto(u, phase) == upload' = [upload EXCEPT ![u].phase = phase]

\* The request is over; its clocks no longer matter.
End(u) == upload' = [upload EXCEPT ![u] = [@ EXCEPT !.phase = "done", !.elapsed = 0,
                                                    !.converting = 0]]

\* Writing a path creates it and makes it new.
Write(p) == /\ disk' = disk \cup {p}
            /\ mtime' = [mtime EXCEPT ![p] = 0]

StartUpload(u, t) ==
    /\ upload[u].phase = "idle"
    /\ t \in (IF Kind[u] = "ticket" THEN Tickets ELSE {NoTicket})
    /\ upload' = [upload EXCEPT ![u].phase = "queued", ![u].ticket = t]
    /\ UNCHANGED <<disk, mtime, tickets, othersVars>>

\* Mutant: the ticket is looked up, not taken.
Peeked(t) == tickets

\* redeem takes the ticket out of the map, expired or not.
Redeemed(t) == [tickets EXCEPT ![t] = IF @ = "unissued" THEN @ ELSE "redeemed"]

\* The slot first, the ticket second: waiting does not use up a ticket.
AcquireUploadSlot(u) ==
    /\ upload[u].phase = "queued"
    /\ UploadSlotFree
    /\ LET t == upload[u].ticket IN
       IF t = NoTicket
       THEN Goto(u, "creating") /\ UNCHANGED tickets
       ELSE /\ IF tickets[t] = "valid" THEN Goto(u, "creating") ELSE End(u)
            /\ tickets' = Redeemed(t)
    /\ UNCHANGED <<disk, mtime, othersVars>>

CreateSource(u) ==
    /\ upload[u].phase = "creating"
    /\ Write(Source(u))
    /\ Goto(u, "writing")
    /\ UNCHANGED <<tickets, othersVars>>

\* The open file is written to even if its path is gone.
WriteChunk(u) ==
    /\ upload[u].phase = "writing"
    /\ mtime' = [mtime EXCEPT ![Source(u)] = 0]
    /\ UNCHANGED <<upload, disk, tickets, othersVars>>

FinishWriting(u) ==
    /\ upload[u].phase = "writing"
    /\ Goto(u, IF Kind[u] = "ticket" THEN "checking" ELSE "draining")
    /\ UNCHANGED <<disk, mtime, tickets, othersVars>>

\* The rest of the multipart body, then the slot is given back.
FinishDraining(u) ==
    /\ upload[u].phase = "draining"
    /\ Goto(u, IF Kind[u] = "doc" THEN "slot" ELSE "checking")
    /\ UNCHANGED <<disk, mtime, tickets, othersVars>>

AcquireConversionSlot(u) ==
    /\ upload[u].phase = "slot"
    /\ ConversionSlotFree
    /\ Goto(u, "converting")
    /\ UNCHANGED <<disk, mtime, tickets, othersVars>>

\* soffice writes its output at some moment of the conversion.
SofficeWrites(u) ==
    /\ upload[u].phase = "converting"
    /\ Source(u) \in disk
    /\ Pdf(u) \notin disk
    /\ Write(Pdf(u))
    /\ UNCHANGED <<upload, tickets, othersVars>>

FinishConversion(u) ==
    /\ upload[u].phase = "converting"
    /\ Pdf(u) \in disk
    /\ Goto(u, "tidying")
    /\ UNCHANGED <<disk, mtime, tickets, othersVars>>

TidySource(u) ==
    /\ upload[u].phase = "tidying"
    /\ disk' = disk \ {Source(u)}
    /\ Goto(u, "registering")
    /\ UNCHANGED <<mtime, tickets, othersVars>>

\* The magic bytes of a PDF are right.
CheckMagic(u) ==
    /\ upload[u].phase = "checking"
    /\ Pdf(u) \in disk
    /\ Goto(u, "registering")
    /\ UNCHANGED <<disk, mtime, tickets, othersVars>>

\* try_insert: within the budget, or the PDF goes.  A multipart upload reads
\* the PDF's size from the disk first, a ticket upload has counted the bytes.
Fits(u) == Bytes[u] + MapThenSumSet(LAMBDA v : Bytes[v], Registered)
             <= MaxBytes

Register(u) ==
    /\ upload[u].phase = "registering"
    /\ IF Fits(u) /\ (Kind[u] = "ticket" \/ Pdf(u) \in disk)
       THEN /\ files' = [files EXCEPT ![u] = "registered"]
            /\ age' = [age EXCEPT ![u] = 0]
            /\ UNCHANGED disk
       ELSE /\ disk' = disk \ {Source(u), Pdf(u)}
            /\ UNCHANGED <<files, age>>
    /\ End(u)
    /\ UNCHANGED <<mtime, refs, reader, deleter, sweep, tickets>>

\* An error answer before registration (too large, empty, not a PDF, soffice
\* failed or timed out): the guards remove what there is.
Fail(u) ==
    /\ upload[u].phase \in Working \ {"slot", "tidying", "registering"}
    /\ disk' = disk \ {Source(u), Pdf(u)}
    /\ End(u)
    /\ UNCHANGED <<mtime, tickets, othersVars>>

\* What the dropped future leaves behind: a creation or a dying soffice may
\* come after the guard, and nothing guards a finished conversion's output.
Leftover(u) ==
    CASE upload[u].phase = "creating" -> {{}, {Source(u)}}
      [] upload[u].phase = "converting" -> {{}, {Pdf(u)}}
      [] upload[u].phase \in {"tidying", "registering"} /\ Kind[u] = "doc" ->
            {disk \cap {Pdf(u)}}
      [] OTHER -> {{}}

DropUpload(u) ==
    /\ upload[u].phase \in Active
    /\ \E left \in Leftover(u) :
          /\ disk' = (disk \ {Source(u), Pdf(u)}) \cup left
          /\ mtime' = [p \in Paths |-> IF p \in left \ disk THEN 0 ELSE mtime[p]]
    /\ End(u)
    /\ UNCHANGED <<tickets, othersVars>>

\* The request timeout fires; a client may also leave earlier.
RequestTimesOut(u) == upload[u].elapsed = RequestTimeout /\ DropUpload(u)
ClientLeaves(u) == upload[u].elapsed < RequestTimeout /\ DropUpload(u)

-----------------------------------------------------------------------------
(* Previews and print submissions hold a FileGuard; deletions.             *)

TakeGuard(g, u) ==
    /\ reader[g].phase = "idle"
    /\ u \in Registered
    /\ refs' = [refs EXCEPT ![u] = @ + 1]
    /\ reader' = [reader EXCEPT ![g] = [phase |-> "opening", file |-> u]]
    /\ UNCHANGED <<upload, disk, mtime, files, age, deleter, sweep, tickets>>

OpenFile(g) ==
    /\ reader[g].phase = "opening"
    /\ Pdf(reader[g].file) \in disk
    /\ reader' = [reader EXCEPT ![g].phase = "open"]
    /\ UNCHANGED <<upload, disk, mtime, storeVars, deleter, sweep, tickets>>

\* Mutant: the reference is given back by the end of the body only.
DropGuardAtEnd(g) ==
    /\ reader[g].phase # "idle"
    /\ LET u == reader[g].file IN
       refs' = IF reader[g].phase = "open" THEN [refs EXCEPT ![u] = @ - 1] ELSE refs
    /\ reader' = [reader EXCEPT ![g] = [phase |-> "idle", file |-> NoFile]]
    /\ UNCHANGED <<upload, disk, mtime, files, age, deleter, sweep, tickets>>

\* FileGuard::drop, at the end, on an error or when the client leaves.
DropGuard(g) ==
    /\ reader[g].phase # "idle"
    /\ LET u == reader[g].file IN
       refs' = IF u \in Registered /\ refs[u] > 0 THEN [refs EXCEPT ![u] = @ - 1]
               ELSE refs
    /\ reader' = [reader EXCEPT ![g] = [phase |-> "idle", file |-> NoFile]]
    /\ UNCHANGED <<upload, disk, mtime, files, age, deleter, sweep, tickets>>

\* DELETE: contains, then remove, then unlink; a file not there is a 404.
CheckExists(d, u) ==
    /\ deleter[d].phase = "idle"
    /\ u \in Registered
    /\ deleter' = [deleter EXCEPT ![d] = [phase |-> "checked", file |-> u]]
    /\ UNCHANGED <<upload, disk, mtime, storeVars, reader, sweep, tickets>>

RemoveUnreferenced(d) ==
    /\ deleter[d].phase = "checked"
    /\ LET u == deleter[d].file IN
       IF u \in Registered /\ refs[u] = 0
       THEN /\ files' = [files EXCEPT ![u] = "removed"]
            /\ deleter' = [deleter EXCEPT ![d].phase = "unlink"]
       ELSE /\ deleter' = [deleter EXCEPT ![d].phase = "refused"]  \* 409
            /\ UNCHANGED files
    /\ UNCHANGED <<upload, disk, mtime, age, refs, reader, sweep, tickets>>

UnlinkDeleted(d) ==
    /\ deleter[d].phase = "unlink"
    /\ disk' = disk \ {Pdf(deleter[d].file)}
    /\ deleter' = [deleter EXCEPT ![d].phase = "done"]
    /\ UNCHANGED <<upload, mtime, storeVars, reader, sweep, tickets>>

-----------------------------------------------------------------------------
(* Tickets.  The sweep of expired ones is part of issuing.                 *)
IssueTicket(t) ==
    /\ tickets[t] = "unissued"
    /\ Cardinality({s \in Tickets : tickets[s] = "valid"}) < TicketCapacity
    /\ tickets' = [tickets EXCEPT ![t] = "valid"]
    /\ UNCHANGED <<upload, disk, mtime, othersVars>>

ExpireTicket(t) ==
    /\ tickets[t] = "valid"
    /\ tickets' = [tickets EXCEPT ![t] = "expired"]
    /\ UNCHANGED <<upload, disk, mtime, othersVars>>

-----------------------------------------------------------------------------
(* The cleanup loop: cleanup, then cleanup_orphans.                        *)

\* Mutant: the retention does not look at the references.
StaleAnyReferences(u) == u \in Registered /\ age[u] >= TempTtl

Stale(u) == u \in Registered /\ refs[u] = 0 /\ age[u] >= TempTtl

SweepRecords ==
    /\ sweep.phase = "due"
    /\ files' = [u \in Uploads |-> IF Stale(u) THEN "removed" ELSE files[u]]
    /\ sweep' = [sweep EXCEPT !.phase = "unlink",
                              !.paths = {Pdf(u) : u \in {v \in Uploads : Stale(v)}}]
    /\ UNCHANGED <<upload, disk, mtime, age, refs, reader, deleter, tickets>>

\* Unlink the records' files, then list the registered ones and the directory.
SnapshotDirectory ==
    /\ sweep.phase = "unlink"
    /\ disk' = disk \ sweep.paths
    /\ sweep' = [phase |-> "visit", paths |-> disk',
                 keep |-> {Pdf(u) : u \in Registered}]
    /\ UNCHANGED <<upload, mtime, storeVars, reader, deleter, tickets>>

\* Mutants: the sweep does not look at what is registered; at the age; at the
\* outputs of conversions.
OrphanByAge(p) == mtime[p] >= TempTtl
OrphanUnregistered(p) == p \notin sweep.keep
OrphanSource(p) == p \notin sweep.keep /\ mtime[p] >= TempTtl /\ p[2] = "source"

Orphan(p) == p \notin sweep.keep /\ mtime[p] >= TempTtl

VisitEntry(p) ==
    /\ sweep.phase = "visit"
    /\ p \in sweep.paths
    /\ disk' = IF Orphan(p) THEN disk \ {p} ELSE disk
    /\ sweep' = [sweep EXCEPT !.paths = @ \ {p}]
    /\ UNCHANGED <<upload, mtime, storeVars, reader, deleter, tickets>>

EndSweep ==
    /\ sweep.phase = "visit"
    /\ sweep.paths = {}
    /\ sweep' = Asleep
    /\ UNCHANGED <<upload, disk, mtime, storeVars, reader, deleter, tickets>>

Aged(n) == IF n < TempTtl THEN n + 1 ELSE n

\* Some request or some conversion has used up its time.
TimeIsUp ==
    \E u \in Uploads :
        \/ upload[u].phase \in Active /\ upload[u].elapsed = RequestTimeout
        \/ upload[u].phase = "converting" /\ upload[u].converting = ConversionTimeout

Tick ==
    /\ sweep.phase \in {"asleep", "due"}
    /\ ~TimeIsUp
    /\ upload' = [u \in Uploads |->
                     [upload[u] EXCEPT
                         !.elapsed = IF upload[u].phase \in Active THEN @ + 1 ELSE @,
                         !.converting = IF upload[u].phase = "converting" THEN @ + 1 ELSE @]]
    /\ mtime' = [p \in Paths |-> IF p \in disk THEN Aged(mtime[p]) ELSE 0]
    /\ age' = [u \in Uploads |-> IF u \in Registered THEN Aged(age[u]) ELSE 0]
    /\ sweep' = [sweep EXCEPT !.phase = "due"]
    /\ UNCHANGED <<disk, files, refs, reader, deleter, tickets>>

UploadStep(u) ==
    \/ AcquireUploadSlot(u) \/ CreateSource(u) \/ FinishWriting(u)
    \/ FinishDraining(u) \/ AcquireConversionSlot(u) \/ SofficeWrites(u)
    \/ FinishConversion(u) \/ TidySource(u) \/ CheckMagic(u) \/ Register(u)

Sweep == SweepRecords \/ SnapshotDirectory \/ EndSweep \/ \E p \in Paths : VisitEntry(p)

Next ==
    \/ \E u \in Uploads :
          \/ \E t \in Tickets \cup {NoTicket} : StartUpload(u, t)
          \/ UploadStep(u) \/ WriteChunk(u) \/ Fail(u)
          \/ RequestTimesOut(u) \/ ClientLeaves(u)
    \/ \E g \in Readers : OpenFile(g) \/ DropGuard(g) \/ \E u \in Uploads : TakeGuard(g, u)
    \/ \E d \in Deleters :
          \/ RemoveUnreferenced(d) \/ UnlinkDeleted(d)
          \/ \E u \in Uploads : CheckExists(d, u)
    \/ \E t \in Tickets : IssueTicket(t) \/ ExpireTicket(t)
    \/ Sweep \/ Tick

Spec == Init /\ [][Next]_vars

\* The loop keeps sweeping, the clock keeps running, a request that reached
\* its timeout ends.  Clients, readers, deletions and conversions owe nothing.
Fairness ==
    /\ WF_vars(Sweep)
    /\ WF_vars(Tick)
    /\ \A u \in Uploads :
          /\ WF_vars(RequestTimesOut(u))
          /\ WF_vars(upload[u].converting = ConversionTimeout /\ Fail(u))

FairSpec == Spec /\ Fairness

-----------------------------------------------------------------------------
(* Properties.                                                             *)

Holders(u) == {g \in Readers : reader[g].file = u}

\* What a preview streams or a Print-Job sends is never unlinked under it:
\* not by a deletion, not by the retention, not by the sweep for orphans.
HeldFileStays ==
    \A g \in Readers : reader[g].phase # "idle" => Pdf(reader[g].file) \in disk

\* A file the API knows is on disk: no print of a registered file fails to open.
RegisteredOnDisk == \A u \in Registered : Pdf(u) \in disk

\* references counts the guards alive, so that no file is pinned for ever.
ReferencesExact == \A u \in Registered : refs[u] = Cardinality(Holders(u))

\* The sweep by mtime never takes what an upload is still working on
\* (src/store.rs, cleanup_orphans).
WorkNotSwept ==
    \A u \in Uploads :
        /\ upload[u].phase \in {"writing", "draining", "slot", "converting", "checking"}
              => Source(u) \in disk
        /\ upload[u].phase \in {"tidying", "registering"} => Pdf(u) \in disk

\* A ticket creates at most one file.
TicketCreatesOneFile ==
    \A u, v \in Uploads :
        /\ Kind[u] = "ticket" /\ Kind[v] = "ticket"
        /\ upload[u].ticket = upload[v].ticket
        /\ upload[u].phase \in Working \/ files[u] # "none"
        /\ upload[v].phase \in Working \/ files[v] # "none"
        => u = v

\* What an upload that is over has in the directory without a record of it.
Leftovers(u) ==
    {p \in disk : /\ p[1] = u /\ upload[u].phase = "done"
                  /\ p \notin {Pdf(v) : v \in Registered}}

\* Whatever an interrupted upload, a refused registration or a deletion leaves
\* in the directory is removed in the end.
LeftoversLeave == \A u \in Uploads : Leftovers(u) # {} ~> Leftovers(u) = {}
=============================================================================
