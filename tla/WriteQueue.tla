------------------------------ MODULE WriteQueue ------------------------------
(***************************************************************************)
(* The write path of app/storage: WriteQueue (writer.py) over Spool        *)
(* (spool.py) and the database, across outages, rows the database refuses, *)
(* an orderly shutdown, a crash and restarts (app/main.py).                *)
(*                                                                         *)
(* Rows are numbered in the order of submit().  An action is the code      *)
(* between two awaits of the flushing task; submit() may run at any await. *)
(***************************************************************************)
EXTENDS Integers, SequencesExt

CONSTANTS
    Bad,         \* rows the database refuses
    MaxBatch,    \* settings.max_batch_rows
    MaxRows,     \* bound: rows submitted
    MaxOutages,  \* bound: times the database becomes unreachable
    Ends,        \* how the process may end: "shutdown", "crash"
    MaxEnds      \* bound: times it ends

VARIABLES
    sent,       \* rows submitted so far: 1 .. sent
    pending,    \* WriteQueue._pending
    files,      \* the spool-*.jsonl files, oldest first; torn: cut in the middle of a line
    spooled,    \* WriteQueue._spooled_rows
    ready,      \* Database.ready: there is a pool
    task,       \* the task inside flush(): where it waits and the rows in its hands
    stage,      \* "starting" (first flush of main), "running", "closing", "down"
    stored,     \* rows the database committed
    newest,     \* the row it applied last: what an upserted key shows
    refused,    \* rows in the rejected file
    reachable,  \* the database server can be reached
    outages,
    ends

queueVars == <<pending, files, spooled>>
dbVars    == <<stored, newest, refused>>
envVars   == <<reachable, outages, ends>>
vars == <<sent, queueVars, ready, task, stage, dbVars, envVars>>

-----------------------------------------------------------------------------

Lesser(a, b) == IF a <= b THEN a ELSE b

From(s, i) == SubSeq(s, i, Len(s))

File(rows) == [rows |-> rows, torn |-> FALSE]

OnDisk(fs) == UNION {ToSet(fs[i].rows) : i \in DOMAIN fs}

(* Spool.row_count: the lines of all files, a torn one too. *)
LinesOf(f) == Len(f.rows) + (IF f.torn THEN 1 ELSE 0)

Lines(fs) == Cardinality(UNION {{i} \X (1 .. LinesOf(fs[i])) : i \in DOMAIN fs})

Idle == [pc |-> "idle", source |-> "none", rows |-> <<>>, index |-> 0]

Waiting(pc) == [Idle EXCEPT !.pc = pc]

(* insert_batch was called: with all the rows, or row by row from index 1 on. *)
Inserting(source, rows, index) ==
    [pc |-> "inserting", source |-> source, rows |-> rows, index |-> index]

Attempt == IF task.index = 0 THEN task.rows ELSE <<task.rows[task.index]>>

Refusable == \E r \in ToSet(Attempt) : r \in Bad

-----------------------------------------------------------------------------
(* The end of a flush *)

(* Mutant: the file takes the place of what is spooled already. *)
SpoolFront(fs, rows) == <<File(rows)>> \o fs

SpoolAppend(fs, rows) == Append(fs, File(rows))

(* flush() is over with fs on disk and rows in memory.  _spool_pending moves
   them to disk when it is time, when there are many, or at the very end. *)
Finish(fs, rows, count, spool) ==
    LET closing == stage = "closing"
        move == /\ rows # <<>>
                /\ closing \/ Len(rows) >= MaxBatch
    IN /\ \E due \in BOOLEAN :
            IF spool /\ (move \/ (due /\ rows # <<>>))
            THEN /\ files' = SpoolAppend(fs, rows)
                 /\ pending' = <<>>
                 /\ spooled' = count + Len(rows)
            ELSE /\ files' = fs
                 /\ pending' = rows
                 /\ spooled' = count
       /\ task' = Idle
       /\ stage' = IF closing THEN "down" ELSE "running"

(* An exception leaves flush(): run() logs it and goes on, close() spools what
   is left, main() lets it end the start of the terminal. *)
Abort(fs, rows, count) ==
    IF stage = "starting"
    THEN /\ files' = fs /\ pending' = rows /\ spooled' = count
         /\ task' = Idle
         /\ stage' = "down"
    ELSE Finish(fs, rows, count, stage = "closing")

(* The next thing _replay_spool or flush writes, if any. *)
Advance(fs, rows, count) ==
    IF fs # <<>>
    THEN IF Head(fs).torn
         THEN Abort(fs, rows, count)
         ELSE /\ task' = Inserting("spool", Head(fs).rows, 0)
              /\ files' = fs /\ pending' = rows /\ spooled' = count
              /\ UNCHANGED stage
    ELSE IF rows # <<>>
    THEN LET n == Lesser(Len(rows), MaxBatch)
         IN /\ task' = Inserting("memory", SubSeq(rows, 1, n), 0)
            /\ pending' = From(rows, n + 1)
            /\ files' = fs /\ spooled' = count
            /\ UNCHANGED stage
    ELSE Finish(fs, rows, count, stage = "closing")

-----------------------------------------------------------------------------
(* The actions of the flushing task *)

Submit ==
    /\ stage # "down"
    /\ sent < MaxRows
    /\ sent' = sent + 1
    /\ pending' = Append(pending, sent + 1)
    /\ UNCHANGED <<files, spooled, ready, task, stage, dbVars, envVars>>

Flushable == stage # "down" /\ task = Idle

(* Not connected and too early for another attempt; a forced flush does not wait. *)
TooEarly ==
    /\ Flushable
    /\ ~ready
    /\ stage = "running"
    /\ Finish(files, pending, spooled, TRUE)
    /\ UNCHANGED <<sent, ready, dbVars, envVars>>

StartConnect ==
    /\ Flushable
    /\ ~ready
    /\ task' = Waiting("connecting")
    /\ UNCHANGED <<sent, queueVars, ready, stage, dbVars, envVars>>

ConnectFails ==
    /\ task.pc = "connecting"
    /\ ~reachable
    /\ Finish(files, pending, spooled, TRUE)
    /\ UNCHANGED <<sent, ready, dbVars, envVars>>

(* Connected: nothing pending may mean a ping first, else the work begins. *)
Work ==
    \/ /\ pending = <<>>
       /\ task' = Waiting("pinging")
       /\ UNCHANGED <<queueVars, stage>>
    \/ Advance(files, pending, spooled)

Connected ==
    /\ task.pc = "connecting"
    /\ reachable
    /\ ready' = TRUE
    /\ Work
    /\ UNCHANGED <<sent, dbVars, envVars>>

Flush ==
    /\ Flushable
    /\ ready
    /\ Work
    /\ UNCHANGED <<sent, ready, dbVars, envVars>>

PingAnswered ==
    /\ task.pc = "pinging"
    /\ reachable
    /\ Advance(files, pending, spooled)
    /\ UNCHANGED <<sent, ready, dbVars, envVars>>

(* The idle ping notices an outage; flush() returns without spooling. *)
PingFails ==
    /\ task.pc = "pinging"
    /\ ~reachable
    /\ ready' = FALSE
    /\ Finish(files, pending, spooled, stage = "closing")
    /\ UNCHANGED <<sent, dbVars, envVars>>

(* _write is through with its rows. *)
Written ==
    IF task.source = "spool"
    THEN Advance(Tail(files), pending, spooled - Len(task.rows))
    ELSE Advance(files, pending, spooled)

NextRow ==
    IF task.index \in 1 .. Len(task.rows) - 1
    THEN /\ task' = [task EXCEPT !.index = @ + 1]
         /\ UNCHANGED <<queueVars, stage>>
    ELSE Written

Apply(rows) ==
    /\ stored' = stored \cup ToSet(rows)
    /\ newest' = IF rows = <<>> THEN newest ELSE Last(rows)
    /\ UNCHANGED refused

Inserted ==
    /\ task.pc = "inserting"
    /\ reachable
    /\ ~Refusable
    /\ Apply(Attempt)
    /\ NextRow
    /\ UNCHANGED <<sent, ready, envVars>>

(* Mutant: a batch with a bad row is tried again as it is. *)
BatchRetried ==
    /\ task.pc = "inserting"
    /\ reachable
    /\ Refusable
    /\ task.index = 0
    /\ UNCHANGED vars

(* The whole batch is rolled back for one bad row: _write retries row by row. *)
BatchRefused ==
    /\ task.pc = "inserting"
    /\ reachable
    /\ Refusable
    /\ task.index = 0
    /\ task' = [task EXCEPT !.index = 1]
    /\ UNCHANGED <<sent, queueVars, ready, stage, dbVars, envVars>>

RowRefused ==
    /\ task.pc = "inserting"
    /\ reachable
    /\ Refusable
    /\ task.index # 0
    /\ refused' = refused \cup ToSet(Attempt)
    /\ NextRow
    /\ UNCHANGED <<sent, stored, newest, ready, envVars>>

(* The rows _write returns: those not known to be written. *)
Remaining == IF task.index = 0 THEN task.rows ELSE From(task.rows, task.index)

(* Mutant: the rows in hand are put back behind the new ones. *)
PutBackBehind(rows) == pending \o rows

(* pending.extendleft(reversed(remaining)) *)
PutBack(rows) == rows \o pending

(* Mutant: a file is removed though rows of it are left. *)
DropFile(rows) == Tail(files)

(* Spool.replace: the unwritten tail keeps the place of its file. *)
ReplaceFile(rows) == <<File(rows)>> \o Tail(files)

(* Mutant: the rows left in the file are counted off as well. *)
CountedOffAll == Len(task.rows)

CountedOff == Len(task.rows) - Len(Remaining)

(* An insert whose answer nobody hears: it was committed, or it was not. *)
Unheard ==
    \/ UNCHANGED dbVars
    \/ task.pc = "inserting" /\ ~Refusable /\ Apply(Attempt)

(* The connection is lost during insert_batch, before or after the commit. *)
InsertLost ==
    /\ task.pc = "inserting"
    /\ ~reachable
    /\ Unheard
    /\ ready' = FALSE
    /\ IF task.source = "spool"
       THEN Finish(ReplaceFile(Remaining), pending, spooled - CountedOff, TRUE)
       ELSE Finish(files, PutBack(Remaining), spooled, TRUE)
    /\ UNCHANGED <<sent, envVars>>

-----------------------------------------------------------------------------
(* The database server and the life of the process *)

Outage ==
    /\ reachable
    /\ outages < MaxOutages
    /\ reachable' = FALSE
    /\ outages' = outages + 1
    /\ UNCHANGED <<sent, queueVars, ready, task, stage, dbVars, ends>>

Recover ==
    /\ ~reachable
    /\ reachable' = TRUE
    /\ UNCHANGED <<sent, queueVars, ready, task, stage, dbVars, outages, ends>>

(* main() cancels the task of run() wherever it waits, then calls close(). *)
Shutdown ==
    /\ "shutdown" \in Ends /\ ends < MaxEnds
    /\ stage = "running"
    /\ stage' = "closing"
    /\ task' = Idle
    /\ ends' = ends + 1
    /\ Unheard
    /\ UNCHANGED <<sent, queueVars, ready, reachable, outages>>

(* Spool.append is under way under the file's final name: some whole lines of
   it are there, or a torn one too. *)
Torn(fs, rows) ==
    \E n \in 0 .. Len(rows) - 1, cut \in BOOLEAN :
        files' = Append(fs, [rows |-> SubSeq(rows, 1, n), torn |-> cut])

(* The moments _spool_pending may be writing, and behind which files. *)
Spooling ==
    \/ /\ \/ task.pc = "connecting"
          \/ task = Idle /\ ~ready /\ stage # "starting"
          \/ task.pc = "pinging" /\ ~reachable /\ stage = "closing"
       /\ Torn(files, pending)
    \/ /\ task.pc = "inserting" /\ ~reachable
       /\ IF task.source = "spool" THEN Torn(ReplaceFile(Remaining), pending)
                                   ELSE Torn(files, PutBack(Remaining))

(* Killed, anywhere. *)
Crash ==
    /\ "crash" \in Ends /\ ends < MaxEnds
    /\ stage # "down"
    /\ files' = files \/ Spooling
    /\ pending' = <<>>
    /\ task' = Idle
    /\ stage' = "down"
    /\ ends' = ends + 1
    /\ Unheard
    /\ UNCHANGED <<sent, spooled, ready, reachable, outages>>

Start ==
    /\ stage = "down"
    /\ ends > 0
    /\ stage' = "starting"
    /\ pending' = <<>>
    /\ spooled' = Lines(files)
    /\ ready' = FALSE
    /\ UNCHANGED <<sent, files, task, dbVars, envVars>>

Init ==
    /\ sent = 0
    /\ pending = <<>> /\ files = <<>> /\ spooled = 0
    /\ ready = FALSE
    /\ task = Idle
    /\ stage = "starting"
    /\ stored = {} /\ newest = 0 /\ refused = {}
    /\ reachable \in BOOLEAN
    /\ outages = 0 /\ ends = 0

TaskStep ==
    \/ ConnectFails \/ Connected \/ Flush \/ PingAnswered \/ PingFails
    \/ Inserted \/ BatchRefused \/ RowRefused \/ InsertLost

Next ==
    \/ Submit \/ TooEarly \/ StartConnect \/ TaskStep
    \/ Outage \/ Recover \/ Shutdown \/ Crash \/ Start

Spec == Init /\ [][Next]_vars

(* run() flushes every flush_interval_ms for ever and attempts to connect once
   reconnect_interval_s is over; connecting, pinging and inserting return or
   raise.  Nothing is assumed of the database server. *)
Fairness == WF_vars(StartConnect) /\ WF_vars(TaskStep) /\ WF_vars(Start)

FairSpec == Spec /\ Fairness

-----------------------------------------------------------------------------
(* Properties *)

InHand == IF task.source = "memory" THEN Remaining ELSE <<>>

(* Every row not yet dealt with, on disk or in memory. *)
Backlog == OnDisk(files) \cup ToSet(InHand) \cup ToSet(pending)

Rest == stage \in {"running", "down"} /\ task = Idle

(* Rows are dealt with in the order of submit() and none is skipped, whatever
   outages hit which insert, and only refused rows are set aside. *)
Log == INSTANCE RowLog

ImplementsLog == Log!Spec

(* Once nothing waits the database shows the newest row it was given, though
   lost acknowledgements and replays make it apply rows twice. *)
NewestWins == Rest /\ Backlog = {} => \A r \in stored : r <= newest

(* The counter of spooled rows shown to the user is what is on disk, after any
   partial replay, replaced file, crash and restart. *)
SpooledIsCounted == Rest /\ stage = "running" => spooled = Lines(files)

(* A row that is on disk stays there until the database has it or refused it,
   through outages, shutdowns, crashes and restarts. *)
SpooledIsKept ==
    [][OnDisk(files) \subseteq OnDisk(files') \cup stored' \cup refused']_vars

(* Unless the process ends, every submitted row reaches the database, or the
   rejected file, once the database stays reachable: no bad row, outage or
   lost acknowledgement blocks the ones behind it. *)
RowsArrive ==
    <>[]reachable =>
        \A r \in 1 .. MaxRows : r <= sent ~> r \in stored \cup refused

-----------------------------------------------------------------------------
(* What the code says of itself and does not keep; see README, Findings. *)

(* writer.py, anti-goal 2: no row is lost on an outage or an orderly restart. *)
NothingLost ==
    \A r \in 1 .. sent : r \in stored \cup refused \cup Backlog

(* spool.py, anti-goal 2: replay is not blocked for ever. *)
ReplayGoesOn == <>[]reachable => []<>(files = <<>>)
=============================================================================
